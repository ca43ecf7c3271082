-------------------------- MODULE ShopOrdersProofs --------------------------
(***************************************************************************)
(* Proofs about ShopOrders, for every set of orders and products and every  *)
(* bound: type correctness, that goods follow money line by line, that      *)
(* closed, sold and held orders stay what they are, that the ledger of the  *)
(* stock is exact, and that the stock covers the live reservations while no *)
(* transaction waits for a lock.                                            *)
(***************************************************************************)
EXTENDS ShopOrders, FiniteSetTheorems, TLAPS

(* StockFollowsPayment is not inductive: it says nothing of an order under      *)
(* review, whose lines must still be ACTIVE or CONFIRMED as its payment says,    *)
(* nor of the lines of an order that does not exist yet.                         *)
OrdersAgree ==
    \A o \in Orders :
        /\ orders[o].status = "NONE" => orders[o].pay = "AWAITING_PAYMENT" /\ ~orders[o].review
        /\ orders[o].pay = "PAID" => orders[o].status = "OPEN"

LinesFollowOrder ==
    \A o \in Orders, p \in Products :
        /\ orders[o].status = "NONE" => quantity[o][p] = 0 /\ reservation[o][p] = "NONE"
        /\ quantity[o][p] > 0 =>
            /\ reservation[o][p] = "CONFIRMED" <=> orders[o].pay = "PAID"
            /\ orders[o].status = "OPEN" /\ orders[o].pay = "AWAITING_PAYMENT"
                => reservation[o][p] = "ACTIVE"

OrdersInv == OrdersTypeOK /\ OrdersAgree /\ LinesFollowOrder

-----------------------------------------------------------------------------
(* Type correctness, one lemma per operation the code performs.               *)

LEMMA SettleType ==
    ASSUME OrdersTypeOK, NEW o \in Orders, NEW outcome \in ReservationStatuses
    PROVE  Settle(o, outcome) \in [Products -> ReservationStatuses]
BY DEF Settle, OrdersTypeOK

LEMMA TickType == OrdersTypeOK /\ Tick => OrdersTypeOK'
BY TimeAssumption DEF OrdersTypeOK, Tick

LEMMA CreateOrderType ==
    ASSUME OrdersTypeOK, NEW o \in Orders, NEW basket \in Baskets, NEW now \in ReadInstants,
           CreateOrder(o, basket, now)
    PROVE  OrdersTypeOK'
<1>1. now + Ttl \in 0..(MaxTime + Ttl)
  BY TimeAssumption DEF OrdersTypeOK, ReadInstants
<1>2. [AbsentOrder EXCEPT !.status = "OPEN", !.deadline = now + Ttl] \in OrderRows
  BY <1>1 DEF AbsentOrder, OrderRows, OrderStatuses, PaymentStatuses
<1>3. orders' \in [Orders -> OrderRows]
  BY <1>2 DEF OrdersTypeOK, CreateOrder
<1>4. [p \in Products |-> IF basket[p] > 0 THEN "ACTIVE" ELSE "NONE"]
        \in [Products -> ReservationStatuses]
  BY DEF ReservationStatuses
<1>5. reservation' \in [Orders -> [Products -> ReservationStatuses]]
  BY <1>4 DEF OrdersTypeOK, CreateOrder
<1>6. quantity' \in [Orders -> Baskets]
  BY DEF OrdersTypeOK, CreateOrder
<1> QED
  BY <1>3, <1>5, <1>6 DEF OrdersTypeOK, CreateOrder

LEMMA CancelOrderType ==
    ASSUME OrdersTypeOK, NEW o \in Orders, CancelOrder(o)
    PROVE  OrdersTypeOK'
<1>1. Settle(o, "RELEASED") \in [Products -> ReservationStatuses]
  BY SettleType DEF ReservationStatuses
<1>2. [orders[o] EXCEPT !.status = "CANCELLED", !.pay = "CANCELLED"] \in OrderRows
  BY DEF OrdersTypeOK, OrderRows, OrderStatuses, PaymentStatuses
<1>3. orders' = [orders EXCEPT ![o] = [@ EXCEPT !.status = "CANCELLED", !.pay = "CANCELLED"]]
  BY DEF CancelOrder
<1>4. orders' \in [Orders -> OrderRows]
  BY <1>2, <1>3 DEF OrdersTypeOK
<1> QED
  BY <1>1, <1>4 DEF OrdersTypeOK, CancelOrder

LEMMA ExpireReservationsType ==
    ASSUME OrdersTypeOK, NEW batch \in SUBSET Orders, ExpireReservations(batch)
    PROVE  OrdersTypeOK'
<1>1. \A o \in Orders : Settle(o, "EXPIRED") \in [Products -> ReservationStatuses]
  BY SettleType DEF ReservationStatuses
<1>2. orders' \in [Orders -> OrderRows]
  BY DEF OrdersTypeOK, ExpireReservations, OrderRows, OrderStatuses, PaymentStatuses
<1>3. reservation' \in [Orders -> [Products -> ReservationStatuses]]
  BY <1>1 DEF OrdersTypeOK, ExpireReservations
<1> QED
  BY <1>2, <1>3 DEF OrdersTypeOK, ExpireReservations

LEMMA SetStockType ==
    ASSUME OrdersTypeOK, NEW p \in Products, NEW units \in 0..MaxStock, SetStock(p, units)
    PROVE  OrdersTypeOK'
BY SizesAssumption DEF OrdersTypeOK, SetStock

LEMMA AcceptTermsType ==
    ASSUME OrdersTypeOK, NEW o \in Orders, NEW now, AcceptTerms(o, now)
    PROVE  OrdersTypeOK'
BY DEF OrdersTypeOK, AcceptTerms, OrderRows

LEMMA ConfirmSaleType ==
    ASSUME OrdersTypeOK, NEW o \in Orders, NEW now, ConfirmSale(o, now)
    PROVE  OrdersTypeOK'
<1>1. Settle(o, "CONFIRMED") \in [Products -> ReservationStatuses]
  BY SettleType DEF ReservationStatuses
<1>2. \A p \in Products : stock[p] - quantity[o][p] \in Nat
  BY SizesAssumption DEF OrdersTypeOK, ConfirmSale, Sellable, StockSuffices, Baskets
<1>3. stock' \in [Products -> Nat]
  BY <1>2 DEF ConfirmSale, ShelfAfterSale
<1>4. orders' \in [Orders -> OrderRows]
  BY DEF OrdersTypeOK, ConfirmSale, OrderRows, PaymentStatuses
<1> QED
  BY <1>1, <1>3, <1>4 DEF OrdersTypeOK, ConfirmSale

LEMMA HoldOrderType ==
    ASSUME OrdersTypeOK, NEW o \in Orders, HoldOrder(o)
    PROVE  OrdersTypeOK'
BY DEF OrdersTypeOK, HoldOrder, OrderRows

LEMMA OrdersInitType == OrdersInit => OrdersTypeOK
BY SizesAssumption, TimeAssumption
DEF OrdersInit, OrdersTypeOK, AbsentOrder, OrderRows, OrderStatuses, PaymentStatuses,
    ReservationStatuses, Baskets

LEMMA OrdersNextType == OrdersTypeOK /\ [OrdersNext]_orderVars => OrdersTypeOK'
<1> SUFFICES ASSUME OrdersTypeOK, [OrdersNext]_orderVars PROVE OrdersTypeOK'
  OBVIOUS
<1>1. CASE Tick
  BY <1>1, TickType
<1>2. ASSUME NEW o \in Orders, NEW basket \in Baskets, NEW now \in ReadInstants,
             CreateOrder(o, basket, now)
      PROVE  OrdersTypeOK'
  BY <1>2, CreateOrderType
<1>3. ASSUME NEW o \in Orders, CancelOrder(o) PROVE OrdersTypeOK'
  BY <1>3, CancelOrderType
<1>4. ASSUME NEW o \in Orders, NEW now \in ReadInstants, AcceptTerms(o, now)
      PROVE  OrdersTypeOK'
  BY <1>4, AcceptTermsType
<1>5. ASSUME NEW o \in Orders, NEW now \in ReadInstants, ConfirmSale(o, now)
      PROVE  OrdersTypeOK'
  BY <1>5, ConfirmSaleType
<1>6. ASSUME NEW o \in Orders, HoldOrder(o) PROVE OrdersTypeOK'
  BY <1>6, HoldOrderType
<1>7. ASSUME NEW batch \in SUBSET Orders, ExpireReservations(batch) PROVE OrdersTypeOK'
  BY <1>7, ExpireReservationsType
<1>8. ASSUME NEW p \in Products, NEW units \in 0..MaxStock, SetStock(p, units)
      PROVE  OrdersTypeOK'
  BY <1>8, SetStockType
<1>9. CASE UNCHANGED orderVars
  BY <1>9 DEF OrdersTypeOK, orderVars
<1> QED
  BY <1>1, <1>2, <1>3, <1>4, <1>5, <1>6, <1>7, <1>8, <1>9 DEF OrdersNext

\* Every variable keeps its type: in particular no stock is ever negative, whatever
\* the bounds and however long a reconciliation waited for its locks.
THEOREM OrdersTypeCorrect == OrdersSpec => []OrdersTypeOK
BY OrdersInitType, OrdersNextType, PTL DEF OrdersSpec

-----------------------------------------------------------------------------
(* The status, the payment and the review flag of every order agree.          *)

LEMMA OrdersNextAgree ==
    OrdersTypeOK /\ OrdersAgree /\ [OrdersNext]_orderVars => OrdersAgree'
<1> SUFFICES ASSUME OrdersTypeOK, OrdersAgree, [OrdersNext]_orderVars PROVE OrdersAgree'
  OBVIOUS
<1> USE DEF OrdersTypeOK, OrdersAgree
<1>1. CASE Tick
  BY <1>1 DEF Tick
<1>2. ASSUME NEW o \in Orders, NEW basket \in Baskets, NEW now \in ReadInstants,
             CreateOrder(o, basket, now)
      PROVE  OrdersAgree'
  BY <1>2 DEF CreateOrder, AbsentOrder
<1>3. ASSUME NEW o \in Orders, CancelOrder(o) PROVE OrdersAgree'
  BY <1>3 DEF CancelOrder, OrderRows
<1>4. ASSUME NEW o \in Orders, NEW now \in ReadInstants, AcceptTerms(o, now)
      PROVE  OrdersAgree'
  BY <1>4 DEF AcceptTerms, OrderRows
<1>5. ASSUME NEW o \in Orders, NEW now \in ReadInstants, ConfirmSale(o, now)
      PROVE  OrdersAgree'
  BY <1>5 DEF ConfirmSale, Sellable, Payable, OrderRows
<1>6. ASSUME NEW o \in Orders, HoldOrder(o) PROVE OrdersAgree'
  BY <1>6 DEF HoldOrder, OrderRows
<1>7. ASSUME NEW batch \in SUBSET Orders, ExpireReservations(batch) PROVE OrdersAgree'
  BY <1>7 DEF ExpireReservations, Overdue, Payable, OrderRows
<1>8. ASSUME NEW p \in Products, NEW units \in 0..MaxStock, SetStock(p, units)
      PROVE  OrdersAgree'
  BY <1>8 DEF SetStock
<1>9. CASE UNCHANGED orderVars
  BY <1>9 DEF orderVars
<1> QED
  BY <1>1, <1>2, <1>3, <1>4, <1>5, <1>6, <1>7, <1>8, <1>9 DEF OrdersNext

\* An order that exists goes on existing, and keeps the terms it accepted.
LEMMA OrdersLast ==
    ASSUME OrdersTypeOK, [OrdersNext]_orderVars, NEW other \in Orders,
           orders[other].status # "NONE"
    PROVE  orders'[other].status # "NONE" /\ (orders[other].terms => orders'[other].terms)
<1> DEFINE Lasts == orders'[other].status # "NONE" /\ (orders[other].terms => orders'[other].terms)
<1> USE DEF OrdersTypeOK, OrderRows
<1>1. CASE Tick
  BY <1>1 DEF Tick
<1>2. ASSUME NEW o \in Orders, NEW basket \in Baskets, NEW now \in ReadInstants,
             CreateOrder(o, basket, now)
      PROVE  Lasts
  BY <1>2 DEF CreateOrder
<1>3. ASSUME NEW o \in Orders, CancelOrder(o) PROVE Lasts
  BY <1>3 DEF CancelOrder
<1>4. ASSUME NEW o \in Orders, NEW now \in ReadInstants, AcceptTerms(o, now) PROVE Lasts
  BY <1>4 DEF AcceptTerms
<1>5. ASSUME NEW o \in Orders, NEW now \in ReadInstants, ConfirmSale(o, now) PROVE Lasts
  BY <1>5 DEF ConfirmSale
<1>6. ASSUME NEW o \in Orders, HoldOrder(o) PROVE Lasts
  BY <1>6 DEF HoldOrder
<1>7. ASSUME NEW batch \in SUBSET Orders, ExpireReservations(batch) PROVE Lasts
  BY <1>7 DEF ExpireReservations
<1>8. ASSUME NEW p \in Products, NEW units \in 0..MaxStock, SetStock(p, units) PROVE Lasts
  BY <1>8 DEF SetStock
<1>9. CASE UNCHANGED orderVars
  BY <1>9 DEF orderVars
<1> QED
  BY <1>1, <1>2, <1>3, <1>4, <1>5, <1>6, <1>7, <1>8, <1>9 DEF OrdersNext

-----------------------------------------------------------------------------
(* Goods follow money.  Each lemma looks at one order other, which is or is not *)
(* the order that the operation touches.                                       *)

LEMMA CreateOrderLines ==
    ASSUME OrdersInv, NEW o \in Orders, NEW basket \in Baskets, NEW now \in ReadInstants,
           CreateOrder(o, basket, now)
    PROVE  LinesFollowOrder'
<1> SUFFICES ASSUME NEW other \in Orders, NEW p \in Products
             PROVE  LinesFollowOrder!(other, p)'
  BY DEF LinesFollowOrder
<1>1. CASE other = o
  <2>1. orders'[o] = [AbsentOrder EXCEPT !.status = "OPEN", !.deadline = now + Ttl]
    BY DEF OrdersInv, OrdersTypeOK, CreateOrder
  <2>2. orders'[o].status = "OPEN" /\ orders'[o].pay = "AWAITING_PAYMENT"
    BY <2>1 DEF AbsentOrder
  <2>3. quantity'[o] = basket
        /\ reservation'[o][p] = IF basket[p] > 0 THEN "ACTIVE" ELSE "NONE"
    BY DEF OrdersInv, OrdersTypeOK, CreateOrder
  <2> QED
    BY <1>1, <2>2, <2>3
<1>2. CASE other # o
  BY <1>2 DEF OrdersInv, OrdersTypeOK, LinesFollowOrder, CreateOrder
<1> QED
  BY <1>1, <1>2

LEMMA CancelOrderLines ==
    ASSUME OrdersInv, NEW o \in Orders, CancelOrder(o)
    PROVE  LinesFollowOrder'
<1> SUFFICES ASSUME NEW other \in Orders, NEW p \in Products
             PROVE  LinesFollowOrder!(other, p)'
  BY DEF LinesFollowOrder
<1>1. CASE other = o
  <2>1. orders'[o].status = "CANCELLED" /\ orders'[o].pay = "CANCELLED"
    BY DEF OrdersInv, OrdersTypeOK, OrderRows, CancelOrder
  <2>2. reservation'[o][p] # "CONFIRMED"
    BY DEF OrdersInv, OrdersTypeOK, CancelOrder, Cancellable, Settle
  <2> QED
    BY <1>1, <2>1, <2>2
<1>2. CASE other # o
  BY <1>2 DEF OrdersInv, OrdersTypeOK, LinesFollowOrder, CancelOrder
<1> QED
  BY <1>1, <1>2

LEMMA ExpireReservationsLines ==
    ASSUME OrdersInv, NEW batch \in SUBSET Orders, ExpireReservations(batch)
    PROVE  LinesFollowOrder'
<1> SUFFICES ASSUME NEW other \in Orders, NEW p \in Products
             PROVE  LinesFollowOrder!(other, p)'
  BY DEF LinesFollowOrder
<1>1. CASE other \in batch
  <2>1. orders'[other].status = "EXPIRED" /\ orders'[other].pay = "AWAITING_PAYMENT"
    BY <1>1 DEF OrdersInv, OrdersTypeOK, OrderRows, ExpireReservations, Overdue, Payable
  <2>2. quantity[other][p] > 0 => reservation[other][p] = "ACTIVE"
    BY <1>1 DEF OrdersInv, LinesFollowOrder, ExpireReservations, Overdue, Payable
  <2>3. quantity[other][p] > 0 => reservation'[other][p] = "EXPIRED"
    BY <1>1, <2>2 DEF OrdersInv, OrdersTypeOK, ExpireReservations, Settle
  <2> QED
    BY <2>1, <2>3 DEF ExpireReservations
<1>2. CASE other \notin batch
  BY <1>2 DEF OrdersInv, OrdersTypeOK, LinesFollowOrder, ExpireReservations
<1> QED
  BY <1>1, <1>2

LEMMA ConfirmSaleLines ==
    ASSUME OrdersInv, NEW o \in Orders, NEW now, ConfirmSale(o, now)
    PROVE  LinesFollowOrder'
<1> SUFFICES ASSUME NEW other \in Orders, NEW p \in Products
             PROVE  LinesFollowOrder!(other, p)'
  BY DEF LinesFollowOrder
<1>1. CASE other = o
  <2>1. orders'[o].status = "OPEN" /\ orders'[o].pay = "PAID"
    BY DEF OrdersInv, OrdersTypeOK, OrderRows, ConfirmSale, Sellable, Payable
  <2>2. quantity[o][p] > 0 => reservation'[o][p] = "CONFIRMED"
    BY DEF OrdersInv, OrdersTypeOK, ConfirmSale, Sellable, ReservationsValid, Settle
  <2> QED
    BY <1>1, <2>1, <2>2 DEF ConfirmSale
<1>2. CASE other # o
  BY <1>2 DEF OrdersInv, OrdersTypeOK, LinesFollowOrder, ConfirmSale
<1> QED
  BY <1>1, <1>2

\* The two operations that write only a flag of the order.
LEMMA AcceptTermsLines ==
    ASSUME OrdersInv, NEW o \in Orders, NEW now \in ReadInstants, AcceptTerms(o, now)
    PROVE  LinesFollowOrder'
<1>1. ASSUME NEW other \in Orders
      PROVE  /\ orders'[other].status = orders[other].status
             /\ orders'[other].pay = orders[other].pay
             /\ orders'[other].review = orders[other].review
  BY DEF OrdersInv, OrdersTypeOK, OrderRows, AcceptTerms
<1> QED
  BY <1>1 DEF OrdersInv, LinesFollowOrder, AcceptTerms

LEMMA HoldOrderLines ==
    ASSUME OrdersInv, NEW o \in Orders, HoldOrder(o)
    PROVE  LinesFollowOrder'
<1>1. ASSUME NEW other \in Orders
      PROVE  /\ orders'[other].status = orders[other].status
             /\ orders'[other].pay = orders[other].pay
             /\ orders[other].status = "NONE" => orders'[other].review = orders[other].review
  BY DEF OrdersInv, OrdersTypeOK, OrderRows, HoldOrder
<1> QED
  BY <1>1 DEF OrdersInv, LinesFollowOrder, HoldOrder

LEMMA OrdersInitInv == OrdersInit => OrdersInv
BY OrdersInitType DEF OrdersInv, OrdersInit, OrdersAgree, LinesFollowOrder, AbsentOrder

LEMMA OrdersNextInv == OrdersInv /\ [OrdersNext]_orderVars => OrdersInv'
<1> SUFFICES ASSUME OrdersInv, [OrdersNext]_orderVars PROVE LinesFollowOrder'
  BY OrdersNextType, OrdersNextAgree DEF OrdersInv
<1>1. CASE Tick
  BY <1>1 DEF OrdersInv, LinesFollowOrder, Tick
<1>2. ASSUME NEW o \in Orders, NEW basket \in Baskets, NEW now \in ReadInstants,
             CreateOrder(o, basket, now)
      PROVE  LinesFollowOrder'
  BY <1>2, CreateOrderLines
<1>3. ASSUME NEW o \in Orders, CancelOrder(o) PROVE LinesFollowOrder'
  BY <1>3, CancelOrderLines
<1>4. ASSUME NEW o \in Orders, NEW now \in ReadInstants, AcceptTerms(o, now)
      PROVE  LinesFollowOrder'
  BY <1>4, AcceptTermsLines
<1>5. ASSUME NEW o \in Orders, NEW now \in ReadInstants, ConfirmSale(o, now)
      PROVE  LinesFollowOrder'
  BY <1>5, ConfirmSaleLines
<1>6. ASSUME NEW o \in Orders, HoldOrder(o) PROVE LinesFollowOrder'
  BY <1>6, HoldOrderLines
<1>7. ASSUME NEW batch \in SUBSET Orders, ExpireReservations(batch)
      PROVE  LinesFollowOrder'
  BY <1>7, ExpireReservationsLines
<1>8. ASSUME NEW p \in Products, NEW units \in 0..MaxStock, SetStock(p, units)
      PROVE  LinesFollowOrder'
  BY <1>8 DEF OrdersInv, LinesFollowOrder, SetStock
<1>9. CASE UNCHANGED orderVars
  BY <1>9 DEF OrdersInv, LinesFollowOrder, orderVars
<1> QED
  BY <1>1, <1>2, <1>3, <1>4, <1>5, <1>6, <1>7, <1>8, <1>9 DEF OrdersNext

\* A tracked line is CONFIRMED exactly when its order is PAID, and an order that takes
\* payments holds all its lines: no sale, cancellation or expiry is ever half done.
THEOREM GoodsFollowMoney == OrdersSpec => []StockFollowsPayment
<1>1. OrdersInv => StockFollowsPayment
  BY DEF OrdersInv, LinesFollowOrder, StockFollowsPayment, Payable
<1> QED
  BY <1>1, OrdersInitInv, OrdersNextInv, PTL DEF OrdersSpec

-----------------------------------------------------------------------------
(* What a step may never do.                                                   *)

\* The step formula of ClosedForGood, for one order.
StaysClosed(o) ==
    /\ orders[o].status \in {"EXPIRED", "CANCELLED"} => orders'[o].status = orders[o].status
    /\ orders[o].pay = "PAID" => orders'[o].pay = "PAID" /\ orders'[o].status = "OPEN"
    /\ orders[o].review =>
        /\ orders'[o] = orders[o]
        /\ reservation'[o] = reservation[o]

LEMMA StepStaysClosed ==
    ASSUME OrdersInv, [OrdersNext]_orderVars, NEW other \in Orders
    PROVE  StaysClosed(other)
<1> USE DEF OrdersInv, OrdersTypeOK, OrdersAgree, StaysClosed
<1>1. CASE Tick
  BY <1>1 DEF Tick
<1>2. ASSUME NEW o \in Orders, NEW basket \in Baskets, NEW now \in ReadInstants,
             CreateOrder(o, basket, now)
      PROVE  StaysClosed(other)
  BY <1>2 DEF CreateOrder
<1>3. ASSUME NEW o \in Orders, CancelOrder(o) PROVE StaysClosed(other)
  BY <1>3 DEF CancelOrder, Cancellable
<1>4. ASSUME NEW o \in Orders, NEW now \in ReadInstants, AcceptTerms(o, now)
      PROVE  StaysClosed(other)
  BY <1>4 DEF AcceptTerms, Payable, OrderRows
<1>5. ASSUME NEW o \in Orders, NEW now \in ReadInstants, ConfirmSale(o, now)
      PROVE  StaysClosed(other)
  BY <1>5 DEF ConfirmSale, Sellable, Payable, OrderRows
<1>6. ASSUME NEW o \in Orders, HoldOrder(o) PROVE StaysClosed(other)
  BY <1>6 DEF HoldOrder, OrderRows
<1>7. ASSUME NEW batch \in SUBSET Orders, ExpireReservations(batch)
      PROVE  StaysClosed(other)
  BY <1>7 DEF ExpireReservations, Overdue, Payable
<1>8. ASSUME NEW p \in Products, NEW units \in 0..MaxStock, SetStock(p, units)
      PROVE  StaysClosed(other)
  BY <1>8 DEF SetStock
<1>9. CASE UNCHANGED orderVars
  BY <1>9 DEF orderVars
<1> QED
  BY <1>1, <1>2, <1>3, <1>4, <1>5, <1>6, <1>7, <1>8, <1>9 DEF OrdersNext

\* A closed, sold or reviewed order stays what it is, for any number of orders and
\* however the operations interleave.
THEOREM ClosedOrdersStay == OrdersSpec => ClosedForGood
<1>1. OrdersInv /\ [OrdersNext]_orderVars => [\A o \in Orders : StaysClosed(o)]_orderVars
  BY StepStaysClosed
<1> QED
  BY <1>1, OrdersInitInv, OrdersNextInv, PTL DEF OrdersSpec, ClosedForGood, StaysClosed

-----------------------------------------------------------------------------
(* Counting the units of the stock.                                           *)

(* The units of one line of an order. *)
Line(o, n) == {o} \X (1..n)

AllUnits == Orders \X (1..MaxQuantity)

LEMMA UnitsFinite == \A S \in SUBSET AllUnits : IsFiniteSet(S) /\ Cardinality(S) \in Nat
<1>1. IsFiniteSet(1..MaxQuantity)
  BY FS_Interval, SizesAssumption
<1>2. IsFiniteSet(AllUnits)
  BY <1>1, FiniteAssumption, FS_Product DEF AllUnits
<1>3. \A S \in SUBSET AllUnits : IsFiniteSet(S)
  BY <1>2, FS_Subset
<1> QED
  BY <1>3, FS_CardinalityType

LEMMA LineCounts ==
    ASSUME NEW o \in Orders, NEW n \in 0..MaxQuantity
    PROVE  Line(o, n) \in SUBSET AllUnits /\ Cardinality(Line(o, n)) = n
<1>1. n \in Int /\ n >= 0 /\ n <= MaxQuantity /\ MaxQuantity \in Int
  BY SizesAssumption
<1>2. Line(o, n) \in SUBSET AllUnits
  BY <1>1 DEF Line, AllUnits
<1>3. IsFiniteSet(1..n) /\ Cardinality(1..n) = n
  BY <1>1, FS_Interval
<1>4. IsFiniteSet({o}) /\ Cardinality({o}) = 1
  BY FS_Singleton
<1>5. Cardinality(Line(o, n)) = 1 * n
  BY <1>3, <1>4, FS_Product DEF Line
<1> QED
  BY <1>1, <1>2, <1>5

LEMMA LineIs ==
    ASSUME NEW o \in Orders, NEW n \in 0..MaxQuantity
    PROVE  Line(o, n) = {u \in AllUnits : u[1] = o /\ u[2] <= n}
<1>1. n \in Int /\ n <= MaxQuantity /\ MaxQuantity \in Int
  BY SizesAssumption
<1>2. \A i : i \in 1..n <=> i \in 1..MaxQuantity /\ i <= n
  BY <1>1
<1>3. ASSUME NEW u \in AllUnits, u[1] = o, u[2] <= n
      PROVE  u \in Line(o, n)
  <2>1. PICK x \in Orders, i \in 1..MaxQuantity : u = <<x, i>>
    BY DEF AllUnits
  <2>2. x = o /\ i \in 1..n
    BY <1>2, <1>3, <2>1
  <2> QED
    BY <2>1, <2>2 DEF Line
<1>4. ASSUME NEW u \in Line(o, n)
      PROVE  u \in AllUnits /\ u[1] = o /\ u[2] <= n
  <2>1. PICK i \in 1..n : u = <<o, i>>
    BY DEF Line
  <2> QED
    BY <1>2, <2>1 DEF AllUnits
<1> QED
  BY <1>3, <1>4

LEMMA DisjointCounts ==
    ASSUME NEW S \in SUBSET AllUnits, NEW T \in SUBSET AllUnits, S \cap T = {}
    PROVE  Cardinality(S \cup T) = Cardinality(S) + Cardinality(T)
<1>1. Cardinality(S \cup T) = Cardinality(S) + Cardinality(T) - Cardinality(S \cap T)
  BY UnitsFinite, FS_Union
<1>2. Cardinality(S \cap T) = 0
  BY FS_EmptySet
<1> QED
  BY <1>1, <1>2, UnitsFinite

LEMMA FewerCount ==
    ASSUME NEW T \in SUBSET AllUnits, NEW S \in SUBSET T
    PROVE  Cardinality(S) <= Cardinality(T)
BY UnitsFinite, FS_Subset

LEMMA UnitsAre == \A p \in Products : UnitsOf(p) \in SUBSET AllUnits
BY DEF UnitsOf, AllUnits

-----------------------------------------------------------------------------
(* The ledger.                                                                *)

LEMMA LedgerStep == OrdersInv /\ StockLedger /\ [OrdersNext]_orderVars => StockLedger'
<1> SUFFICES ASSUME OrdersInv, StockLedger, [OrdersNext]_orderVars, NEW p \in Products
             PROVE  stock'[p] + Cardinality(ConfirmedUnits(p)') = supplied'[p]
  BY DEF StockLedger
<1> USE DEF OrdersInv
<1>0. /\ stock[p] + Cardinality(ConfirmedUnits(p)) = supplied[p]
      /\ stock[p] \in Nat /\ supplied[p] \in Int
      /\ ConfirmedUnits(p) \in SUBSET AllUnits /\ Cardinality(ConfirmedUnits(p)) \in Nat
  BY UnitsAre, UnitsFinite DEF StockLedger, OrdersTypeOK, ConfirmedUnits
<1>1. ASSUME UNCHANGED <<quantity, reservation>> PROVE ConfirmedUnits(p)' = ConfirmedUnits(p)
  BY <1>1 DEF ConfirmedUnits, UnitsOf
<1>2. CASE Tick \/ UNCHANGED orderVars
  BY <1>0, <1>1, <1>2 DEF Tick, orderVars
<1>3. ASSUME NEW o \in Orders, HoldOrder(o) \/ \E now \in ReadInstants : AcceptTerms(o, now)
      PROVE  stock'[p] + Cardinality(ConfirmedUnits(p)') = supplied'[p]
  BY <1>0, <1>1, <1>3 DEF HoldOrder, AcceptTerms
<1>4. ASSUME NEW q \in Products, NEW units \in 0..MaxStock, SetStock(q, units)
      PROVE  stock'[p] + Cardinality(ConfirmedUnits(p)') = supplied'[p]
  <2>1. units \in Int
    BY SizesAssumption
  <2>2. ConfirmedUnits(p)' = ConfirmedUnits(p)
    BY <1>1, <1>4 DEF SetStock
  <2>3. CASE q = p
    <3>1. stock'[p] = units /\ supplied'[p] = supplied[p] + units - stock[p]
      BY <1>4, <2>3 DEF SetStock, OrdersTypeOK
    <3> QED
      BY <1>0, <2>1, <2>2, <3>1
  <2>4. CASE q # p
    BY <1>0, <1>4, <2>2, <2>4 DEF SetStock, OrdersTypeOK
  <2> QED
    BY <2>3, <2>4
(* Nothing is sold: a line is CONFIRMED after the step exactly when it was before. *)
<1>5. ASSUME UNCHANGED <<stock, supplied>>,
             \A o \in Orders :
                \/ quantity'[o][p] = quantity[o][p] /\ (reservation'[o][p] = "CONFIRMED" <=> reservation[o][p] = "CONFIRMED")
                \/ reservation'[o][p] # "CONFIRMED" /\ reservation[o][p] # "CONFIRMED"
      PROVE  stock'[p] + Cardinality(ConfirmedUnits(p)') = supplied'[p]
  <2>1. ConfirmedUnits(p)' = ConfirmedUnits(p)
    BY <1>5 DEF ConfirmedUnits, UnitsOf
  <2> QED
    BY <1>0, <1>5, <2>1
<1>6. ASSUME NEW o \in Orders, NEW basket \in Baskets, NEW now \in ReadInstants, CreateOrder(o, basket, now)
      PROVE  stock'[p] + Cardinality(ConfirmedUnits(p)') = supplied'[p]
  <2>1. reservation[o][p] # "CONFIRMED"
    BY <1>6 DEF CreateOrder, LinesFollowOrder
  <2>2. reservation'[o][p] # "CONFIRMED"
    BY <1>6 DEF CreateOrder, OrdersTypeOK
  <2>3. \A x \in Orders \ {o} : quantity'[x] = quantity[x] /\ reservation'[x] = reservation[x]
    BY <1>6 DEF CreateOrder, OrdersTypeOK
  <2> QED
    BY <1>5, <1>6, <2>1, <2>2, <2>3 DEF CreateOrder
<1>7. ASSUME NEW o \in Orders, CancelOrder(o)
      PROVE  stock'[p] + Cardinality(ConfirmedUnits(p)') = supplied'[p]
  <2>1. reservation[o][p] # "CONFIRMED" /\ reservation'[o][p] # "CONFIRMED"
    BY <1>7 DEF CancelOrder, Cancellable, OrdersTypeOK, Settle
  <2>2. \A x \in Orders \ {o} : reservation'[x] = reservation[x]
    BY <1>7 DEF CancelOrder, OrdersTypeOK
  <2> QED
    BY <1>5, <1>7, <2>1, <2>2 DEF CancelOrder
<1>8. ASSUME NEW batch \in SUBSET Orders, ExpireReservations(batch)
      PROVE  stock'[p] + Cardinality(ConfirmedUnits(p)') = supplied'[p]
  <2>1. \A x \in Orders : reservation'[x][p] = "CONFIRMED" <=> reservation[x][p] = "CONFIRMED"
    BY <1>8 DEF ExpireReservations, Settle
  <2> QED
    BY <1>5, <1>8, <2>1 DEF ExpireReservations
<1>9. ASSUME NEW o \in Orders, NEW now \in ReadInstants, ConfirmSale(o, now)
      PROVE  stock'[p] + Cardinality(ConfirmedUnits(p)') = supplied'[p]
  <2> DEFINE n == quantity[o][p]
  <2>1. n \in 0..MaxQuantity
    BY DEF OrdersTypeOK, Baskets
  <2>2. n > 0 => reservation[o][p] = "ACTIVE"
    BY <1>9 DEF ConfirmSale, Sellable, ReservationsValid
  <2>3. n > 0 => reservation'[o][p] = "CONFIRMED"
    BY <1>9, <2>2 DEF ConfirmSale, OrdersTypeOK, Settle
  <2>4. \A x \in Orders \ {o} : reservation'[x] = reservation[x]
    BY <1>9 DEF ConfirmSale, OrdersTypeOK
  <2>5. Line(o, n) = {u \in AllUnits : u[1] = o /\ u[2] <= n}
    BY <2>1, LineIs
  <2>6. ConfirmedUnits(p)' = ConfirmedUnits(p) \cup Line(o, n)
    <3>1. \A u \in AllUnits :
            /\ u \in ConfirmedUnits(p)' <=> u[2] <= quantity[u[1]][p] /\ reservation'[u[1]][p] = "CONFIRMED"
            /\ u \in ConfirmedUnits(p) <=> u[2] <= quantity[u[1]][p] /\ reservation[u[1]][p] = "CONFIRMED"
            /\ u[1] \in Orders /\ u[2] \in Int /\ u[2] >= 1
      BY <1>9 DEF ConfirmedUnits, UnitsOf, AllUnits, ConfirmSale
    <3>2. \A u \in AllUnits : u \in ConfirmedUnits(p)' <=> u \in ConfirmedUnits(p) \cup Line(o, n)
      <4> TAKE u \in AllUnits
      <4>1. CASE u[1] = o
        <5>1. u[2] <= n => n > 0
          BY <3>1, <2>1, SizesAssumption
        <5> QED
          BY <3>1, <4>1, <5>1, <2>2, <2>3, <2>5
      <4>2. CASE u[1] # o
        BY <3>1, <4>2, <2>4, <2>5
      <4> QED
        BY <4>1, <4>2
    <3>3. ConfirmedUnits(p)' \subseteq AllUnits /\ Line(o, n) \subseteq AllUnits
      BY <2>5 DEF ConfirmedUnits, UnitsOf, AllUnits
    <3> QED
      BY <1>0, <3>2, <3>3
  <2>7. ConfirmedUnits(p) \cap Line(o, n) = {}
    <3>1. \A u \in AllUnits : u \in ConfirmedUnits(p) /\ u[1] = o => n > 0
      BY <2>1, SizesAssumption DEF ConfirmedUnits, UnitsOf, AllUnits
    <3> QED
      BY <3>1, <2>2, <2>5 DEF ConfirmedUnits
  <2>8. Cardinality(ConfirmedUnits(p)') = Cardinality(ConfirmedUnits(p)) + n
    BY <1>0, <2>1, <2>6, <2>7, LineCounts, DisjointCounts
  <2>9. stock'[p] = stock[p] - n /\ supplied'[p] = supplied[p]
    BY <1>9 DEF ConfirmSale, ShelfAfterSale
  <2> HIDE DEF n
  <2> QED
    BY <1>0, <2>1, <2>8, <2>9, SizesAssumption
<1> QED
  BY <1>2, <1>3, <1>4, <1>6, <1>7, <1>8, <1>9 DEF OrdersNext

(* Every unit is accounted for, however many orders are sold, cancelled and expire      *)
(* between an administrator's edits (confirmStock, adjustAdminProductStock).            *)
THEOREM LedgerExact == OrdersSpec => []StockLedger
<1>1. OrdersInit => StockLedger
  <2> SUFFICES ASSUME OrdersInit, NEW p \in Products PROVE ConfirmedUnits(p) = {}
    BY FS_EmptySet, SizesAssumption DEF StockLedger, OrdersInit
  <2> QED
    BY DEF OrdersInit, ConfirmedUnits, UnitsOf
<1> QED
  BY <1>1, OrdersInitInv, OrdersNextInv, LedgerStep, PTL DEF OrdersSpec

-----------------------------------------------------------------------------
(* What is promised to live reservations, with clock readings of any age.       *)

Live(p) == ReservedUnits(p, clock)

PromiseKept(p) ==
    \/ Uncovered(p)' <= 0
    \/ Uncovered(p)' <= Uncovered(p)
    \/ \E o \in Orders : SoldLate(o) /\ Uncovered(p)' <= Uncovered(p) + quantity[o][p]

LEMMA LiveIs ==
    ASSUME OrdersInv, NEW p \in Products
    PROVE  /\ Live(p) \in SUBSET AllUnits /\ Cardinality(Live(p)) \in Nat /\ stock[p] \in Nat
           /\ Uncovered(p) = Cardinality(Live(p)) - stock[p]
           /\ \A u \in AllUnits :
                u \in Live(p) <=> u[2] <= quantity[u[1]][p] /\ Reserves(u[1], p, clock)
<1>1. Live(p) \in SUBSET AllUnits /\ Cardinality(Live(p)) \in Nat
      /\ \A u \in AllUnits : u \in Live(p) <=> u[2] <= quantity[u[1]][p] /\ Reserves(u[1], p, clock)
  BY UnitsAre, UnitsFinite DEF Live, ReservedUnits, UnitsOf, AllUnits
<1> QED
  BY <1>1 DEF Uncovered, ReservedQuantity, Live, OrdersInv, OrdersTypeOK

LEMMA UncoveredNext ==
    ASSUME NEW p \in Products
    PROVE  Uncovered(p)' = Cardinality(Live(p)') - stock'[p]
BY DEF Uncovered, ReservedQuantity, Live

(* No line joins the live reservations, and the shelf keeps its stock. *)
LEMMA FewerLive ==
    ASSUME OrdersInv, NEW p \in Products, stock'[p] = stock[p],
           \A o \in Orders : Reserves(o, p, clock)' =>
                Reserves(o, p, clock) /\ quantity'[o][p] = quantity[o][p]
    PROVE  PromiseKept(p)
<1>1. Live(p)' \in SUBSET Live(p)
  BY DEF Live, ReservedUnits, UnitsOf
<1>2. Cardinality(Live(p)') <= Cardinality(Live(p)) /\ Cardinality(Live(p)') \in Nat
  BY <1>1, LiveIs, FewerCount, UnitsFinite
<1>3. Uncovered(p)' <= Uncovered(p)
  BY <1>2, LiveIs, UncoveredNext
<1> QED
  BY <1>3 DEF PromiseKept

(* A reservation that lives now lived at every earlier reading. *)
LEMMA OlderReadingsReserveMore ==
    ASSUME OrdersInv, NEW p \in Products, NEW now \in ReadInstants
    PROVE  ReservedQuantity(p, now) \in Nat /\ Cardinality(Live(p)) <= ReservedQuantity(p, now)
<1>1. now \in Int /\ clock \in Int /\ now <= clock
  BY TimeAssumption DEF ReadInstants, OrdersInv, OrdersTypeOK
<1>2. \A o \in Orders : orders[o].deadline \in Int
  BY TimeAssumption DEF OrdersInv, OrdersTypeOK, OrderRows
<1>3. \A o \in Orders : Reserves(o, p, clock) => Reserves(o, p, now)
  BY <1>1, <1>2 DEF Reserves
<1>4. Live(p) \in SUBSET ReservedUnits(p, now)
  BY <1>3 DEF Live, ReservedUnits, UnitsOf
<1>5. ReservedUnits(p, now) \in SUBSET AllUnits
  BY DEF ReservedUnits, UnitsOf, AllUnits
<1> QED
  BY <1>4, <1>5, FewerCount, UnitsFinite DEF ReservedQuantity

LEMMA CreateOrderKeeps ==
    ASSUME OrdersInv, NEW p \in Products, NEW o \in Orders, NEW basket \in Baskets,
           NEW now \in ReadInstants, CreateOrder(o, basket, now)
    PROVE  PromiseKept(p)
<1> DEFINE n == basket[p]
<1>1. n \in 0..MaxQuantity /\ n \in Int /\ n >= 0
  BY SizesAssumption DEF Baskets
<1>2. stock'[p] = stock[p] /\ stock[p] \in Nat /\ clock' = clock
  BY DEF CreateOrder, OrdersInv, OrdersTypeOK
<1>3. Live(p) \in SUBSET AllUnits /\ Cardinality(Live(p)) \in Nat
  BY LiveIs
<1>4. /\ quantity'[o][p] = n
      /\ reservation'[o][p] = IF n > 0 THEN "ACTIVE" ELSE "NONE"
      /\ \A x \in Orders \ {o} :
            quantity'[x] = quantity[x] /\ reservation'[x] = reservation[x] /\ orders'[x] = orders[x]
  BY DEF CreateOrder, OrdersInv, OrdersTypeOK
<1>5. CASE ~(n > 0)
  <2>1. \A x \in Orders : Reserves(x, p, clock)' => x # o
    BY <1>4, <1>5 DEF Reserves
  <2>2. \A x \in Orders : Reserves(x, p, clock)' => Reserves(x, p, clock) /\ quantity'[x][p] = quantity[x][p]
    BY <1>2, <1>4, <2>1 DEF Reserves
  <2> QED
    BY <1>2, <2>2, FewerLive
<1>6. CASE n > 0
  <2>1. n + Cardinality(Live(p)) <= stock[p]
    <3>1. n <= Available(p, now)
      BY DEF CreateOrder
    <3>2. ReservedQuantity(p, now) \in Nat /\ Cardinality(Live(p)) <= ReservedQuantity(p, now)
      BY OlderReadingsReserveMore
    <3>3. n + ReservedQuantity(p, now) <= stock[p]
      BY <1>1, <1>2, <1>6, <3>1, <3>2 DEF Available
    <3> QED
      BY <1>1, <1>2, <1>3, <3>2, <3>3
  <2>2. Live(p)' \in SUBSET (Live(p) \cup Line(o, n))
    <3>1. \A u \in Live(p)' : u \in AllUnits /\ u[2] <= quantity'[u[1]][p] /\ Reserves(u[1], p, clock)'
      BY DEF Live, ReservedUnits, UnitsOf, AllUnits
    <3>2. ASSUME NEW u \in Live(p)', u[1] = o PROVE u \in Line(o, n)
      BY <1>1, <1>4, <3>1, <3>2, LineIs
    <3>3. ASSUME NEW u \in Live(p)', u[1] # o PROVE u \in Live(p)
      <4>1. u[1] \in Orders
        BY <3>1 DEF AllUnits
      <4> QED
        BY <1>2, <1>4, <3>1, <3>3, <4>1, LiveIs DEF Reserves
    <3> QED
      BY <3>2, <3>3
  <2>3. Live(p) \cap Line(o, n) = {}
    <3>1. reservation[o][p] = "NONE"
      BY DEF CreateOrder, OrdersInv, LinesFollowOrder
    <3> QED
      BY <1>1, <3>1, LineIs DEF Live, ReservedUnits, Reserves
  <2>4. /\ Line(o, n) \in SUBSET AllUnits
        /\ Cardinality(Live(p) \cup Line(o, n)) = Cardinality(Live(p)) + n
    BY <1>1, <1>3, <2>3, LineCounts, DisjointCounts
  <2>5. Cardinality(Live(p)') <= Cardinality(Live(p)) + n /\ Cardinality(Live(p)') \in Nat
    BY <1>3, <2>2, <2>4, FewerCount, UnitsFinite
  <2>6. Uncovered(p)' = Cardinality(Live(p)') - stock'[p]
    BY UncoveredNext
  <2> HIDE DEF n
  <2>7. Uncovered(p)' <= 0
    BY <1>1, <1>2, <1>3, <2>1, <2>5, <2>6
  <2> QED
    BY <2>7 DEF PromiseKept
<1> QED
  BY <1>5, <1>6

(* On time a sale takes its units from the shelf and from the live reservations; late   *)
(* it takes them from the shelf only.                                                   *)
LEMMA ConfirmSaleKeeps ==
    ASSUME OrdersInv, NEW p \in Products, NEW o \in Orders, NEW now \in ReadInstants,
           ConfirmSale(o, now)
    PROVE  PromiseKept(p)
<1> DEFINE n == quantity[o][p]
<1>1. n \in 0..MaxQuantity /\ n \in Int /\ n >= 0
  BY SizesAssumption DEF OrdersInv, OrdersTypeOK, Baskets
<1>2. stock'[p] = stock[p] - n /\ stock[p] \in Nat /\ UNCHANGED <<clock, quantity>>
  BY DEF ConfirmSale, ShelfAfterSale, OrdersInv, OrdersTypeOK
<1>3. Live(p) \in SUBSET AllUnits /\ Cardinality(Live(p)) \in Nat
      /\ Uncovered(p) = Cardinality(Live(p)) - stock[p]
  BY LiveIs
<1>4. Live(p)' \in SUBSET Live(p) /\ Live(p)' \cap Line(o, n) = {}
  <2>1. \A x \in Orders \ {o} : reservation'[x] = reservation[x] /\ orders'[x] = orders[x]
    BY DEF ConfirmSale, OrdersInv, OrdersTypeOK
  <2>2. ~Reserves(o, p, clock)'
    BY DEF ConfirmSale, OrdersInv, OrdersTypeOK, Settle, Reserves
  <2>3. \A x \in Orders : Reserves(x, p, clock)' => x # o /\ Reserves(x, p, clock)
    BY <1>2, <2>1, <2>2 DEF Reserves
  <2> QED
    BY <1>1, <1>2, <2>3, LineIs DEF Live, ReservedUnits, UnitsOf
<1>5. Cardinality(Live(p)') <= Cardinality(Live(p)) /\ Cardinality(Live(p)') \in Nat
  BY <1>3, <1>4, FewerCount, UnitsFinite
<1>6. Uncovered(p)' = Cardinality(Live(p)') - stock'[p]
  BY UncoveredNext
<1>7. CASE orders[o].deadline > clock
  <2>1. Line(o, n) \in SUBSET Live(p)
    <3>1. n > 0 => Reserves(o, p, clock)
      BY <1>7 DEF ConfirmSale, Sellable, ReservationsValid, Reserves
    <3>2. \A u \in Line(o, n) : u \in AllUnits /\ u[1] = o /\ u[2] <= n /\ u[2] \in Int /\ u[2] >= 1
      BY <1>1, LineIs, SizesAssumption DEF AllUnits
    <3>3. \A u \in Line(o, n) : n > 0
      BY <1>1, <3>2
    <3> QED
      BY <3>1, <3>2, <3>3, LiveIs
  <2>2. Cardinality(Live(p)' \cup Line(o, n)) = Cardinality(Live(p)') + n
    BY <1>1, <1>3, <1>4, LineCounts, DisjointCounts
  <2>3. Cardinality(Live(p)' \cup Line(o, n)) <= Cardinality(Live(p))
    BY <1>3, <1>4, <2>1, FewerCount
  <2> HIDE DEF n
  <2>4. Uncovered(p)' <= Uncovered(p)
    BY <1>1, <1>2, <1>3, <1>5, <1>6, <2>2, <2>3
  <2> QED
    BY <2>4 DEF PromiseKept
<1>8. CASE ~(orders[o].deadline > clock)
  <2>1. orders[o].deadline \in Int /\ clock \in Int
    BY TimeAssumption DEF OrdersInv, OrdersTypeOK, OrderRows
  <2>2. SoldLate(o)
    BY <1>8, <2>1 DEF SoldLate, ConfirmSale, Sellable, Payable, OrdersInv, OrdersTypeOK, OrderRows
  <2> HIDE DEF n
  <2>3. Uncovered(p)' <= Uncovered(p) + n
    BY <1>1, <1>2, <1>3, <1>5, <1>6
  <2> QED
    BY <2>2, <2>3 DEF PromiseKept, n
<1> QED
  BY <1>7, <1>8

LEMMA PromisesStep ==
    ASSUME OrdersInv, [OrdersNext]_orderVars, NEW p \in Products
    PROVE  PromiseKept(p)
<1> USE DEF OrdersInv
<1>1. CASE Tick \/ UNCHANGED orderVars
  BY <1>1, FewerLive, TimeAssumption DEF Tick, orderVars, Reserves, OrdersTypeOK, OrderRows
<1>2. ASSUME NEW o \in Orders, NEW basket \in Baskets, NEW now \in ReadInstants, CreateOrder(o, basket, now)
      PROVE  PromiseKept(p)
  BY <1>2, CreateOrderKeeps
<1>3. ASSUME NEW o \in Orders, CancelOrder(o)
      PROVE  PromiseKept(p)
  <2>1. \A x \in Orders : reservation'[x][p] = "ACTIVE" => reservation[x][p] = "ACTIVE" /\ x # o
    BY <1>3 DEF CancelOrder, Settle, OrdersTypeOK
  <2>2. \A x \in Orders \ {o} : orders'[x] = orders[x]
    BY <1>3 DEF CancelOrder, OrdersTypeOK
  <2> QED
    BY <1>3, <2>1, <2>2, FewerLive DEF CancelOrder, Reserves
<1>4. ASSUME NEW batch \in SUBSET Orders, ExpireReservations(batch)
      PROVE  PromiseKept(p)
  <2>1. \A x \in Orders : reservation'[x][p] = "ACTIVE" => reservation[x][p] = "ACTIVE" /\ x \notin batch
    BY <1>4 DEF ExpireReservations, Settle
  <2>2. \A x \in Orders \ batch : orders'[x] = orders[x]
    BY <1>4 DEF ExpireReservations
  <2> QED
    BY <1>4, <2>1, <2>2, FewerLive DEF ExpireReservations, Reserves
<1>5. ASSUME NEW o \in Orders, HoldOrder(o) \/ \E now \in ReadInstants : AcceptTerms(o, now)
      PROVE  PromiseKept(p)
  <2>1. ASSUME NEW x \in Orders PROVE orders'[x].deadline = orders[x].deadline
    <3>1. CASE x = o
      BY <1>5, <3>1 DEF HoldOrder, AcceptTerms, OrdersTypeOK, OrderRows
    <3>2. CASE x # o
      BY <1>5, <3>2 DEF HoldOrder, AcceptTerms, OrdersTypeOK
    <3> QED
      BY <3>1, <3>2
  <2> QED
    BY <1>5, <2>1, FewerLive DEF HoldOrder, AcceptTerms, Reserves
<1>6. ASSUME NEW o \in Orders, NEW now \in ReadInstants, ConfirmSale(o, now)
      PROVE  PromiseKept(p)
  BY <1>6, ConfirmSaleKeeps
<1>7. ASSUME NEW q \in Products, NEW units \in 0..MaxStock, SetStock(q, units)
      PROVE  PromiseKept(p)
  <2>1. CASE q = p
    <3>1. Live(p)' = Live(p)
      BY <1>7 DEF SetStock, Live, ReservedUnits, UnitsOf, Reserves
    <3>2. stock'[p] = units /\ units \in Int /\ units >= Cardinality(Live(p))
      BY <1>7, <2>1, SizesAssumption DEF SetStock, CoversReservations, ReservedQuantity, Live, OrdersTypeOK
    <3>3. Uncovered(p)' <= 0
      BY <3>1, <3>2, LiveIs, UncoveredNext
    <3> QED
      BY <3>3 DEF PromiseKept
  <2>2. CASE q # p
    <3>1. stock'[p] = stock[p]
      BY <1>7, <2>2 DEF SetStock, OrdersTypeOK
    <3> QED
      BY <1>7, <3>1, FewerLive DEF SetStock, Reserves
  <2> QED
    BY <2>1, <2>2
<1> QED
  BY <1>1, <1>2, <1>3, <1>4, <1>5, <1>6, <1>7 DEF OrdersNext

(* No basket is promised twice, and no edit, expiry or sale takes promised goods away,  *)
(* whatever the age of the clock readings (createShopOrder, adjustAdminProductStock).   *)
(* The one exception is a sale after its deadline (the run late_sale), which can leave  *)
(* no more units uncovered than it sells.                                               *)
THEOREM ReservationsHold == OrdersSpec => PromisesKept
<1>1. OrdersInv /\ [OrdersNext]_orderVars => [\A p \in Products : PromiseKept(p)]_orderVars
  BY PromisesStep
<1> QED
  BY <1>1, OrdersInitInv, OrdersNextInv, PTL DEF OrdersSpec, PromisesKept, PromiseKept
=============================================================================

----------------------------- MODULE ShopOrders -----------------------------
(***************************************************************************)
(* Shop orders, stock reservations and product stock: the part of          *)
(* src/lib/shop that sells goods.  Every operation of this module is one    *)
(* READ COMMITTED transaction which serialises on an order row or on the    *)
(* product advisory locks, hence one atomic action.                         *)
(*                                                                          *)
(* An order is one creation token of one member (createShopOrder is         *)
(* idempotent on it), so an element of Orders is created at most once.      *)
(* Products are the products whose stock is tracked; a basket that holds    *)
(* only untracked products has quantity 0 everywhere.                       *)
(*                                                                          *)
(* The payment side reaches this state through AcceptTerms, ConfirmSale and *)
(* HoldOrder only.  OrdersSpec leaves their timing open, so it is also the  *)
(* specification that ShopPayments implements.                              *)
(***************************************************************************)
EXTENDS Integers, FiniteSets

CONSTANTS
    Products,      \* tracked products
    Orders,        \* creation tokens, each the identity of at most one order
    InitialStock,  \* units of every product at the start
    MaxStock,      \* bound: largest stock an administrator enters
    MaxQuantity,   \* bound: largest quantity of a basket line
    Ttl,           \* SHOP_RESERVATION_TTL_MINUTES, in ticks
    MaxTime,       \* bound: last tick of the clock
    LockWait       \* ticks a transaction may wait for its locks before it times out

ASSUME SizesAssumption ==
    /\ MaxStock \in Nat
    /\ InitialStock \in 0..MaxStock
    /\ MaxQuantity \in Nat \ {0}

ASSUME TimeAssumption ==
    /\ Ttl \in Nat \ {0}
    /\ MaxTime \in Nat
    /\ LockWait \in Nat

ASSUME FiniteAssumption == IsFiniteSet(Orders)

VARIABLES
    clock,        \* wall clock of the database and of the servers
    stock,        \* product.stock
    supplied,     \* initial stock plus every administrator's ProductStockAdjustment
    orders,       \* shop_orders: status, payment status, review flag, deadline, terms
    quantity,     \* shop_order_items: quantity of each tracked product
    reservation   \* stock_reservations: one per order and tracked product

orderVars == <<clock, stock, supplied, orders, quantity, reservation>>

-----------------------------------------------------------------------------
OrderStatuses == {"NONE", "OPEN", "EXPIRED", "CANCELLED"}
PaymentStatuses == {"AWAITING_PAYMENT", "PAID", "CANCELLED"}
ReservationStatuses == {"NONE", "ACTIVE", "CONFIRMED", "RELEASED", "EXPIRED"}

OrderRows ==
    [status : OrderStatuses, pay : PaymentStatuses, review : BOOLEAN,
     deadline : 0..(MaxTime + Ttl), terms : BOOLEAN]

AbsentOrder ==
    [status |-> "NONE", pay |-> "AWAITING_PAYMENT", review |-> FALSE,
     deadline |-> 0, terms |-> FALSE]

Baskets == [Products -> 0..MaxQuantity]

OrdersTypeOK ==
    /\ clock \in 0..MaxTime
    /\ stock \in [Products -> Nat]
    /\ supplied \in [Products -> Int]
    /\ orders \in [Orders -> OrderRows]
    /\ quantity \in [Orders -> Baskets]
    /\ reservation \in [Orders -> [Products -> ReservationStatuses]]

OrdersInit ==
    /\ clock = 0
    /\ stock = [p \in Products |-> InitialStock]
    /\ supplied = [p \in Products |-> InitialStock]
    /\ orders = [o \in Orders |-> AbsentOrder]
    /\ quantity = [o \in Orders |-> [p \in Products |-> 0]]
    /\ reservation = [o \in Orders |-> [p \in Products |-> "NONE"]]

-----------------------------------------------------------------------------
(* Queries of the code. *)

\* activeReservedQuantity: reservations that are ACTIVE and not yet expired.
Reserves(o, p, now) == reservation[o][p] = "ACTIVE" /\ orders[o].deadline > now

\* A unit is a pair (order, index), so that a sum of quantities is a cardinality.
UnitsOf(p) == {u \in Orders \X (1..MaxQuantity) : u[2] <= quantity[u[1]][p]}

ReservedUnits(p, now) == {u \in UnitsOf(p) : Reserves(u[1], p, now)}

ReservedQuantity(p, now) == Cardinality(ReservedUnits(p, now))

\* Mutant of Available: the live reservations are forgotten.
ShelfStock(p, now) == stock[p]

\* getAvailableProductQuantity, never negative.
Available(p, now) ==
    IF stock[p] > ReservedQuantity(p, now) THEN stock[p] - ReservedQuantity(p, now) ELSE 0

\* Mutant of Payable: the review flag is forgotten.
OpenUnpaid(o) == orders[o].status = "OPEN" /\ orders[o].pay = "AWAITING_PAYMENT"

\* The order takes payments: OPEN, AWAITING_PAYMENT and not under review.
Payable(o) ==
    orders[o].status = "OPEN" /\ orders[o].pay = "AWAITING_PAYMENT" /\ ~orders[o].review

\* activeReservationsValid(order, now).
ReservationsValid(o, now) ==
    /\ orders[o].deadline > now
    /\ \A p \in Products : quantity[o][p] > 0 => reservation[o][p] = "ACTIVE"

\* stockCanBeConfirmed: every line is still on the shelf.
StockSuffices(o) == \A p \in Products : quantity[o][p] <= stock[p]

\* The code reads "now" when a request arrives and uses it after waiting for its
\* locks: the instants that a transaction running at this moment may have read.
ReadInstants == {now \in 0..clock : now + LockWait >= clock}

\* Mutant of Overdue: orders without a tracked line are not selected.
OverdueReserved(o) ==
    /\ Payable(o) /\ orders[o].deadline <= clock
    /\ \E p \in Products : reservation[o][p] = "ACTIVE"

\* The rows both expiry jobs select.
Overdue(o) == Payable(o) /\ orders[o].deadline <= clock

-----------------------------------------------------------------------------
(* The reservations of order o in state "ACTIVE" move to another state. *)
Settle(o, outcome) ==
    [p \in Products |-> IF reservation[o][p] = "ACTIVE" THEN outcome ELSE reservation[o][p]]

Tick ==
    /\ clock < MaxTime
    /\ clock' = clock + 1
    /\ UNCHANGED <<stock, supplied, orders, quantity, reservation>>

\* createShopOrder: the order, its lines and one ACTIVE reservation per tracked
\* line.  A second call with the same token finds the order and changes nothing.
CreateOrder(o, basket, now) ==
    /\ orders[o].status = "NONE"
    /\ \A p \in Products : basket[p] <= Available(p, now)
    /\ orders' = [orders EXCEPT ![o] =
                    [AbsentOrder EXCEPT !.status = "OPEN", !.deadline = now + Ttl]]
    /\ quantity' = [quantity EXCEPT ![o] = basket]
    /\ reservation' = [reservation EXCEPT ![o] =
                        [p \in Products |-> IF basket[p] > 0 THEN "ACTIVE" ELSE "NONE"]]
    /\ UNCHANGED <<clock, stock, supplied>>

\* Mutant of Cancellable: a sale that committed first is not seen.
CancellableIfOpen(o) == orders[o].status = "OPEN" /\ ~orders[o].review

\* The refusals of releaseShopOrderReservation.  The code also accepts an order that
\* is already closed; such a call finds no ACTIVE reservation and changes nothing.
Cancellable(o) ==
    /\ orders[o].status = "OPEN"
    /\ ~orders[o].review
    /\ orders[o].pay # "PAID"
    /\ \A p \in Products : reservation[o][p] # "CONFIRMED"

\* cancelMemberShopOrder -> releaseShopOrderReservation.
CancelOrder(o) ==
    /\ Cancellable(o)
    /\ orders' = [orders EXCEPT ![o].status = "CANCELLED", ![o].pay = "CANCELLED"]
    /\ reservation' = [reservation EXCEPT ![o] = Settle(o, "RELEASED")]
    /\ UNCHANGED <<clock, stock, supplied, quantity>>

\* expireShopOrderReservations and the readiness job's expireReservations: one
\* transaction closes any batch of overdue orders (SKIP LOCKED passes over some).
ExpireReservations(batch) ==
    /\ batch # {}
    /\ \A o \in batch : Overdue(o)
    /\ orders' = [o \in Orders |->
                    IF o \in batch THEN [orders[o] EXCEPT !.status = "EXPIRED"] ELSE orders[o]]
    /\ reservation' = [o \in Orders |->
                        IF o \in batch THEN Settle(o, "EXPIRED") ELSE reservation[o]]
    /\ UNCHANGED <<clock, stock, supplied, quantity>>

\* The guard of every stock edit: never below the live reservations.
CoversReservations(p, units) == units >= ReservedQuantity(p, clock)

\* adjustAdminProductStock, and updateAdminProduct when it changes the quantity: the new
\* stock is recorded as a ProductStockAdjustment.
SetStock(p, units) ==
    /\ units # stock[p]
    /\ CoversReservations(p, units)
    /\ stock' = [stock EXCEPT ![p] = units]
    /\ supplied' = [supplied EXCEPT ![p] = @ + units - stock[p]]
    /\ UNCHANGED <<clock, orders, quantity, reservation>>

-----------------------------------------------------------------------------
(* What the payment transactions do to an order. *)

\* reserveAttempt stores the accepted terms once.
AcceptTerms(o, now) ==
    /\ Payable(o)
    /\ ReservationsValid(o, now)
    /\ orders' = [orders EXCEPT ![o].terms = TRUE]
    /\ UNCHANGED <<clock, stock, supplied, quantity, reservation>>

\* The order may be sold at the instant now that the reconciliation read.
Sellable(o, now) ==
    Payable(o) /\ ReservationsValid(o, now) /\ orders[o].terms /\ StockSuffices(o)

\* Mutant of ShelfAfterSale: one unit per line, whatever its quantity.
ShelfAfterLines(o) ==
    [p \in Products |-> IF quantity[o][p] > 0 THEN stock[p] - 1 ELSE stock[p]]

\* The decrements of confirmStock.
ShelfAfterSale(o) == [p \in Products |-> stock[p] - quantity[o][p]]

\* confirmStock and the final order update of reconcile: every line leaves the
\* stock, every reservation is CONFIRMED and the order is PAID, or nothing is.
ConfirmSale(o, now) ==
    /\ Sellable(o, now)
    /\ stock' = ShelfAfterSale(o)
    /\ reservation' = [reservation EXCEPT ![o] = Settle(o, "CONFIRMED")]
    /\ orders' = [orders EXCEPT ![o].pay = "PAID"]
    /\ UNCHANGED <<clock, supplied, quantity>>

\* Mutant of HoldOrder: only an order that is still open is held.
HoldOpenOrder(o) ==
    /\ orders[o].status # "NONE"
    /\ orders' = [orders EXCEPT ![o].review = @ \/ orders[o].status = "OPEN"]
    /\ UNCHANGED <<clock, stock, supplied, quantity, reservation>>

\* recordReview and recordShopFinancialReview set paymentReviewAt; nothing clears it.
HoldOrder(o) ==
    /\ orders[o].status # "NONE"
    /\ orders' = [orders EXCEPT ![o].review = TRUE]
    /\ UNCHANGED <<clock, stock, supplied, quantity, reservation>>

OrdersNext ==
    \/ Tick
    \/ \E o \in Orders :
        \/ \E basket \in Baskets, now \in ReadInstants : CreateOrder(o, basket, now)
        \/ CancelOrder(o)
        \/ \E now \in ReadInstants : AcceptTerms(o, now)
        \/ \E now \in ReadInstants : ConfirmSale(o, now)
        \/ HoldOrder(o)
    \/ \E batch \in SUBSET Orders : ExpireReservations(batch)
    \/ \E p \in Products, units \in 0..MaxStock : SetStock(p, units)

OrdersSpec == OrdersInit /\ [][OrdersNext]_orderVars

-----------------------------------------------------------------------------
(* Properties. *)

ConfirmedUnits(p) == {u \in UnitsOf(p) : reservation[u[1]][p] = "CONFIRMED"}

\* Every unit is accounted for: what is on the shelf plus what was sold is exactly
\* what was supplied, whatever cancellations, expiries, stock edits and late
\* captures came in between (confirmStock decrements once per confirmed line).
StockLedger ==
    \A p \in Products : stock[p] + Cardinality(ConfirmedUnits(p)) = supplied[p]

\* Goods follow money, whole baskets only: a tracked line is CONFIRMED exactly when
\* its order is PAID, and an order that still takes payments holds all its lines.
StockFollowsPayment ==
    \A o \in Orders, p \in Products : quantity[o][p] > 0 =>
        /\ reservation[o][p] = "CONFIRMED" <=> orders[o].pay = "PAID"
        /\ Payable(o) => reservation[o][p] = "ACTIVE"

\* Units that are promised by live reservations and not on the shelf.
Uncovered(p) == ReservedQuantity(p, clock) - stock[p]

\* The order is sold after its deadline, by a transaction whose clock reading is old.
SoldLate(o) ==
    orders[o].pay # "PAID" /\ orders'[o].pay = "PAID" /\ clock >= orders[o].deadline

\* The stock stays above the live reservations (docs/SHOP_INVENTORY.md: the shared product
\* lock keeps it from going under them): no basket is promised twice, and no stock edit,
\* expiry or sale takes goods that are promised to another order, however old the clock
\* readings are.  Only a sale after its deadline can, and it takes no more than its own units.
PromisesKept ==
    [][\A p \in Products :
        \/ Uncovered(p)' <= 0
        \/ Uncovered(p)' <= Uncovered(p)
        \/ \E o \in Orders :
            SoldLate(o) /\ Uncovered(p)' <= Uncovered(p) + quantity[o][p]]_orderVars

\* No goods are sold after the deadline: a step that makes an order with a tracked line
\* PAID happens while its reservation still runs.
ConfirmedOnTime ==
    [][\A o \in Orders :
        SoldLate(o) => \A p \in Products : quantity[o][p] = 0]_orderVars

\* A closed, sold or reviewed order never takes payments or goods again: it is never
\* reopened, a sale is never undone, and a review keeps every reservation as it is.
ClosedForGood ==
    [][\A o \in Orders :
        /\ orders[o].status \in {"EXPIRED", "CANCELLED"} => orders'[o].status = orders[o].status
        /\ orders[o].pay = "PAID" => orders'[o].pay = "PAID" /\ orders'[o].status = "OPEN"
        /\ orders[o].review =>
            /\ orders'[o] = orders[o]
            /\ reservation'[o] = reservation[o]]_orderVars
=============================================================================

--------------------------- MODULE ShopSaleProofs ---------------------------
(***************************************************************************)
(* ShopPayments implements ShopSale, for every set of orders, products and  *)
(* attempts: under MoneyInv every step of the system is one step of the      *)
(* sale, or none.                                                           *)
(***************************************************************************)
EXTENDS ShopPaymentsProofs

(* The held and the paid orders of the mapping in ShopPayments. *)
Held == {o \in Orders : orders[o].review}
Paid == {o \in Orders : \E a \in AttemptsOf(o) : attempts[a].paid}
Phases == [o \in Orders |-> Phase(o)]

-----------------------------------------------------------------------------
(* The attempts' side: for which orders money has been recorded.              *)

\* An order that takes payments, or that a job or a member closes, was never paid.
LEMMA UnpaidUnlessSettled ==
    ASSUME MoneyInv, NEW o \in Orders, orders[o].pay # "PAID", ~orders[o].review
    PROVE  o \notin Paid
BY DEF MoneyInv, MoneyAgrees, AttemptsAgree, Paid, AttemptsOf

\* A step that records no payment and moves no paid attempt.
LEMMA PaidStays ==
    ASSUME \A a \in Attempts :
                /\ attempts'[a].paid = attempts[a].paid
                /\ attempts[a].paid => attempts'[a].order = attempts[a].order
    PROVE  Paid' = Paid
BY DEF Paid, AttemptsOf

\* A step that may record the payment of one attempt.
LEMMA PaidGrows ==
    ASSUME NEW a \in Attempts, attempts[a].order \in Orders,
           \A b \in Attempts : attempts'[b].order = attempts[b].order,
           \A b \in Attempts \ {a} : attempts'[b].paid = attempts[b].paid,
           attempts[a].paid => attempts'[a].paid,
           attempts \in [Attempts -> AttemptRows], attempts'[a].paid \in BOOLEAN
    PROVE  /\ attempts'[a].paid => Paid' = Paid \cup {attempts[a].order}
           /\ ~attempts'[a].paid => Paid' = Paid
<1>1. CASE attempts'[a].paid
  <2>1. ASSUME NEW o \in Orders, o \in Paid PROVE o \in Paid'
    <3>1. PICK b \in Attempts : attempts[b].order = o /\ attempts[b].paid
      BY <2>1 DEF Paid, AttemptsOf
    <3>2. attempts'[b].order = o /\ attempts'[b].paid
      BY <1>1, <3>1
    <3> QED
      BY <3>2 DEF Paid, AttemptsOf
  <2>2. ASSUME NEW o \in Orders, o \in Paid' PROVE o \in Paid \cup {attempts[a].order}
    <3>1. PICK b \in Attempts : attempts'[b].order = o /\ attempts'[b].paid
      BY <2>2 DEF Paid, AttemptsOf
    <3>2. CASE b = a
      BY <3>1, <3>2
    <3>3. CASE b # a
      BY <3>1, <3>3 DEF Paid, AttemptsOf
    <3> QED
      BY <3>2, <3>3
  <2>3. attempts[a].order \in Paid'
    BY <1>1 DEF Paid, AttemptsOf
  <2>4. Paid \subseteq Orders /\ Paid' \subseteq Orders
    BY DEF Paid
  <2> QED
    BY <1>1, <2>1, <2>2, <2>3, <2>4
<1>2. CASE ~attempts'[a].paid
  <2>1. \A b \in Attempts : attempts'[b].paid <=> attempts[b].paid
    BY <1>2
  <2> QED
    BY <1>2, <2>1 DEF Paid, AttemptsOf
<1> QED
  BY <1>1, <1>2

-----------------------------------------------------------------------------
(* The orders' side.                                                           *)

\* What the rows of an order say about its phase.
LEMMA PhaseMeans ==
    ASSUME OrdersInv, NEW o \in Orders
    PROVE  /\ orders[o].status = "NONE" => Phases[o] = "NEW"
           /\ orders[o].status = "OPEN" /\ orders[o].pay # "PAID" => Phases[o] = "OFFERED"
           /\ orders[o].pay = "PAID" => Phases[o] = "SOLD"
           /\ orders[o].status \in {"EXPIRED", "CANCELLED"} => Phases[o] = "CLOSED"
BY DEF OrdersInv, OrdersAgree, Phases, Phase

\* The phase depends on the two statuses only.
LEMMA PhaseStays ==
    ASSUME NEW o \in Orders,
           orders'[o].status = orders[o].status, orders'[o].pay = orders[o].pay
    PROVE  Phases'[o] = Phases[o]
<1>1. Phase(o)' = Phase(o)
  BY Zenon DEF Phase
<1> QED
  BY <1>1 DEF Phases

LEMMA SaleVars ==
    /\ Sale!saleVars = <<Phases, quantity, Held, Paid, stock>>
    /\ Sale!saleVars' = <<Phases', quantity', Held', Paid', stock'>>
BY DEF Sale!saleVars, Phases, Held, Paid

LEMMA OfferStep ==
    ASSUME MoneyInv, NEW o \in Orders, NEW basket \in Baskets, NEW now,
           CreateOrder(o, basket, now), Paid' = Paid
    PROVE  Sale!Next
<1> USE DEF OrdersInv, MoneyInv
<1>1. orders[o].status = "NONE" /\ Phases[o] = "NEW"
  BY PhaseMeans DEF CreateOrder
<1>2. /\ orders'[o].status = "OPEN" /\ orders'[o].pay = "AWAITING_PAYMENT" /\ ~orders'[o].review
      /\ \A x \in Orders \ {o} : orders'[x] = orders[x]
  BY DEF CreateOrder, AbsentOrder, OrdersTypeOK
<1>3. Phases'[o] = "OFFERED"
  BY <1>2 DEF Phases, Phase
<1>4. \A x \in Orders \ {o} : Phases'[x] = Phases[x]
  BY <1>2, PhaseStays
<1>5. Phases' = [Phases EXCEPT ![o] = "OFFERED"]
  BY <1>3, <1>4 DEF Phases
<1>6. Held' = Held
  BY <1>1, <1>2 DEF Held, OrdersAgree
<1>7. /\ quantity' \in [Orders -> [Products -> Nat]]
      /\ \A x \in Orders \ {o} : quantity'[x] = quantity[x]
  BY SizesAssumption DEF CreateOrder, OrdersTypeOK, Baskets
<1>8. UNCHANGED stock
  BY DEF CreateOrder
<1>9. Sale!Offer(o)
  BY <1>1, <1>5, <1>6, <1>7, <1>8 DEF Sale!Offer, Phases, Held, Paid
<1> QED
  BY <1>9 DEF Sale!Next

\* One or more orders that still take payments are closed.
LEMMA CloseStep ==
    ASSUME MoneyInv, NEW closing \in SUBSET Orders,
           \A o \in closing : Payable(o) \/ Cancellable(o),
           \A o \in closing : /\ orders'[o].status \in {"EXPIRED", "CANCELLED"}
                              /\ orders'[o].pay # "PAID"
                              /\ orders'[o].review = orders[o].review,
           \A o \in Orders \ closing : orders'[o] = orders[o],
           UNCHANGED <<quantity, stock>>, Paid' = Paid
    PROVE  Sale!Next
<1> USE DEF OrdersInv, MoneyInv
<1>1. \A o \in closing :
        Phases[o] = "OFFERED" /\ o \notin Held /\ o \notin Paid
  BY PhaseMeans, UnpaidUnlessSettled DEF Payable, Cancellable, Held
<1>2. \A o \in closing : Phases'[o] = "CLOSED"
  BY DEF Phases, Phase
<1>3. \A o \in Orders \ closing : Phases'[o] = Phases[o]
  BY PhaseStays
<1>4. Phases' = [o \in Orders |-> IF o \in closing THEN "CLOSED" ELSE Phases[o]]
  BY <1>2, <1>3 DEF Phases
<1>5. Held' = Held
  BY DEF Held
<1>6. Sale!Close(closing)
  BY <1>1, <1>4, <1>5 DEF Sale!Close, Phases, Held, Paid
<1> QED
  BY <1>6 DEF Sale!Next

\* The sale of an order whose payment is recorded by the same step.
LEMMA SellStep ==
    ASSUME MoneyInv, NEW o \in Orders, NEW now, ConfirmSale(o, now), Paid' = Paid \cup {o}
    PROVE  Sale!Next
<1> USE DEF OrdersInv, MoneyInv
<1>1. orders[o].status = "OPEN" /\ orders[o].pay = "AWAITING_PAYMENT" /\ ~orders[o].review
  BY DEF ConfirmSale, Sellable, Payable
<1>2. Phases[o] = "OFFERED" /\ o \notin Held /\ o \notin Paid
  BY <1>1, PhaseMeans, UnpaidUnlessSettled DEF Held
<1>3. orders[o] \in OrderRows /\ orders' = [orders EXCEPT ![o].pay = "PAID"]
  BY DEF ConfirmSale, OrdersTypeOK
<1>4. /\ orders'[o].status = "OPEN" /\ orders'[o].pay = "PAID"
      /\ orders'[o].review = orders[o].review
      /\ \A x \in Orders \ {o} : orders'[x] = orders[x]
  BY <1>1, <1>3 DEF OrdersTypeOK, OrderRows
<1>5. Phases'[o] = "SOLD"
  BY <1>4 DEF Phases, Phase
<1>6. \A x \in Orders \ {o} : Phases'[x] = Phases[x]
  BY <1>4, PhaseStays
<1>7. Phases' = [Phases EXCEPT ![o] = "SOLD"]
  BY <1>5, <1>6 DEF Phases
<1>8. Held' = Held
  BY <1>4 DEF Held
<1>9. stock' = [p \in Products |-> stock[p] - quantity[o][p]] /\ UNCHANGED quantity
  BY DEF ConfirmSale, ShelfAfterSale
<1>10. Sale!Sell(o)
  BY <1>2, <1>7, <1>8, <1>9 DEF Sale!Sell, Phases, Held, Paid
<1> QED
  BY <1>10 DEF Sale!Next

\* An order is held, and perhaps a payment of it recorded.
LEMMA HoldStep ==
    ASSUME MoneyInv, NEW o \in Orders, HoldOrder(o), Paid' \in {Paid, Paid \cup {o}}
    PROVE  Sale!Next
<1> USE DEF OrdersInv, MoneyInv
<1>1. orders[o] \in OrderRows /\ orders' = [orders EXCEPT ![o].review = TRUE]
  BY DEF HoldOrder, OrdersTypeOK
<1>2. /\ orders'[o].status = orders[o].status /\ orders'[o].pay = orders[o].pay
      /\ orders'[o].review
      /\ \A x \in Orders \ {o} : orders'[x] = orders[x]
  BY <1>1 DEF OrdersTypeOK, OrderRows
<1>3. \A x \in Orders : Phases'[x] = Phases[x]
  BY <1>2, PhaseStays
<1>4. Phases' = Phases
  BY <1>3 DEF Phases
<1>5. Held' = Held \cup {o}
  BY <1>2 DEF Held
<1>6. Phases[o] # "NEW"
  <2>1. orders[o].status \in {"OPEN", "EXPIRED", "CANCELLED"}
    BY <1>1 DEF HoldOrder, OrderRows, OrderStatuses
  <2> QED
    BY <2>1, PhaseMeans
<1>7. UNCHANGED <<quantity, stock>>
  BY DEF HoldOrder
<1>8. Sale!Hold(o)
  BY <1>4, <1>5, <1>6, <1>7 DEF Sale!Hold, Phases, Held, Paid
<1> QED
  BY <1>8 DEF Sale!Next

LEMMA RecountStep ==
    ASSUME MoneyInv, NEW p \in Products, NEW units \in 0..MaxStock, SetStock(p, units),
           Paid' = Paid
    PROVE  Sale!Next
<1>1. UNCHANGED <<orders, quantity>> /\ stock' = [stock EXCEPT ![p] = units]
  BY DEF SetStock
<1>2. Phases' = Phases /\ Held' = Held
  BY <1>1 DEF Phases, Phase, Held
<1>3. /\ stock' \in [Products -> Nat]
      /\ \A other \in Products \ {p} : stock'[other] = stock[other]
  BY <1>1, SizesAssumption DEF MoneyInv, OrdersInv, OrdersTypeOK
<1>4. Sale!Recount(p)
  BY <1>1, <1>2, <1>3 DEF Sale!Recount, Phases, Held, Paid
<1> QED
  BY <1>4 DEF Sale!Next

\* Steps in which no order changes its statuses or its review flag.
LEMMA QuietSale ==
    ASSUME Paid' = Paid, UNCHANGED <<quantity, stock>>,
           \A o \in Orders : /\ orders'[o].status = orders[o].status
                             /\ orders'[o].pay = orders[o].pay
                             /\ orders'[o].review = orders[o].review
    PROVE  UNCHANGED Sale!saleVars
<1>1. \A o \in Orders : Phases'[o] = Phases[o]
  BY PhaseStays
<1>2. Phases' = Phases
  BY <1>1 DEF Phases
<1>3. Held' = Held
  BY DEF Held
<1> QED
  BY <1>2, <1>3, SaleVars

\* AcceptTerms changes the terms of one order.
LEMMA TermsQuiet ==
    ASSUME MoneyInv, NEW o \in Orders, NEW now, AcceptTerms(o, now), Paid' = Paid
    PROVE  UNCHANGED Sale!saleVars
<1>1. orders \in [Orders -> OrderRows] /\ orders' = [orders EXCEPT ![o].terms = TRUE]
  BY DEF MoneyInv, OrdersInv, OrdersTypeOK, AcceptTerms
<1>2. \A x \in Orders : /\ orders'[x].status = orders[x].status
                        /\ orders'[x].pay = orders[x].pay
                        /\ orders'[x].review = orders[x].review
  BY <1>1 DEF OrderRows
<1>3. UNCHANGED <<quantity, stock>>
  BY DEF AcceptTerms
<1> QED
  BY <1>2, <1>3, QuietSale

-----------------------------------------------------------------------------
(* Every step of the system.                                                   *)

LEMMA MemberSale ==
    ASSUME MoneyInv, MemberStep PROVE Sale!Next
<1>1. Paid' = Paid
  BY DEF MemberStep, paymentVars, Paid, AttemptsOf
<1>2. ASSUME NEW o \in Orders, CancelOrder(o) PROVE Sale!Next
  <2>1. orders[o] \in OrderRows /\ orders \in [Orders -> OrderRows]
    BY DEF MoneyInv, OrdersInv, OrdersTypeOK
  <2>2. /\ orders'[o].status = "CANCELLED" /\ orders'[o].pay = "CANCELLED"
        /\ orders'[o].review = orders[o].review
        /\ \A x \in Orders \ {o} : orders'[x] = orders[x]
    BY <1>2, <2>1 DEF CancelOrder, OrderRows
  <2>3. Cancellable(o) /\ UNCHANGED <<quantity, stock>>
    BY <1>2 DEF CancelOrder
  <2>4. {o} \in SUBSET Orders
    OBVIOUS
  <2> QED
    BY <1>1, <2>2, <2>3, <2>4, CloseStep
<1> QED
  BY <1>1, <1>2, OfferStep DEF MemberStep

LEMMA ShopSaleStep ==
    ASSUME MoneyInv, ShopStep PROVE Sale!Next
<1>1. Paid' = Paid
  BY DEF ShopStep, paymentVars, Paid, AttemptsOf
<1>2. ASSUME NEW batch \in SUBSET Orders, ExpireReservations(batch) PROVE Sale!Next
  <2>1. orders \in [Orders -> OrderRows]
    BY DEF MoneyInv, OrdersInv, OrdersTypeOK
  <2>2. /\ \A o \in batch : Payable(o)
        /\ \A o \in Orders :
            orders'[o] = IF o \in batch THEN [orders[o] EXCEPT !.status = "EXPIRED"] ELSE orders[o]
        /\ UNCHANGED <<quantity, stock>>
    BY <1>2 DEF ExpireReservations, Overdue
  <2>3. \A o \in batch : /\ orders'[o].status = "EXPIRED" /\ orders'[o].pay = orders[o].pay
                         /\ orders'[o].review = orders[o].review
    BY <2>1, <2>2 DEF OrderRows
  <2>4. \A o \in batch : orders'[o].pay # "PAID"
    BY <2>2, <2>3 DEF Payable
  <2> QED
    BY <1>1, <2>2, <2>3, <2>4, CloseStep
<1> QED
  BY <1>1, <1>2, RecountStep DEF ShopStep

LEMMA CheckoutSale ==
    ASSUME MoneyInv, CheckoutStep PROVE UNCHANGED Sale!saleVars
<1>0. attempts \in [Attempts -> AttemptRows]
  BY DEF MoneyInv, PaymentsInv, TypeOK, PaymentsTypeOK
<1>1. ASSUME NEW a \in Attempts, NEW o \in Orders, NEW provider \in Providers,
             NEW now \in ReadInstants, StartAttempt(a, o, provider, now)
      PROVE  UNCHANGED Sale!saleVars
  <2>1. ~attempts[a].paid
    BY <1>1 DEF StartAttempt, MoneyInv, PaymentsInv, RowsAgree
  <2>2. ~attempts'[a].paid /\ \A b \in Attempts \ {a} : attempts'[b] = attempts[b]
    BY <1>0, <1>1 DEF StartAttempt, AbsentAttempt
  <2>3. Paid' = Paid
    BY <2>1, <2>2 DEF Paid, AttemptsOf
  <2> QED
    BY <1>1, <2>3, TermsQuiet DEF StartAttempt, MayReserve
<1>2. ASSUME NEW a \in Attempts, NEW now \in ReadInstants, ResumeAttempt(a, now)
      PROVE  UNCHANGED Sale!saleVars
  <2>1. AcceptTerms(attempts[a].order, now) /\ attempts[a].order \in Orders
    BY <1>2, OwnerExists DEF ResumeAttempt, MayReserve, InProgress, MoneyInv, PaymentsInv, RowsAgree
  <2>2. Paid' = Paid
    BY <1>2 DEF ResumeAttempt, Paid, AttemptsOf
  <2> QED
    BY <2>1, <2>2, TermsQuiet
<1>3. ASSUME NEW a \in Attempts, WriteSession(a) PROVE UNCHANGED Sale!saleVars
  <2>1. attempts'[a] = [attempts[a] EXCEPT !.session = TRUE,
                !.status = IF checkout[a] \in InProgress THEN "PENDING" ELSE attempts[a].status]
        /\ \A c \in Attempts \ {a} : attempts'[c] = attempts[c]
    BY <1>3, WriteSessionEffect DEF MoneyInv, PaymentsInv, TypeOK, PaymentsTypeOK
  <2>2. attempts'[a].paid = attempts[a].paid /\ attempts'[a].order = attempts[a].order
    BY <1>0, <2>1 DEF AttemptRows
  <2>3. Paid' = Paid
    BY <2>1, <2>2, PaidStays
  <2>4. UNCHANGED <<orders, quantity, stock>>
    BY <1>3 DEF WriteSession, orderVars
  <2> QED
    BY <2>3, <2>4, QuietSale
<1>4. ASSUME NEW a \in Attempts,
             \/ ObtainSession(a) \/ ReadForSession(a)
             \/ RetryRecordSession(a) \/ AbandonCheckout(a) \/ ReservePaypalCapture(a)
      PROVE  UNCHANGED Sale!saleVars
  <2>1. UNCHANGED <<orders, quantity, stock, attempts>>
    BY <1>4 DEF ObtainSession, ReadForSession, RetryRecordSession, AbandonCheckout,
                ReservePaypalCapture, orderVars
  <2>2. Paid' = Paid
    BY <2>1 DEF Paid, AttemptsOf
  <2> QED
    BY <2>1, <2>2, QuietSale
<1> QED
  BY <1>1, <1>2, <1>3, <1>4 DEF CheckoutStep

\* A notification sells the order, holds it, or leaves it alone.
LEMMA ReconcileSale ==
    ASSUME MoneyInv, NEW e \in sent, NEW now, Reconcile(e, now)
    PROVE  [Sale!Next]_(Sale!saleVars)
<1> DEFINE a == e.attempt
           o == attempts[a].order
<1>1. e \in Notifications /\ a \in Attempts /\ o \in Orders
  BY ReconcileFinds
<1>2. attempts \in [Attempts -> AttemptRows] /\ attempts[a] \in AttemptRows
  BY <1>1 DEF MoneyInv, PaymentsInv, TypeOK, PaymentsTypeOK
<1>3. \A b \in Attempts : attempts'[b].order = attempts[b].order
  BY ReconcileKeepsRows DEF MoneyInv
<1>4. attempts[a].paid => attempts'[a].paid
  BY <1>1, ReconcileKeepsEvidence DEF EvidenceKept
<1>5. ASSUME \A b \in Attempts \ {a} : attempts'[b].paid = attempts[b].paid,
             attempts'[a].paid \in BOOLEAN
      PROVE  /\ attempts'[a].paid => Paid' = Paid \cup {o}
             /\ ~attempts'[a].paid => Paid' = Paid
  BY <1>1, <1>2, <1>3, <1>4, <1>5, PaidGrows
<1>6. CASE ReviewLoser(e, now)
  <2>1. attempts' = UnderReview(a, e.status = "SUCCEEDED") /\ HoldOrder(o)
    BY <1>6 DEF ReviewLoser
  <2>2. /\ \A b \in Attempts \ {a} : attempts'[b].paid = attempts[b].paid
        /\ attempts'[a].paid = (attempts[a].paid \/ e.status = "SUCCEEDED")
    BY <1>1, <2>1, UnderReviewEffect
  <2>3. Paid' \in {Paid, Paid \cup {o}}
    BY <1>5, <2>2
  <2> QED
    BY <1>1, <2>1, <2>3, HoldStep
<1>7. CASE ReviewCapture(e, now)
  <2>1. attempts' = AsWinner(a) /\ HoldOrder(o)
    BY <1>7 DEF ReviewCapture
  <2>2. attempts'[a] = [attempts[a] EXCEPT !.status = "SUCCEEDED", !.paid = TRUE]
        /\ \A b \in Attempts \ {a} : attempts'[b] = attempts[b]
    BY <1>1, <1>2, <2>1 DEF AsWinner
  <2>3. attempts'[a].paid = TRUE /\ \A b \in Attempts \ {a} : attempts'[b].paid = attempts[b].paid
    BY <1>2, <2>2 DEF AttemptRows
  <2>4. Paid' = Paid \cup {o}
    BY <1>5, <2>3
  <2> QED
    BY <1>1, <2>1, <2>4, HoldStep
<1>8. CASE RecordPending(e, now) \/ RecordFailure(e, now)
  <2>1. PICK status : attempts' = SetInProgress(a, status)
    BY <1>8 DEF RecordPending, RecordFailure
  <2>2. \A b \in Attempts : attempts'[b].paid = attempts[b].paid
    BY <1>1, <1>2, <2>1 DEF SetInProgress, AttemptRows
  <2>3. Paid' = Paid
    BY <1>3, <2>2, PaidStays
  <2>4. UNCHANGED <<orders, quantity, stock>>
    BY <1>8 DEF RecordPending, RecordFailure, orderVars
  <2> QED
    BY <2>3, <2>4, QuietSale
<1>9. CASE RecordReceipt(e, now)
  <2>1. UNCHANGED <<orders, quantity, stock, attempts>>
    BY <1>9 DEF RecordReceipt, orderVars
  <2>2. Paid' = Paid
    BY <2>1 DEF Paid, AttemptsOf
  <2> QED
    BY <2>1, <2>2, QuietSale
<1>10. CASE Confirm(e, now)
  <2>1. ConfirmSale(o, now)
    BY <1>10 DEF Confirm
  <2>2. attempts'[a].paid = TRUE
    <3>1. attempts'[a] = AsWinner(a)[a]
      BY <1>1, <1>10 DEF Confirm
    <3> QED
      BY <1>1, <1>2, <3>1 DEF AsWinner, AttemptRows
  <2>3. \A b \in Attempts \ {a} :
            attempts'[b] = attempts[b] \/ attempts'[b] = [attempts[b] EXCEPT !.status = "CANCELED"]
    BY <1>10 DEF Confirm
  <2>4. \A b \in Attempts \ {a} : attempts'[b].paid = attempts[b].paid
    BY <1>2, <2>3 DEF AttemptRows
  <2>5. Paid' = Paid \cup {o}
    BY <1>5, <2>2, <2>4
  <2> QED
    BY <1>1, <2>1, <2>5, SellStep
<1> QED
  BY <1>6, <1>7, <1>8, <1>9, <1>10 DEF Reconcile

LEMMA NextSale ==
    ASSUME MoneyInv, [Next]_vars
    PROVE  [Sale!Next]_(Sale!saleVars)
<1>1. ASSUME UNCHANGED <<orders, quantity, stock, attempts>>
      PROVE  UNCHANGED Sale!saleVars
  <2>1. Paid' = Paid
    BY <1>1 DEF Paid, AttemptsOf
  <2> QED
    BY <1>1, <2>1, QuietSale
<1>2. CASE PassTime
  BY <1>1, <1>2 DEF PassTime, Tick
<1>3. CASE MemberStep
  BY <1>3, MemberSale
<1>4. CASE ShopStep
  BY <1>4, ShopSaleStep
<1>5. CASE CheckoutStep
  BY <1>5, CheckoutSale
<1>6. CASE ProviderStep
  BY <1>1, <1>6, ProviderKeepsOrders DEF orderVars
<1>7. ASSUME NEW e \in sent, Reconcile(e, clock) PROVE [Sale!Next]_(Sale!saleVars)
  BY <1>7, ReconcileSale
<1>8. ASSUME NEW e \in sent, WaitForLocks(e) PROVE UNCHANGED Sale!saleVars
  BY <1>1, <1>8 DEF WaitForLocks, orderVars
<1>9. ASSUME NEW w \in waiting, Reconcile(w.event, w.now) PROVE [Sale!Next]_(Sale!saleVars)
  BY <1>9, ReconcileSale DEF MoneyInv, PaymentsInv, NoticesAgree
<1>10. ASSUME NEW a \in Attempts, FinancialIncident(a) PROVE Sale!Next
  <2>1. attempts[a].order \in Orders
    BY <1>10, OwnerExists DEF FinancialIncident, MoneyInv, PaymentsInv, RowsAgree
  <2>2. Paid' = Paid
    BY <1>10 DEF FinancialIncident, paymentVars, Paid, AttemptsOf
  <2> QED
    BY <1>10, <2>1, <2>2, HoldStep DEF FinancialIncident
<1>11. CASE UNCHANGED vars
  BY <1>1, <1>11 DEF vars, orderVars, paymentVars
<1> QED
  BY <1>2, <1>3, <1>4, <1>5, <1>6, <1>7, <1>8, <1>9, <1>10, <1>11 DEF Next, ReconcileStep

LEMMA SaleStarts == Init => Sale!Init
<1> SUFFICES ASSUME Init PROVE Sale!Init
  OBVIOUS
<1>1. Phases = [o \in Orders |-> "NEW"]
  BY DEF Init, OrdersInit, AbsentOrder, Phases, Phase
<1>2. Held = {}
  BY DEF Init, OrdersInit, AbsentOrder, Held
<1>3. Paid = {}
  BY DEF Init, AbsentAttempt, Paid, AttemptsOf
<1>4. /\ quantity = [o \in Orders |-> [p \in Products |-> 0]]
      /\ stock \in [Products -> Nat]
  BY SizesAssumption DEF Init, OrdersInit
<1> QED
  BY <1>1, <1>2, <1>3, <1>4 DEF Sale!Init, Phases, Held, Paid

\* Whatever the order of notifications, retries, crashes and expiries, money recorded on
\* any attempt sells the order once, or holds it (ShopSale).
THEOREM SalePromise == Spec => KeepsSalePromise
<1>1. MoneyInv /\ [Next]_vars => [Sale!Next]_(Sale!saleVars)
  BY NextSale
<1> QED
  BY <1>1, SaleStarts, MoneyAlways, PTL DEF Spec, KeepsSalePromise, Sale!Spec
=============================================================================

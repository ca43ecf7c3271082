------------------------- MODULE ShopPaymentsProofs -------------------------
(***************************************************************************)
(* Proofs about ShopPayments, for every set of orders, products and         *)
(* attempts and every bound: type correctness, that the payment side        *)
(* implements the orders' specification (so what ShopOrdersProofs proves     *)
(* holds of the whole), and what becomes of captured money.                 *)
(***************************************************************************)
EXTENDS ShopPayments, ShopOrdersProofs

(* What the rows of an attempt that exists, or does not, say to one another.   *)
RowsAgree ==
    \A a \in Attempts :
        /\ attempts[a].order = NoOrder =>
            /\ attempts[a].status = "NONE" /\ ~attempts[a].paid /\ ~attempts[a].session
            /\ checkout[a] = "IDLE" /\ a \notin captures /\ gateway[a] = "NONE"
        /\ attempts[a].order # NoOrder =>
            /\ attempts[a].status # "NONE"
            /\ orders[attempts[a].order].status # "NONE"
            /\ orders[attempts[a].order].terms

(* Every notification is about an attempt that exists, and every clock reading  *)
(* is recent enough.                                                           *)
NoticesAgree ==
    /\ \A e \in sent : attempts[e.attempt].order # NoOrder
    /\ receipts \subseteq sent
    /\ \A w \in waiting : w.event \in sent /\ w.now \in ReadInstants

PaymentsInv == TypeOK /\ RowsAgree /\ NoticesAgree

-----------------------------------------------------------------------------
(* The payment side implements the orders' specification.                      *)

LEMMA OwnerExists ==
    ASSUME PaymentsInv, NEW a \in Attempts, attempts[a].order # NoOrder
    PROVE  attempts[a].order \in Orders
BY DEF PaymentsInv, TypeOK, PaymentsTypeOK, AttemptRows

LEMMA ClockIsRead ==
    ASSUME TypeOK PROVE clock \in ReadInstants
BY TimeAssumption DEF TypeOK, OrdersTypeOK, ReadInstants

\* A reconciliation touches the orders through HoldOrder and ConfirmSale only.
LEMMA ReconcileSimulates ==
    ASSUME PaymentsInv, NEW e \in sent, NEW now \in ReadInstants, Reconcile(e, now)
    PROVE  [OrdersNext]_orderVars
<1>1. e \in Notifications /\ e.attempt \in Attempts
  BY DEF PaymentsInv, TypeOK, PaymentsTypeOK, Notifications
<1>2. attempts[e.attempt].order \in Orders
  BY <1>1, OwnerExists DEF PaymentsInv, NoticesAgree
<1>3. CASE ReviewLoser(e, now)
  BY <1>2, <1>3 DEF ReviewLoser, OrdersNext
<1>4. CASE ReviewCapture(e, now)
  BY <1>2, <1>4 DEF ReviewCapture, OrdersNext
<1>5. CASE RecordPending(e, now)
  BY <1>5 DEF RecordPending
<1>6. CASE RecordFailure(e, now)
  BY <1>6 DEF RecordFailure
<1>7. CASE RecordReceipt(e, now)
  BY <1>7 DEF RecordReceipt
<1>8. CASE Confirm(e, now)
  BY <1>2, <1>8 DEF Confirm, OrdersNext
<1> QED
  BY <1>3, <1>4, <1>5, <1>6, <1>7, <1>8 DEF Reconcile

LEMMA CheckoutSimulates ==
    ASSUME PaymentsInv, CheckoutStep
    PROVE  [OrdersNext]_orderVars
<1>1. ASSUME NEW a \in Attempts, NEW o \in Orders, NEW provider \in Providers,
             NEW now \in ReadInstants, StartAttempt(a, o, provider, now)
      PROVE  OrdersNext
  BY <1>1 DEF StartAttempt, MayReserve, OrdersNext
<1>2. ASSUME NEW a \in Attempts, NEW now \in ReadInstants, ResumeAttempt(a, now)
      PROVE  OrdersNext
  <2>1. attempts[a].order \in Orders
    BY <1>2, OwnerExists DEF ResumeAttempt, InProgress, PaymentsInv, RowsAgree
  <2> QED
    BY <1>2, <2>1 DEF ResumeAttempt, MayReserve, OrdersNext
<1>3. ASSUME NEW a \in Attempts,
             \/ ObtainSession(a) \/ ReadForSession(a) \/ WriteSession(a)
             \/ RetryRecordSession(a) \/ AbandonCheckout(a) \/ ReservePaypalCapture(a)
      PROVE  UNCHANGED orderVars
  BY <1>3 DEF ObtainSession, ReadForSession, WriteSession, RetryRecordSession,
              AbandonCheckout, ReservePaypalCapture
<1> QED
  BY <1>1, <1>2, <1>3 DEF CheckoutStep

LEMMA ProviderKeepsOrders == ProviderStep => UNCHANGED <<orderVars, attempts, checkout, captures, receipts, waiting>>
BY DEF ProviderStep, DeclineCard, ExpireSession, ApproveOrder, PaySession, CaptureOrder,
       SettlePayment, Provider

LEMMA NextSimulates ==
    ASSUME PaymentsInv, [Next]_vars
    PROVE  [OrdersNext]_orderVars
<1>1. CASE PassTime
  BY <1>1 DEF PassTime, OrdersNext
<1>2. CASE MemberStep
  BY <1>2 DEF MemberStep, OrdersNext
<1>3. CASE ShopStep
  BY <1>3 DEF ShopStep, OrdersNext
<1>4. CASE CheckoutStep
  BY <1>4, CheckoutSimulates
<1>5. CASE ProviderStep
  BY <1>5, ProviderKeepsOrders
<1>6. ASSUME NEW e \in sent, Reconcile(e, clock) PROVE [OrdersNext]_orderVars
  BY <1>6, ClockIsRead, ReconcileSimulates DEF PaymentsInv
<1>7. ASSUME NEW e \in sent, WaitForLocks(e) PROVE UNCHANGED orderVars
  BY <1>7 DEF WaitForLocks
<1>8. ASSUME NEW w \in waiting, Reconcile(w.event, w.now) PROVE [OrdersNext]_orderVars
  BY <1>8, ReconcileSimulates DEF PaymentsInv, NoticesAgree
<1>9. ASSUME NEW a \in Attempts, FinancialIncident(a) PROVE OrdersNext
  BY <1>9, OwnerExists DEF FinancialIncident, PaymentsInv, RowsAgree, OrdersNext
<1>10. CASE UNCHANGED vars
  BY <1>10 DEF vars
<1> QED
  BY <1>1, <1>2, <1>3, <1>4, <1>5, <1>6, <1>7, <1>8, <1>9, <1>10 DEF Next, ReconcileStep

-----------------------------------------------------------------------------
(* Type correctness, one lemma per group of steps.                             *)

LEMMA NoticeType ==
    ASSUME NEW a \in Attempts, NEW status \in {"PENDING", "SUCCEEDED", "FAILED", "EXPIRED"},
           NEW via \in {"CHECKOUT", "INTENT", "RESPONSE"}, NEW consistent \in BOOLEAN
    PROVE  /\ Notice(a, status, via) \in Notifications
           /\ [Notice(a, status, via) EXCEPT !.consistent = consistent] \in Notifications
BY DEF Notice, Notifications

LEMMA SuccessType ==
    ASSUME NEW a \in Attempts, NEW consistent \in BOOLEAN,
           NEW vias \in SUBSET {"CHECKOUT", "INTENT", "RESPONSE"}
    PROVE  Success(a, vias, consistent) \subseteq {e \in Notifications : e.attempt = a}
BY DEF Success, Notice, Notifications

\* What one step of a provider does.
LEMMA ProviderEffect ==
    ASSUME ProviderStep
    PROVE  \E a \in Attempts, to \in GatewayStates :
            /\ gateway[a] # "NONE"
            /\ gateway' = [gateway EXCEPT ![a] = to]
            /\ sent \subseteq sent'
            /\ sent' \ sent \subseteq {e \in Notifications : e.attempt = a}
<1> DEFINE Effect(a) == \E to \in GatewayStates :
            /\ gateway[a] # "NONE"
            /\ gateway' = [gateway EXCEPT ![a] = to]
            /\ sent \subseteq sent'
            /\ sent' \ sent \subseteq {e \in Notifications : e.attempt = a}
<1>1. ASSUME NEW a \in Attempts, NEW from \in GatewayStates \ {"NONE"}, NEW to \in GatewayStates,
             NEW notices \in SUBSET {e \in Notifications : e.attempt = a},
             Provider(a, from, to, notices)
      PROVE  Effect(a)
  BY <1>1 DEF Provider
<1>2. ASSUME NEW a \in Attempts, NEW status \in {"PENDING", "SUCCEEDED", "FAILED", "EXPIRED"},
             NEW via \in {"CHECKOUT", "INTENT", "RESPONSE"}
      PROVE  {Notice(a, status, via)} \subseteq {e \in Notifications : e.attempt = a}
  BY DEF Notice, Notifications
<1> HIDE DEF Effect
<1> USE DEF GatewayStates
<1>3. ASSUME NEW a \in Attempts, DeclineCard(a) PROVE Effect(a)
  BY <1>1, <1>2, <1>3 DEF DeclineCard
<1>4. ASSUME NEW a \in Attempts, ExpireSession(a) PROVE Effect(a)
  BY <1>1, <1>2, <1>4 DEF ExpireSession
<1>5. ASSUME NEW a \in Attempts, ApproveOrder(a) PROVE Effect(a)
  BY <1>1, <1>2, <1>5 DEF ApproveOrder
<1>6. ASSUME NEW a \in Attempts, NEW consistent \in BOOLEAN, PaySession(a, consistent)
      PROVE  Effect(a)
  BY <1>1, <1>2, <1>6, SuccessType DEF PaySession
<1>7. ASSUME NEW a \in Attempts, NEW consistent \in BOOLEAN, CaptureOrder(a, consistent)
      PROVE  Effect(a)
  BY <1>1, <1>2, <1>7, SuccessType DEF CaptureOrder
<1>8. ASSUME NEW a \in Attempts, NEW consistent \in BOOLEAN, SettlePayment(a, consistent)
      PROVE  Effect(a)
  BY <1>1, <1>2, <1>8, SuccessType DEF SettlePayment
<1> QED
  BY <1>3, <1>4, <1>5, <1>6, <1>7, <1>8, AttemptsAssumption DEF ProviderStep, Effect

LEMMA PaymentsInitType == Init => TypeOK
BY OrdersInitType, AttemptsAssumption
DEF Init, TypeOK, PaymentsTypeOK, AbsentAttempt, AttemptRows, AttemptStatuses, CheckoutSteps,
    GatewayStates

\* The row that recordSession writes.
LEMMA WriteSessionEffect ==
    ASSUME TypeOK, NEW a \in Attempts, WriteSession(a)
    PROVE  attempts' = [attempts EXCEPT ![a] =
                [attempts[a] EXCEPT !.session = TRUE,
                    !.status = IF checkout[a] \in InProgress THEN "PENDING" ELSE attempts[a].status]]
BY DEF TypeOK, PaymentsTypeOK, AttemptRows, WriteSession

LEMMA CheckoutType ==
    ASSUME TypeOK, CheckoutStep
    PROVE  PaymentsTypeOK'
<1> USE DEF TypeOK, PaymentsTypeOK
<1>1. ASSUME NEW a \in Attempts, NEW o \in Orders, NEW provider \in Providers,
             NEW now \in ReadInstants, StartAttempt(a, o, provider, now)
      PROVE  PaymentsTypeOK'
  <2>1. [AbsentAttempt EXCEPT !.order = o, !.provider = provider, !.status = "CREATED"]
            \in AttemptRows
    BY AttemptsAssumption DEF AbsentAttempt, AttemptRows, AttemptStatuses
  <2> QED
    BY <1>1, <2>1 DEF StartAttempt, CheckoutSteps
<1>2. ASSUME NEW a \in Attempts, NEW now \in ReadInstants, ResumeAttempt(a, now)
      PROVE  PaymentsTypeOK'
  BY <1>2 DEF ResumeAttempt, CheckoutSteps
<1>3. ASSUME NEW a \in Attempts, ObtainSession(a) PROVE PaymentsTypeOK'
  BY <1>3 DEF ObtainSession, CheckoutSteps, GatewayStates
<1>4. ASSUME NEW a \in Attempts, ReadForSession(a) PROVE PaymentsTypeOK'
  BY <1>4 DEF ReadForSession, CheckoutSteps, AttemptRows
<1>5. ASSUME NEW a \in Attempts, WriteSession(a) PROVE PaymentsTypeOK'
  <2>1. [attempts[a] EXCEPT !.session = TRUE,
            !.status = IF checkout[a] \in InProgress THEN "PENDING" ELSE attempts[a].status]
            \in AttemptRows
    BY DEF AttemptRows, AttemptStatuses
  <2>2. attempts' \in [Attempts -> AttemptRows]
    BY <1>5, <2>1, WriteSessionEffect
  <2> QED
    BY <1>5, <2>2 DEF WriteSession, CheckoutSteps
<1>6. ASSUME NEW a \in Attempts, RetryRecordSession(a) PROVE PaymentsTypeOK'
  BY <1>6 DEF RetryRecordSession, CheckoutSteps
<1>7. ASSUME NEW a \in Attempts, AbandonCheckout(a) PROVE PaymentsTypeOK'
  BY <1>7 DEF AbandonCheckout, CheckoutSteps
<1>8. ASSUME NEW a \in Attempts, ReservePaypalCapture(a) PROVE PaymentsTypeOK'
  BY <1>8 DEF ReservePaypalCapture
<1> HIDE DEF TypeOK, PaymentsTypeOK
<1> QED
  BY <1>1, <1>2, <1>3, <1>4, <1>5, <1>6, <1>7, <1>8 DEF CheckoutStep

LEMMA UnderReviewType ==
    ASSUME TypeOK, NEW a \in Attempts, NEW captured \in BOOLEAN
    PROVE  UnderReview(a, captured) \in [Attempts -> AttemptRows]
<1>1. attempts \in [Attempts -> AttemptRows]
  BY DEF TypeOK, PaymentsTypeOK
<1>2. ASSUME NEW b \in Attempts
      PROVE  UnderReview(a, captured)[b] \in AttemptRows
  <2>1. CASE b = a
    <3>1. PICK status \in AttemptStatuses :
              UnderReview(a, captured)[b] = [attempts[a] EXCEPT !.status = status, !.paid = @ \/ captured]
      BY <1>1, <2>1 DEF UnderReview, AttemptRows, AttemptStatuses
    <3>2. attempts[a] \in AttemptRows /\ (attempts[a].paid \/ captured) \in BOOLEAN
      BY <1>1 DEF AttemptRows
    <3> QED
      BY <3>1, <3>2 DEF AttemptRows
  <2>2. CASE b # a
    <3>1. \/ UnderReview(a, captured)[b] = [attempts[b] EXCEPT !.status = "CANCELED"]
          \/ UnderReview(a, captured)[b] = attempts[b]
      BY <2>2 DEF UnderReview
    <3> QED
      BY <1>1, <3>1 DEF AttemptRows, AttemptStatuses
  <2> QED
    BY <2>1, <2>2
<1> DEFINE after == UnderReview(a, captured)
<1>3. after = [b \in Attempts |-> after[b]]
  BY DEF UnderReview
<1> HIDE DEF after
<1>4. \A b \in Attempts : after[b] \in AttemptRows
  BY <1>2 DEF after
<1>5. after \in [Attempts -> AttemptRows]
  BY <1>3, <1>4
<1> QED
  BY <1>5 DEF after

LEMMA ReconcileType ==
    ASSUME TypeOK, NEW e \in Notifications, NEW now, Reconcile(e, now)
    PROVE  PaymentsTypeOK'
<1> USE DEF TypeOK, PaymentsTypeOK
<1>0. e.attempt \in Attempts /\ e.status \in AttemptStatuses
  BY DEF Notifications, AttemptStatuses
<1>1. CASE ReviewLoser(e, now)
  BY <1>0, <1>1, UnderReviewType DEF ReviewLoser, Reconcile
<1>2. CASE ReviewCapture(e, now)
  <2>1. AsWinner(e.attempt) \in [Attempts -> AttemptRows]
    BY <1>0, ZenonT(40) DEF AsWinner, AttemptRows, AttemptStatuses
  <2> QED
    BY <1>2, <2>1 DEF ReviewCapture, Reconcile
<1>3. ASSUME NEW status \in AttemptStatuses
      PROVE  SetInProgress(e.attempt, status) \in [Attempts -> AttemptRows]
  BY <1>0, SMTT(30) DEF SetInProgress, AttemptRows
<1>4. CASE RecordPending(e, now)
  BY <1>3, <1>4 DEF RecordPending, Reconcile, AttemptStatuses
<1>5. CASE RecordFailure(e, now)
  BY <1>0, <1>3, <1>5 DEF RecordFailure, Reconcile
<1>6. CASE RecordReceipt(e, now)
  BY <1>6 DEF RecordReceipt, Reconcile
<1>7. CASE Confirm(e, now)
  <2>1. AsWinner(e.attempt) \in [Attempts -> AttemptRows]
    BY <1>0, ZenonT(40) DEF AsWinner, AttemptRows, AttemptStatuses
  <2>2. \A b \in Attempts : [attempts[b] EXCEPT !.status = "CANCELED"] \in AttemptRows
    BY DEF AttemptRows, AttemptStatuses
  <2>3. attempts' \in [Attempts -> AttemptRows]
    BY <1>7, <2>1, <2>2 DEF Confirm
  <2> QED
    BY <2>3 DEF Reconcile
<1> QED
  BY <1>1, <1>2, <1>4, <1>5, <1>6, <1>7 DEF Reconcile

LEMMA NextType ==
    ASSUME PaymentsInv, [Next]_vars
    PROVE  TypeOK'
<1> USE DEF TypeOK, PaymentsTypeOK, PaymentsInv
<1>0. OrdersTypeOK'
  BY NextSimulates, OrdersNextType
<1> SUFFICES PaymentsTypeOK'
  BY <1>0
<1>1. CASE PassTime
  BY <1>1 DEF PassTime
<1>2. CASE MemberStep
  BY <1>2 DEF MemberStep, paymentVars
<1>3. CASE ShopStep
  BY <1>3 DEF ShopStep, paymentVars
<1>4. CASE CheckoutStep
  BY <1>4, CheckoutType
<1>5. CASE ProviderStep
  BY <1>5, ProviderEffect, ProviderKeepsOrders
<1>6. ASSUME NEW e \in sent, Reconcile(e, clock) PROVE PaymentsTypeOK'
  BY <1>6, ReconcileType
<1>7. ASSUME NEW e \in sent, WaitForLocks(e) PROVE PaymentsTypeOK'
  BY <1>7 DEF WaitForLocks, OrdersTypeOK
<1>8. ASSUME NEW w \in waiting, Reconcile(w.event, w.now) PROVE PaymentsTypeOK'
  <2>1. w.event \in Notifications
    OBVIOUS
  <2> QED
    BY <1>8, <2>1, ReconcileType
<1>9. ASSUME NEW a \in Attempts, FinancialIncident(a) PROVE PaymentsTypeOK'
  BY <1>9 DEF FinancialIncident, paymentVars
<1>10. CASE UNCHANGED vars
  BY <1>10 DEF vars, paymentVars
<1> QED
  BY <1>1, <1>2, <1>3, <1>4, <1>5, <1>6, <1>7, <1>8, <1>9, <1>10 DEF Next, ReconcileStep

-----------------------------------------------------------------------------
(* Rows and notifications.                                                     *)

\* A reconciliation changes the status and paidAt of existing attempts, no more.
LEMMA ReconcileKeepsRows ==
    ASSUME PaymentsInv, NEW e \in sent, NEW now, Reconcile(e, now), NEW b \in Attempts
    PROVE  /\ attempts'[b].order = attempts[b].order
           /\ attempts'[b].session = attempts[b].session
           /\ attempts'[b].provider = attempts[b].provider
           /\ attempts[b].order = NoOrder => attempts'[b] = attempts[b]
           /\ attempts[b].status # "NONE" => attempts'[b].status # "NONE"
<1> DEFINE Kept ==
           /\ attempts'[b].order = attempts[b].order
           /\ attempts'[b].session = attempts[b].session
           /\ attempts'[b].provider = attempts[b].provider
           /\ attempts[b].order = NoOrder => attempts'[b] = attempts[b]
           /\ attempts[b].status # "NONE" => attempts'[b].status # "NONE"
<1> USE DEF PaymentsInv, TypeOK, PaymentsTypeOK, AttemptRows
<1>0. e.attempt \in Attempts /\ attempts[e.attempt].order # NoOrder /\ e.status # "NONE"
  BY DEF NoticesAgree, Notifications
<1>1. CASE ReviewLoser(e, now)
  BY <1>0, <1>1, ZenonT(40) DEF ReviewLoser, UnderReview, SameProvider, Siblings, AttemptsOf
<1>2. CASE ReviewCapture(e, now)
  BY <1>0, <1>2 DEF ReviewCapture, AsWinner
<1>3. CASE RecordPending(e, now)
  BY <1>0, <1>3 DEF RecordPending, SetInProgress
<1>4. CASE RecordFailure(e, now)
  BY <1>0, <1>4 DEF RecordFailure, SetInProgress
<1>5. CASE RecordReceipt(e, now)
  BY <1>5 DEF RecordReceipt
<1>6. CASE Confirm(e, now)
  BY <1>0, <1>6 DEF Confirm, AsWinner, Siblings, AttemptsOf
<1> QED
  BY <1>1, <1>2, <1>3, <1>4, <1>5, <1>6 DEF Reconcile

LEMMA ReconcileRows ==
    ASSUME PaymentsInv, [OrdersNext]_orderVars, NEW e \in sent, NEW now, Reconcile(e, now)
    PROVE  RowsAgree'
<1>1. \A b \in Attempts :
        /\ attempts'[b].order = attempts[b].order
        /\ attempts'[b].session = attempts[b].session
        /\ attempts[b].order = NoOrder => attempts'[b] = attempts[b]
        /\ attempts[b].status # "NONE" => attempts'[b].status # "NONE"
  BY ReconcileKeepsRows
<1>2. UNCHANGED <<checkout, captures, gateway>>
  BY DEF Reconcile
<1>3. ASSUME NEW b \in Attempts, attempts[b].order # NoOrder
      PROVE  /\ orders'[attempts[b].order].status # "NONE"
             /\ orders'[attempts[b].order].terms
  BY <1>3, OwnerExists, OrdersLast DEF PaymentsInv, TypeOK, RowsAgree
<1> QED
  BY <1>1, <1>2, <1>3 DEF RowsAgree, PaymentsInv

LEMMA NextRows ==
    ASSUME PaymentsInv, [Next]_vars
    PROVE  RowsAgree'
<1>0. [OrdersNext]_orderVars
  BY NextSimulates
<1>1. ASSUME NEW b \in Attempts, attempts[b].order # NoOrder
      PROVE  /\ orders'[attempts[b].order].status # "NONE"
             /\ orders'[attempts[b].order].terms
  BY <1>0, <1>1, OwnerExists, OrdersLast DEF PaymentsInv, TypeOK, RowsAgree
<1> USE DEF PaymentsInv, TypeOK, PaymentsTypeOK, RowsAgree
<1>2. CASE PassTime
  BY <1>1, <1>2 DEF PassTime
<1>3. CASE MemberStep
  BY <1>1, <1>3 DEF MemberStep, paymentVars
<1>4. CASE ShopStep
  BY <1>1, <1>4 DEF ShopStep, paymentVars
<1>5. ASSUME NEW a \in Attempts, NEW o \in Orders, NEW provider \in Providers,
             NEW now \in ReadInstants, StartAttempt(a, o, provider, now)
      PROVE  RowsAgree'
  <2>1. orders'[o].status # "NONE" /\ orders'[o].terms
    BY <1>5 DEF StartAttempt, MayReserve, AcceptTerms, Payable, OrdersTypeOK, OrderRows
  <2>2. attempts'[a].order = o /\ attempts'[a].status = "CREATED"
    BY <1>5 DEF StartAttempt, AbsentAttempt
  <2> QED
    BY <1>1, <1>5, <2>1, <2>2, AttemptsAssumption DEF StartAttempt
<1>6. ASSUME NEW a \in Attempts, NEW now \in ReadInstants, ResumeAttempt(a, now)
      PROVE  RowsAgree'
  BY <1>1, <1>6 DEF ResumeAttempt, InProgress
<1>7. ASSUME NEW a \in Attempts, ObtainSession(a) PROVE RowsAgree'
  BY <1>1, <1>7 DEF ObtainSession
<1>8. ASSUME NEW a \in Attempts, ReadForSession(a) PROVE RowsAgree'
  BY <1>1, <1>8 DEF ReadForSession
<1>9. ASSUME NEW a \in Attempts, WriteSession(a) PROVE RowsAgree'
  <2>1. attempts[a].order # NoOrder
    BY <1>9 DEF WriteSession, Reading, AttemptStatuses
  <2>2. attempts'[a].order = attempts[a].order /\ attempts'[a].status # "NONE"
    <3>1. attempts[a] \in AttemptRows /\ attempts[a].status # "NONE"
      BY <2>1
    <3>2. attempts'[a] = [attempts[a] EXCEPT !.session = TRUE,
                !.status = IF checkout[a] \in InProgress THEN "PENDING" ELSE attempts[a].status]
      BY <1>9, WriteSessionEffect
    <3> QED
      BY <3>1, <3>2 DEF AttemptRows
  <2> QED
    BY <1>1, <1>9, <2>1, <2>2, WriteSessionEffect, ZenonT(40) DEF WriteSession
<1>10. ASSUME NEW a \in Attempts, RetryRecordSession(a) PROVE RowsAgree'
  BY <1>1, <1>10 DEF RetryRecordSession, Reading, AttemptStatuses
<1>11. ASSUME NEW a \in Attempts, AbandonCheckout(a) PROVE RowsAgree'
  BY <1>1, <1>11 DEF AbandonCheckout
<1>12. ASSUME NEW a \in Attempts, ReservePaypalCapture(a) PROVE RowsAgree'
  BY <1>1, <1>12 DEF ReservePaypalCapture, InProgress
<1>13. CASE ProviderStep
  BY <1>1, <1>13, ProviderEffect, ProviderKeepsOrders
<1>14. ASSUME NEW e \in sent, WaitForLocks(e) PROVE RowsAgree'
  BY <1>1, <1>14 DEF WaitForLocks
<1>15. ASSUME NEW a \in Attempts, FinancialIncident(a) PROVE RowsAgree'
  BY <1>1, <1>15 DEF FinancialIncident, paymentVars
<1>16. CASE UNCHANGED vars
  BY <1>1, <1>16 DEF vars, paymentVars
<1> HIDE DEF PaymentsInv, TypeOK, PaymentsTypeOK, RowsAgree
<1>17. ASSUME NEW e \in sent, Reconcile(e, clock) PROVE RowsAgree'
  BY <1>0, <1>17, ReconcileRows
<1>18. ASSUME NEW w \in waiting, Reconcile(w.event, w.now) PROVE RowsAgree'
  BY <1>0, <1>18, ReconcileRows DEF PaymentsInv, NoticesAgree
<1> QED
  BY <1>2, <1>3, <1>4, <1>5, <1>6, <1>7, <1>8, <1>9, <1>10, <1>11, <1>12, <1>13, <1>14,
     <1>15, <1>16, <1>17, <1>18 DEF Next, CheckoutStep, ReconcileStep

\* An attempt belongs to its order and its provider for ever.
LEMMA OwnerStays ==
    ASSUME PaymentsInv, [Next]_vars, NEW b \in Attempts, attempts[b].order # NoOrder
    PROVE  /\ attempts'[b].order = attempts[b].order
           /\ attempts'[b].provider = attempts[b].provider
<1> DEFINE Stays == /\ attempts'[b].order = attempts[b].order
                    /\ attempts'[b].provider = attempts[b].provider
<1>1. CASE UNCHANGED attempts
  BY <1>1
<1>2. ASSUME NEW a \in Attempts, NEW o \in Orders, NEW provider \in Providers,
             NEW now \in ReadInstants, StartAttempt(a, o, provider, now)
      PROVE  Stays
  <2>1. a # b
    BY <1>2 DEF StartAttempt, PaymentsInv, RowsAgree
  <2> QED
    BY <1>2, <2>1 DEF StartAttempt, PaymentsInv, TypeOK, PaymentsTypeOK
<1>3. ASSUME NEW a \in Attempts, WriteSession(a) PROVE Stays
  <2>1. attempts'[a] = [attempts[a] EXCEPT !.session = TRUE,
                !.status = IF checkout[a] \in InProgress THEN "PENDING" ELSE attempts[a].status]
        /\ \A c \in Attempts \ {a} : attempts'[c] = attempts[c]
    BY <1>3, WriteSessionEffect DEF PaymentsInv, TypeOK, PaymentsTypeOK
  <2>2. attempts[a] \in AttemptRows
    BY DEF PaymentsInv, TypeOK, PaymentsTypeOK
  <2> QED
    BY <2>1, <2>2, ZenonT(40) DEF AttemptRows
<1>4. ASSUME NEW e \in sent, NEW now, Reconcile(e, now) PROVE Stays
  BY <1>4, ReconcileKeepsRows
<1>5. \A w \in waiting : w.event \in sent
  BY DEF PaymentsInv, NoticesAgree
<1>6. \/ UNCHANGED attempts
      \/ \E a \in Attempts, o \in Orders, provider \in Providers, now \in ReadInstants :
            StartAttempt(a, o, provider, now)
      \/ \E a \in Attempts : WriteSession(a)
      \/ \E e \in sent : Reconcile(e, clock)
      \/ \E w \in waiting : Reconcile(w.event, w.now)
  BY ProviderKeepsOrders
  DEF Next, vars, paymentVars, PassTime, MemberStep, ShopStep, CheckoutStep, ResumeAttempt,
      ObtainSession, ReadForSession, RetryRecordSession, AbandonCheckout, ReservePaypalCapture,
      ReconcileStep, WaitForLocks, FinancialIncident
<1> QED
  BY <1>1, <1>2, <1>3, <1>4, <1>5, <1>6

\* A reading that is recent enough stays so until the next tick of the clock.
LEMMA NextNotices ==
    ASSUME PaymentsInv, [Next]_vars
    PROVE  NoticesAgree'
<1>1. \A b \in Attempts : attempts[b].order # NoOrder => attempts'[b].order # NoOrder
  BY OwnerStays
<1> USE DEF NoticesAgree
<1>2. \A e \in sent : e.attempt \in Attempts
  BY DEF PaymentsInv, TypeOK, PaymentsTypeOK, Notifications
<1>3. CASE sent' = sent /\ receipts' = receipts /\ waiting' = waiting /\ clock' = clock
  BY <1>1, <1>2, <1>3 DEF PaymentsInv, ReadInstants
<1>4. CASE PassTime
  <2>1. \A w \in waiting' : w \in waiting /\ w.now + LockWait >= clock' /\ w.now \in 0..clock
    BY <1>4 DEF PassTime, PaymentsInv, ReadInstants
  <2>2. \A w \in waiting' : w.now \in ReadInstants'
    BY <1>4, <2>1, TimeAssumption DEF PassTime, Tick, PaymentsInv, TypeOK, OrdersTypeOK, ReadInstants
  <2> QED
    BY <1>1, <1>2, <1>4, <2>1, <2>2 DEF PassTime, PaymentsInv
<1>5. CASE ProviderStep
  <2>1. PICK a \in Attempts :
            /\ gateway[a] # "NONE"
            /\ sent \subseteq sent'
            /\ sent' \ sent \subseteq {e \in Notifications : e.attempt = a}
    BY <1>5, ProviderEffect
  <2>2. attempts[a].order # NoOrder
    BY <2>1 DEF PaymentsInv, RowsAgree
  <2>3. \A e \in sent' : e \in sent \/ e.attempt = a
    BY <2>1
  <2>4. UNCHANGED <<clock, receipts, waiting, attempts>>
    BY <1>5, ProviderKeepsOrders DEF orderVars
  <2> QED
    BY <2>1, <2>2, <2>3, <2>4 DEF PaymentsInv, ReadInstants
<1>6. ASSUME NEW e \in sent, WaitForLocks(e) PROVE NoticesAgree'
  <2>1. clock \in ReadInstants /\ clock' = clock
    BY <1>6, ClockIsRead DEF WaitForLocks, PaymentsInv, orderVars
  <2> QED
    BY <1>1, <1>2, <1>6, <2>1 DEF WaitForLocks, PaymentsInv, ReadInstants
<1>7. ASSUME NEW e \in sent, NEW now, Reconcile(e, now) PROVE NoticesAgree'
  <2>1. clock' = clock
    BY <1>7 DEF Reconcile, ReviewLoser, ReviewCapture, RecordPending, RecordFailure,
                RecordReceipt, Confirm, HoldOrder, ConfirmSale, orderVars
  <2> QED
    BY <1>1, <1>2, <1>7, <2>1 DEF Reconcile, PaymentsInv, ReadInstants
<1>8. \/ sent' = sent /\ receipts' = receipts /\ waiting' = waiting /\ clock' = clock
      \/ PassTime \/ ProviderStep \/ ReconcileStep
  BY ZenonT(40) DEF Next, vars, paymentVars, orderVars, MemberStep, ShopStep, CheckoutStep, CreateOrder,
         CancelOrder, ExpireReservations, SetStock, StartAttempt, MayReserve, AcceptTerms,
         ResumeAttempt, ObtainSession, ReadForSession, WriteSession, RetryRecordSession,
         AbandonCheckout, ReservePaypalCapture
<1>9. ASSUME NEW a \in Attempts, FinancialIncident(a) PROVE NoticesAgree'
  BY <1>3, <1>9 DEF FinancialIncident, HoldOrder, paymentVars
<1>10. CASE ReconcileStep
  BY <1>6, <1>7, <1>9, <1>10 DEF ReconcileStep, PaymentsInv
<1> QED
  BY <1>3, <1>4, <1>5, <1>8, <1>10

LEMMA PaymentsInitInv == Init => PaymentsInv
BY PaymentsInitType
DEF Init, PaymentsInv, RowsAgree, NoticesAgree, AbsentAttempt

LEMMA PaymentsNextInv == PaymentsInv /\ [Next]_vars => PaymentsInv'
BY NextType, NextRows, NextNotices DEF PaymentsInv

\* Every variable of orders and payments keeps its type.
THEOREM PaymentsTypeCorrect == Spec => []TypeOK
<1>1. PaymentsInv => TypeOK
  BY DEF PaymentsInv
<1> QED
  BY <1>1, PaymentsInitInv, PaymentsNextInv, PTL DEF Spec

\* Checkouts, captures, notifications and reviews change the orders and the stock only
\* as the orders' own specification allows, with readings of at most LockWait ticks.
THEOREM PaymentsImplementOrders == Spec => ImplementsOrders
<1>1. Init => OrdersInit
  BY DEF Init
<1>2. PaymentsInv /\ [Next]_vars => [OrdersNext]_orderVars
  BY NextSimulates
<1> QED
  BY <1>1, <1>2, PaymentsInitInv, PaymentsNextInv, PTL DEF Spec, ImplementsOrders, OrdersSpec

\* Hence what was proved of the orders holds under every payment: goods follow money,
\* and no notification, however late, reopens an order that is closed, sold or held.
THEOREM PaymentsKeepGoods == Spec => []StockFollowsPayment /\ ClosedForGood
BY PaymentsImplementOrders, GoodsFollowMoney, ClosedOrdersStay, PTL DEF ImplementsOrders

-----------------------------------------------------------------------------
(* What becomes of money.                                                      *)

(* Paid evidence, reviews and winners agree.  The last conjunct of the first     *)
(* part is what makes the revival of WriteSession harmless: an attempt that a    *)
(* checkout request read as in progress cannot be paid before it is written.     *)
AttemptsAgree ==
    \A a \in Attempts :
        /\ attempts[a].status = "SUCCEEDED" => attempts[a].paid
        /\ attempts[a].paid =>
            orders[attempts[a].order].pay = "PAID" \/ orders[attempts[a].order].review
        /\ attempts[a].status = "REQUIRES_REVIEW" => orders[attempts[a].order].review
        /\ attempts[a].status \in InProgress => ~attempts[a].paid
        /\ checkout[a] \in InProgress => ~attempts[a].paid

ReceiptsPaid == \A e \in receipts : e.status = "SUCCEEDED" => attempts[e.attempt].paid

MoneyAgrees ==
    AttemptsAgree /\ ReceiptsPaid /\ OneWinnerPerOrder /\ OneActivePerProvider /\ PaidOrderBacked

MoneyInv == PaymentsInv /\ OrdersInv /\ MoneyAgrees

\* What each branch of the plan has established.
LEMMA PlanMeans ==
    ASSUME NEW e \in Notifications, NEW now
    PROVE  /\ Plan(e, now) \in {"REVIEW_CAPTURE", "CONFIRM"} =>
                /\ e.status = "SUCCEEDED"
                /\ attempts[e.attempt].status # "SUCCEEDED"
                /\ ~orders[attempts[e.attempt].order].review
                /\ \A b \in Siblings(e.attempt) : ~Winner(b)
           /\ Plan(e, now) = "CONFIRM" => attempts[e.attempt].status # "REQUIRES_REVIEW"
           /\ Plan(e, now) = "RECORD_PENDING" => e.status = "PENDING"
           /\ Plan(e, now) = "RECORD_FAILURE" =>
                e.status \in {"FAILED", "EXPIRED"} /\ ~Winner(e.attempt)
           /\ Plan(e, now) = "IGNORE_TERMINAL_FAILURE" => e.status # "SUCCEEDED"
           /\ Plan(e, now) = "REPLAY_SUCCESS" => attempts[e.attempt].status = "SUCCEEDED"
<1>1. CASE Mismatch(e)
  BY <1>1 DEF Plan
<1>2. CASE ~Mismatch(e) /\ e.status = "PENDING"
  BY <1>2 DEF Plan
<1>3. CASE ~Mismatch(e) /\ e.status \in {"FAILED", "EXPIRED"}
  BY <1>3 DEF Plan
<1>4. CASE ~Mismatch(e) /\ e.status = "SUCCEEDED"
  BY <1>4 DEF Plan
<1> QED
  BY <1>1, <1>2, <1>3, <1>4 DEF Notifications

\* The order of a paid or reviewed attempt stays paid or reviewed.
LEMMA SettledStays ==
    ASSUME MoneyInv, [Next]_vars, NEW o \in Orders
    PROVE  /\ orders[o].pay = "PAID" => orders'[o].pay = "PAID"
           /\ orders[o].review => orders'[o].review
BY NextSimulates, StepStaysClosed DEF MoneyInv, StaysClosed

\* Steps that neither sell an order nor write an attempt.
LEMMA QuietStep ==
    ASSUME MoneyInv, [Next]_vars, UNCHANGED <<attempts, receipts>>,
           \A o \in Orders : orders'[o].pay = "PAID" => orders[o].pay = "PAID",
           \A a \in Attempts : checkout'[a] \in InProgress =>
                checkout[a] \in InProgress \/ attempts[a].status \in InProgress
    PROVE  MoneyAgrees'
<1>1. \A o \in Orders : /\ orders[o].pay = "PAID" => orders'[o].pay = "PAID"
                        /\ orders[o].review => orders'[o].review
  BY SettledStays
<1>2. \A a \in Attempts : attempts[a].order # NoOrder => attempts[a].order \in Orders
  BY OwnerExists DEF MoneyInv
<1>3. \A a \in Attempts : attempts[a].order = NoOrder =>
        ~attempts[a].paid /\ attempts[a].status = "NONE"
  BY DEF MoneyInv, PaymentsInv, RowsAgree
<1>4. AttemptsAgree'
  BY <1>1, <1>2, <1>3 DEF MoneyInv, MoneyAgrees, AttemptsAgree
<1>5. ReceiptsPaid' /\ OneWinnerPerOrder' /\ OneActivePerProvider'
  BY DEF MoneyInv, MoneyAgrees, ReceiptsPaid, OneWinnerPerOrder, OneActivePerProvider,
         SameProvider, Siblings, AttemptsOf
<1>6. PaidOrderBacked'
  BY <1>1 DEF MoneyInv, MoneyAgrees, PaidOrderBacked, Siblings, AttemptsOf, Winner
<1> QED
  BY <1>4, <1>5, <1>6 DEF MoneyAgrees

\* Only ConfirmSale makes an order PAID.
LEMMA UnsoldStays ==
    ASSUME OrdersTypeOK, NEW x \in Orders,
           \/ \E basket \in Baskets, now \in ReadInstants : CreateOrder(x, basket, now)
           \/ CancelOrder(x)
           \/ \E now \in ReadInstants : AcceptTerms(x, now)
           \/ HoldOrder(x),
           NEW o \in Orders, orders'[o].pay = "PAID"
    PROVE  orders[o].pay = "PAID"
<1> USE DEF OrdersTypeOK, OrderRows
<1>1. ASSUME NEW basket, NEW now, CreateOrder(x, basket, now) PROVE orders[o].pay = "PAID"
  BY <1>1 DEF CreateOrder, AbsentOrder
<1>2. CASE CancelOrder(x)
  BY <1>2 DEF CancelOrder
<1>3. ASSUME NEW now, AcceptTerms(x, now) PROVE orders[o].pay = "PAID"
  BY <1>3 DEF AcceptTerms
<1>4. CASE HoldOrder(x)
  BY <1>4 DEF HoldOrder
<1> QED
  BY <1>1, <1>2, <1>3, <1>4

LEMMA UnsoldByJobs ==
    ASSUME OrdersTypeOK, NEW o \in Orders, orders'[o].pay = "PAID",
           \/ Tick
           \/ \E batch \in SUBSET Orders : ExpireReservations(batch)
           \/ \E p \in Products, units \in 0..MaxStock : SetStock(p, units)
    PROVE  orders[o].pay = "PAID"
<1>1. ASSUME NEW batch \in SUBSET Orders, ExpireReservations(batch) PROVE orders[o].pay = "PAID"
  BY <1>1 DEF ExpireReservations, OrdersTypeOK, OrderRows
<1> QED
  BY <1>1 DEF Tick, SetStock

\* Steps that change statuses but neither a winner, paidAt nor a sale.
LEMMA WinnersStay ==
    ASSUME MoneyInv, [Next]_vars,
           \A o \in Orders : orders'[o].pay = "PAID" => orders[o].pay = "PAID",
           \A b \in Attempts :
                /\ attempts'[b].order = attempts[b].order
                /\ attempts'[b].paid = attempts[b].paid
                /\ \/ attempts'[b].status = attempts[b].status
                   \/ ~attempts[b].paid /\ attempts'[b].status # "SUCCEEDED"
    PROVE  OneWinnerPerOrder' /\ PaidOrderBacked'
<1>1. \A o \in Orders : orders[o].review => orders'[o].review
  BY SettledStays
<1>2. OneWinnerPerOrder'
  BY DEF MoneyInv, MoneyAgrees, OneWinnerPerOrder
<1>3. ASSUME NEW o \in Orders, orders'[o].pay = "PAID", ~orders'[o].review
      PROVE  \E a \in AttemptsOf(o)' :
                /\ attempts'[a].status = "SUCCEEDED" /\ attempts'[a].paid
                /\ \A b \in Siblings(a)' : ~Winner(b)'
  <2>1. PICK a \in AttemptsOf(o) :
            /\ attempts[a].status = "SUCCEEDED" /\ attempts[a].paid
            /\ \A b \in Siblings(a) : ~Winner(b)
    BY <1>1, <1>3 DEF MoneyInv, MoneyAgrees, PaidOrderBacked
  <2>2. a \in AttemptsOf(o)' /\ attempts'[a].status = "SUCCEEDED" /\ attempts'[a].paid
    BY <2>1 DEF AttemptsOf
  <2>3. \A b \in Siblings(a)' : b \in Siblings(a) /\ b \in Attempts
    BY <2>1 DEF Siblings, AttemptsOf
  <2>4. \A b \in Siblings(a)' : ~Winner(b)'
    BY <2>1, <2>3 DEF Winner
  <2> QED
    BY <2>2, <2>4
<1> QED
  BY <1>2, <1>3 DEF PaidOrderBacked

-----------------------------------------------------------------------------
(* The steps of a checkout request.                                            *)

LEMMA StartAttemptMoney ==
    ASSUME MoneyInv, [Next]_vars, NEW a \in Attempts, NEW o \in Orders,
           NEW provider \in Providers, NEW now \in ReadInstants, StartAttempt(a, o, provider, now)
    PROVE  MoneyAgrees'
<1>1. /\ attempts'[a] = [AbsentAttempt EXCEPT !.order = o, !.provider = provider, !.status = "CREATED"]
      /\ \A b \in Attempts \ {a} : attempts'[b] = attempts[b]
      /\ checkout'[a] = "RESERVED"
      /\ \A b \in Attempts \ {a} : checkout'[b] = checkout[b]
      /\ receipts' = receipts
  BY DEF StartAttempt, MoneyInv, PaymentsInv, TypeOK, PaymentsTypeOK
<1>2. /\ attempts'[a].order = o /\ attempts'[a].provider = provider
      /\ attempts'[a].status = "CREATED" /\ ~attempts'[a].paid
  BY <1>1 DEF AbsentAttempt
<1>3. attempts[a].order = NoOrder /\ ~attempts[a].paid /\ attempts[a].status = "NONE"
  BY DEF StartAttempt, MoneyInv, PaymentsInv, RowsAgree
<1>4. Payable(o) /\ \A b \in AttemptsOf(o) : attempts[b].status # "SUCCEEDED"
  BY DEF StartAttempt, MayReserve, AcceptTerms
<1>5. \A x \in Orders : orders'[x].pay = "PAID" => orders[x].pay = "PAID"
  <2>1. AcceptTerms(o, now)
    BY DEF StartAttempt, MayReserve
  <2> QED
    BY <2>1, UnsoldStays DEF MoneyInv, OrdersInv
<1>6. \A x \in Orders : /\ orders[x].pay = "PAID" => orders'[x].pay = "PAID"
                        /\ orders[x].review => orders'[x].review
  BY SettledStays
<1>7. \A b \in Attempts : attempts[b].order # NoOrder => attempts[b].order \in Orders
  BY OwnerExists DEF MoneyInv
<1>8. \A b \in Attempts : attempts[b].order = NoOrder =>
        ~attempts[b].paid /\ attempts[b].status = "NONE"
  BY DEF MoneyInv, PaymentsInv, RowsAgree
<1>9. AttemptsAgree'
  BY <1>1, <1>2, <1>6, <1>7, <1>8 DEF MoneyInv, MoneyAgrees, AttemptsAgree, InProgress
<1>10. ReceiptsPaid'
  <2>1. \A e \in receipts : e.attempt \in Attempts
    BY DEF MoneyInv, PaymentsInv, TypeOK, PaymentsTypeOK, Notifications
  <2> QED
    BY <1>1, <1>3, <2>1 DEF MoneyInv, MoneyAgrees, ReceiptsPaid
<1>11. OneWinnerPerOrder'
  <2>1. \A b \in Attempts : attempts'[b].status = "SUCCEEDED" => attempts'[b] = attempts[b]
    BY <1>1, <1>2
  <2> QED
    BY <2>1 DEF MoneyInv, MoneyAgrees, OneWinnerPerOrder
<1>12. OneActivePerProvider'
  <2>1. \A b \in AttemptsOf(o) : attempts[b].provider = provider => attempts[b].status \notin Active
    BY <1>4 DEF StartAttempt, Active, Payable, MoneyInv, MoneyAgrees, AttemptsAgree, AttemptsOf
  <2> QED
    BY <1>1, <1>2, <2>1 DEF MoneyInv, MoneyAgrees, OneActivePerProvider, SameProvider, Siblings, AttemptsOf
<1>13. PaidOrderBacked'
  <2> SUFFICES ASSUME NEW x \in Orders, orders'[x].pay = "PAID", ~orders'[x].review
               PROVE  \E c \in AttemptsOf(x)' :
                        /\ attempts'[c].status = "SUCCEEDED" /\ attempts'[c].paid
                        /\ \A b \in Siblings(c)' : ~Winner(b)'
    BY DEF PaidOrderBacked
  <2>1. x # o
    BY <1>4, <1>5 DEF Payable
  <2>2. PICK c \in AttemptsOf(x) :
            /\ attempts[c].status = "SUCCEEDED" /\ attempts[c].paid
            /\ \A b \in Siblings(c) : ~Winner(b)
    BY <1>5, <1>6 DEF MoneyInv, MoneyAgrees, PaidOrderBacked
  <2>3. c # a /\ c \in AttemptsOf(x)' /\ attempts'[c] = attempts[c]
    BY <1>1, <1>3, <2>2 DEF AttemptsOf
  <2>4. \A b \in Siblings(c)' : b \in Siblings(c) /\ attempts'[b] = attempts[b]
    BY <1>1, <1>2, <2>1, <2>2, <2>3 DEF Siblings, AttemptsOf
  <2> QED
    BY <2>2, <2>3, <2>4 DEF Winner
<1> QED
  BY <1>9, <1>10, <1>11, <1>12, <1>13 DEF MoneyAgrees

\* The write of a checkout request revives an unpaid attempt, or only adds the session.
LEMMA WriteSessionMoney ==
    ASSUME MoneyInv, [Next]_vars, NEW a \in Attempts, WriteSession(a)
    PROVE  MoneyAgrees'
<1>1. /\ attempts'[a] = [attempts[a] EXCEPT !.session = TRUE,
                !.status = IF checkout[a] \in InProgress THEN "PENDING" ELSE attempts[a].status]
      /\ \A b \in Attempts \ {a} : attempts'[b] = attempts[b]
  BY WriteSessionEffect DEF MoneyInv, PaymentsInv, TypeOK, PaymentsTypeOK
<1>2. attempts[a] \in AttemptRows
  BY DEF MoneyInv, PaymentsInv, TypeOK, PaymentsTypeOK
<1>3. /\ attempts'[a].order = attempts[a].order
      /\ attempts'[a].provider = attempts[a].provider
      /\ attempts'[a].paid = attempts[a].paid
      /\ attempts'[a].status = IF checkout[a] \in InProgress THEN "PENDING" ELSE attempts[a].status
  BY <1>1, <1>2 DEF AttemptRows
<1>4. /\ checkout'[a] = "IDLE" /\ receipts' = receipts /\ orders' = orders
      /\ \A b \in Attempts \ {a} : checkout'[b] = checkout[b]
  BY DEF WriteSession, MoneyInv, PaymentsInv, TypeOK, PaymentsTypeOK, orderVars
<1>5. checkout[a] \in InProgress => ~attempts[a].paid
  BY DEF MoneyInv, MoneyAgrees, AttemptsAgree
<1>6. \A b \in Attempts :
        /\ attempts'[b].order = attempts[b].order
        /\ attempts'[b].provider = attempts[b].provider
        /\ attempts'[b].paid = attempts[b].paid
        /\ \/ attempts'[b].status = attempts[b].status
           \/ ~attempts[b].paid /\ attempts'[b].status = "PENDING"
  BY <1>1, <1>3, <1>5
<1>7. OneWinnerPerOrder' /\ PaidOrderBacked'
  BY <1>4, <1>6, WinnersStay
<1>8. AttemptsAgree'
  BY <1>4, <1>6 DEF MoneyInv, MoneyAgrees, AttemptsAgree, InProgress
<1>9. ReceiptsPaid'
  BY <1>4, <1>6 DEF MoneyInv, MoneyAgrees, ReceiptsPaid, PaymentsInv, TypeOK, PaymentsTypeOK, Notifications
<1>10. OneActivePerProvider'
  <2>1. \A b, c \in Attempts :
            b # c /\ attempts[b].order = attempts[c].order
                  /\ attempts[b].provider = attempts[c].provider
            => ~(attempts[b].status \in Active /\ attempts[c].status \in Active)
    BY DEF MoneyInv, MoneyAgrees, OneActivePerProvider, SameProvider, Siblings, AttemptsOf
  <2>2. checkout[a] \in InProgress => \A b \in Attempts :
            b # a /\ attempts[b].order = attempts[a].order
                  /\ attempts[b].provider = attempts[a].provider
            => attempts[b].status \notin Active
    BY DEF WriteSession, RevivalConflict, SameProvider, Siblings, AttemptsOf
  <2>3. \A b, c \in Attempts :
            b # c /\ attempts'[b].order = attempts'[c].order
                  /\ attempts'[b].provider = attempts'[c].provider
            => ~(attempts'[b].status \in Active /\ attempts'[c].status \in Active)
    <3>1. CASE checkout[a] \in InProgress
      BY <1>1, <1>6, <2>1, <2>2, <3>1
    <3>2. CASE checkout[a] \notin InProgress
      <4>1. \A b \in Attempts : attempts'[b].status = attempts[b].status
        BY <1>1, <1>3, <3>2
      <4> QED
        BY <1>6, <2>1, <4>1
    <3> QED
      BY <3>1, <3>2
  <2> QED
    BY <2>3 DEF OneActivePerProvider, SameProvider, Siblings, AttemptsOf
<1> QED
  BY <1>7, <1>8, <1>9, <1>10 DEF MoneyAgrees

-----------------------------------------------------------------------------
(* The steps of a reconciliation.                                              *)

\* What every reconciliation finds: an attempt that exists, whose checkout request has
\* not read its status.
LEMMA ReconcileFinds ==
    ASSUME MoneyInv, NEW e \in sent, NEW now, Reconcile(e, now)
    PROVE  /\ e \in Notifications /\ e.attempt \in Attempts
           /\ attempts[e.attempt].order \in Orders
           /\ checkout[e.attempt] \notin InProgress
           /\ receipts' = receipts \cup {e}
           /\ checkout' = checkout
<1>1. e \in Notifications /\ e.attempt \in Attempts
  BY DEF MoneyInv, PaymentsInv, TypeOK, PaymentsTypeOK, Notifications
<1>2. attempts[e.attempt].order \in Orders
  BY <1>1, OwnerExists DEF MoneyInv, PaymentsInv, NoticesAgree
<1> QED
  BY <1>1, <1>2 DEF Reconcile, Reading, InProgress, AttemptStatuses

\* A receipt is written in the transaction that records the payment.
LEMMA ReceiptMoney ==
    ASSUME MoneyInv, NEW e \in sent, NEW now, Reconcile(e, now),
           \A b \in Attempts : attempts[b].paid => attempts'[b].paid,
           e.status = "SUCCEEDED" => attempts'[e.attempt].paid
    PROVE  ReceiptsPaid'
<1>1. \A x \in receipts : x.attempt \in Attempts
  BY DEF MoneyInv, PaymentsInv, TypeOK, PaymentsTypeOK, Notifications
<1> QED
  BY <1>1, ReconcileFinds DEF MoneyInv, MoneyAgrees, ReceiptsPaid

\* One active attempt per provider, if no attempt becomes active.
LEMMA ActiveShrinks ==
    ASSUME MoneyInv,
           \A b \in Attempts :
                /\ attempts'[b].order = attempts[b].order
                /\ attempts'[b].provider = attempts[b].provider
                /\ attempts'[b].status \in Active => attempts[b].status \in Active
    PROVE  OneActivePerProvider'
BY DEF MoneyInv, MoneyAgrees, OneActivePerProvider, SameProvider, Siblings, AttemptsOf

\* PENDING, FAILED and EXPIRED touch only an attempt in progress, which is unpaid.
LEMMA ProgressMoney ==
    ASSUME MoneyInv, [Next]_vars, NEW e \in sent, NEW now, Reconcile(e, now),
           RecordPending(e, now) \/ RecordFailure(e, now)
    PROVE  MoneyAgrees'
<1>1. /\ e \in Notifications /\ e.attempt \in Attempts
      /\ checkout' = checkout
  BY ReconcileFinds
<1>2. orders' = orders
  BY DEF RecordPending, RecordFailure, orderVars
<1>3. e.status \in {"PENDING", "FAILED", "EXPIRED"}
  BY <1>1, PlanMeans DEF RecordPending, RecordFailure
<1>4. attempts' = SetInProgress(e.attempt, e.status)
  BY <1>1, PlanMeans DEF RecordPending, RecordFailure
<1>5. \A b \in Attempts :
        /\ attempts'[b].order = attempts[b].order
        /\ attempts'[b].provider = attempts[b].provider
        /\ attempts'[b].paid = attempts[b].paid
        /\ \/ attempts'[b].status = attempts[b].status
           \/ /\ attempts[b].status \in InProgress
              /\ ~attempts[b].paid
              /\ attempts'[b].status \in {"PENDING", "FAILED", "EXPIRED"}
  <2>1. \A b \in Attempts : attempts[b] \in AttemptRows
    BY DEF MoneyInv, PaymentsInv, TypeOK, PaymentsTypeOK
  <2>2. attempts \in [Attempts -> AttemptRows]
    BY DEF MoneyInv, PaymentsInv, TypeOK, PaymentsTypeOK
  <2>3. \A b \in Attempts : attempts[b].status \in InProgress => ~attempts[b].paid
    BY DEF MoneyInv, MoneyAgrees, AttemptsAgree
  <2> QED
    BY <1>1, <1>3, <1>4, <2>1, <2>2, <2>3 DEF SetInProgress, AttemptRows
<1>6. OneWinnerPerOrder' /\ PaidOrderBacked'
  BY <1>2, <1>5, WinnersStay
<1>7. AttemptsAgree'
  BY <1>1, <1>2, <1>5 DEF MoneyInv, MoneyAgrees, AttemptsAgree, InProgress
<1>8. ReceiptsPaid'
  BY <1>3, <1>5, ReceiptMoney
<1>9. OneActivePerProvider'
  BY <1>5, ActiveShrinks DEF Active
<1> QED
  BY <1>6, <1>7, <1>8, <1>9 DEF MoneyAgrees

\* A receipt without effect: a failure after a win, or a success told twice.
LEMMA RecordReceiptMoney ==
    ASSUME MoneyInv, [Next]_vars, NEW e \in sent, NEW now, Reconcile(e, now),
           RecordReceipt(e, now)
    PROVE  MoneyAgrees'
<1>1. e \in Notifications /\ e.attempt \in Attempts /\ checkout' = checkout
  BY ReconcileFinds
<1>2. attempts' = attempts /\ orders' = orders
  BY DEF RecordReceipt, orderVars
<1>3. e.status = "SUCCEEDED" => attempts'[e.attempt].paid
  BY <1>1, <1>2, PlanMeans DEF RecordReceipt, MoneyInv, MoneyAgrees, AttemptsAgree
<1>4. ReceiptsPaid'
  BY <1>2, <1>3, ReceiptMoney
<1>5. OneWinnerPerOrder' /\ PaidOrderBacked'
  BY <1>2, WinnersStay
<1>6. AttemptsAgree' /\ OneActivePerProvider'
  BY <1>1, <1>2, ActiveShrinks DEF MoneyInv, MoneyAgrees, AttemptsAgree
<1> QED
  BY <1>4, <1>5, <1>6 DEF MoneyAgrees

\* A step about one order leaves the sales of every other order as they are.
LEMMA OthersBacked ==
    ASSUME MoneyInv, [Next]_vars, NEW o \in Orders,
           \A x \in Orders \ {o} : orders'[x] = orders[x],
           \A b \in Attempts :
                /\ attempts'[b].order = attempts[b].order
                /\ attempts[b].order # o => attempts'[b] = attempts[b],
           orders'[o].pay = "PAID" /\ ~orders'[o].review =>
                \E a \in AttemptsOf(o)' :
                    /\ attempts'[a].status = "SUCCEEDED" /\ attempts'[a].paid
                    /\ \A b \in Siblings(a)' : ~Winner(b)'
    PROVE  PaidOrderBacked'
<1> SUFFICES ASSUME NEW x \in Orders \ {o}, orders'[x].pay = "PAID", ~orders'[x].review
             PROVE  \E c \in AttemptsOf(x)' :
                      /\ attempts'[c].status = "SUCCEEDED" /\ attempts'[c].paid
                      /\ \A b \in Siblings(c)' : ~Winner(b)'
  BY DEF PaidOrderBacked
<1>1. PICK c \in AttemptsOf(x) :
        /\ attempts[c].status = "SUCCEEDED" /\ attempts[c].paid
        /\ \A b \in Siblings(c) : ~Winner(b)
  BY DEF MoneyInv, MoneyAgrees, PaidOrderBacked
<1>2. c \in AttemptsOf(x)' /\ attempts'[c] = attempts[c]
  BY <1>1 DEF AttemptsOf
<1>3. \A b \in Siblings(c)' : b \in Siblings(c) /\ attempts'[b] = attempts[b]
  BY <1>1, <1>2 DEF Siblings, AttemptsOf
<1> QED
  BY <1>1, <1>2, <1>3 DEF Winner

\* What HoldOrder does, row by row.
LEMMA HoldOrderEffect ==
    ASSUME OrdersTypeOK, NEW o \in Orders, HoldOrder(o)
    PROVE  /\ orders'[o].review /\ orders'[o].pay = orders[o].pay
           /\ \A x \in Orders \ {o} : orders'[x] = orders[x]
BY DEF OrdersTypeOK, OrderRows, HoldOrder

\* What UnderReview does, row by row.
LEMMA UnderReviewEffect ==
    ASSUME MoneyInv, NEW a \in Attempts, NEW captured \in BOOLEAN,
           attempts' = UnderReview(a, captured)
    PROVE  /\ \A b \in Attempts :
                /\ attempts'[b].order = attempts[b].order
                /\ attempts'[b].provider = attempts[b].provider
                /\ b # a => /\ attempts'[b].paid = attempts[b].paid
                            /\ \/ attempts'[b] = attempts[b]
                               \/ /\ attempts'[b].status = "CANCELED"
                                  /\ attempts[b].order = attempts[a].order
                                  /\ ~attempts[b].paid
                /\ b \in SameProvider(a) /\ attempts'[b].status \in Active =>
                        /\ attempts'[b] = attempts[b] /\ attempts[b].paid
                        /\ attempts[b].status = "REQUIRES_REVIEW"
           /\ attempts'[a].paid = (attempts[a].paid \/ captured)
           /\ \/ attempts'[a].status = "REQUIRES_REVIEW"
                 /\ \A b \in SameProvider(a) :
                        ~(attempts[b].status = "REQUIRES_REVIEW" /\ attempts[b].paid)
              \/ attempts'[a].status = attempts[a].status
                 /\ attempts[a].status \notin Active
<1>1. \A b \in Attempts : attempts[b] \in AttemptRows
  BY DEF MoneyInv, PaymentsInv, TypeOK, PaymentsTypeOK
<1>2. a \notin SameProvider(a) /\ SameProvider(a) \subseteq Attempts
  BY DEF SameProvider, Siblings, AttemptsOf
<1>3. \A b \in SameProvider(a) :
        attempts[b].order = attempts[a].order /\ attempts[b].provider = attempts[a].provider
  BY DEF SameProvider, Siblings, AttemptsOf
<1> DEFINE slotTaken == \E b \in SameProvider(a) :
                        attempts[b].status = "REQUIRES_REVIEW" /\ attempts[b].paid
           closed(b) == b \in SameProvider(a) /\ attempts[b].status \in Active /\ ~attempts[b].paid
<1>4. attempts'[a] = [attempts[a] EXCEPT
            !.status = IF slotTaken THEN attempts[a].status ELSE "REQUIRES_REVIEW",
            !.paid = attempts[a].paid \/ captured]
  BY DEF UnderReview
<1>5. \A b \in Attempts \ {a} :
        attempts'[b] = IF closed(b) THEN [attempts[b] EXCEPT !.status = "CANCELED"] ELSE attempts[b]
  BY DEF UnderReview
<1>6. /\ attempts'[a].order = attempts[a].order
      /\ attempts'[a].provider = attempts[a].provider
      /\ attempts'[a].paid = (attempts[a].paid \/ captured)
      /\ attempts'[a].status = IF slotTaken THEN attempts[a].status ELSE "REQUIRES_REVIEW"
  <2> HIDE DEF slotTaken
  <2> QED
    BY <1>1, <1>4 DEF AttemptRows
<1>7. slotTaken => attempts[a].status \notin Active
  BY <1>2, <1>3 DEF MoneyInv, MoneyAgrees, OneActivePerProvider, SameProvider, Siblings, AttemptsOf, Active
<1>8. \A b \in Attempts \ {a} : closed(b) =>
        /\ attempts'[b].order = attempts[b].order
        /\ attempts'[b].provider = attempts[b].provider
        /\ attempts'[b].paid = attempts[b].paid
        /\ attempts'[b].status = "CANCELED"
  BY <1>1, <1>5 DEF AttemptRows
<1>9. \A b \in SameProvider(a) : ~closed(b) /\ attempts[b].status \in Active =>
        attempts[b].paid /\ attempts[b].status = "REQUIRES_REVIEW"
  BY <1>2 DEF MoneyInv, MoneyAgrees, AttemptsAgree, Active, InProgress
<1>10. "CANCELED" \notin Active
  BY DEF Active, InProgress
<1>11. \A b \in Attempts \ {a} : closed(b) => attempts[b].order = attempts[a].order /\ ~attempts[b].paid
  BY <1>3
<1>12. \A b \in Attempts \ {a} : ~closed(b) => attempts'[b] = attempts[b]
  BY <1>5
<1>13. ASSUME NEW b \in Attempts
       PROVE  /\ attempts'[b].order = attempts[b].order
              /\ attempts'[b].provider = attempts[b].provider
              /\ b # a => /\ attempts'[b].paid = attempts[b].paid
                          /\ \/ attempts'[b] = attempts[b]
                             \/ /\ attempts'[b].status = "CANCELED"
                                /\ attempts[b].order = attempts[a].order
                                /\ ~attempts[b].paid
              /\ b \in SameProvider(a) /\ attempts'[b].status \in Active =>
                      /\ attempts'[b] = attempts[b] /\ attempts[b].paid
                      /\ attempts[b].status = "REQUIRES_REVIEW"
  <2> HIDE DEF closed, slotTaken
  <2> QED
    BY <1>2, <1>6, <1>8, <1>9, <1>10, <1>11, <1>12
<1> QED
  BY <1>6, <1>7, <1>13

\* A review that keeps no winner: the attempt takes the one review slot, and its order
\* is held.
LEMMA ReviewLoserMoney ==
    ASSUME MoneyInv, [Next]_vars, NEW e \in sent, NEW now, Reconcile(e, now), ReviewLoser(e, now)
    PROVE  MoneyAgrees'
<1> DEFINE a == e.attempt
           o == attempts[e.attempt].order
           captured == e.status = "SUCCEEDED"
<1>1. a \in Attempts /\ o \in Orders /\ checkout[a] \notin InProgress /\ checkout' = checkout
  BY ReconcileFinds
<1>2. /\ \A b \in Attempts :
            /\ attempts'[b].order = attempts[b].order
            /\ attempts'[b].provider = attempts[b].provider
            /\ b # a => /\ attempts'[b].paid = attempts[b].paid
                        /\ \/ attempts'[b] = attempts[b]
                           \/ /\ attempts'[b].status = "CANCELED"
                              /\ attempts[b].order = attempts[a].order
                              /\ ~attempts[b].paid
            /\ b \in SameProvider(a) /\ attempts'[b].status \in Active =>
                    /\ attempts'[b] = attempts[b] /\ attempts[b].paid
                    /\ attempts[b].status = "REQUIRES_REVIEW"
      /\ attempts'[a].paid = (attempts[a].paid \/ captured)
      /\ \/ attempts'[a].status = "REQUIRES_REVIEW"
            /\ \A b \in SameProvider(a) :
                   ~(attempts[b].status = "REQUIRES_REVIEW" /\ attempts[b].paid)
         \/ attempts'[a].status = attempts[a].status
            /\ attempts[a].status \notin Active
  BY <1>1, UnderReviewEffect DEF ReviewLoser
<1>3. /\ orders'[o].review /\ orders'[o].pay = orders[o].pay
      /\ \A x \in Orders \ {o} : orders'[x] = orders[x]
  BY <1>1, HoldOrderEffect DEF ReviewLoser, MoneyInv, OrdersInv
<1>4. \A b \in Attempts : attempts[b].order # NoOrder => attempts[b].order \in Orders
  BY OwnerExists DEF MoneyInv
<1>5. \A b \in Attempts : attempts[b].order = NoOrder =>
        ~attempts[b].paid /\ attempts[b].status = "NONE"
  BY DEF MoneyInv, PaymentsInv, RowsAgree
<1> HIDE DEF a, o, captured
<1>6. o = attempts[a].order
  BY DEF a, o
<1>7. AttemptsAgree'
  <2>1. ASSUME NEW b \in Attempts
        PROVE  /\ attempts[b].order \in Orders \/ (~attempts[b].paid /\ attempts[b].status = "NONE")
               /\ attempts[b].status = "SUCCEEDED" => attempts[b].paid
               /\ attempts[b].paid =>
                    orders[attempts[b].order].pay = "PAID" \/ orders[attempts[b].order].review
               /\ attempts[b].status = "REQUIRES_REVIEW" => orders[attempts[b].order].review
               /\ attempts[b].status \in InProgress => ~attempts[b].paid
               /\ checkout[b] \in InProgress => ~attempts[b].paid
    BY <1>4, <1>5 DEF MoneyInv, MoneyAgrees, AttemptsAgree
  <2>2. \A x \in Orders : /\ orders[x].pay = "PAID" => orders'[x].pay = "PAID"
                          /\ orders[x].review => orders'[x].review
    BY <1>3
  <2>3. ASSUME NEW b \in Attempts
        PROVE  /\ attempts'[b].status = "SUCCEEDED" => attempts'[b].paid
               /\ attempts'[b].paid =>
                    orders'[attempts'[b].order].pay = "PAID" \/ orders'[attempts'[b].order].review
               /\ attempts'[b].status = "REQUIRES_REVIEW" => orders'[attempts'[b].order].review
               /\ attempts'[b].status \in InProgress => ~attempts'[b].paid
               /\ checkout'[b] \in InProgress => ~attempts'[b].paid
    <3>1. CASE b = a
      BY <1>1, <1>2, <1>3, <1>6, <2>1, <3>1 DEF Active, InProgress
    <3>2. CASE b # a
      BY <1>1, <1>2, <1>3, <1>6, <2>1, <2>2, <3>2 DEF InProgress
    <3> QED
      BY <3>1, <3>2
  <2> QED
    BY <2>3 DEF AttemptsAgree
<1>8. ReceiptsPaid'
  <2>1. \A b \in Attempts : attempts[b].paid => attempts'[b].paid
    BY <1>1, <1>2
  <2>2. e.status = "SUCCEEDED" => attempts'[e.attempt].paid
    BY <1>2 DEF a, captured
  <2> QED
    BY <2>1, <2>2, ReceiptMoney
<1>9. OneWinnerPerOrder'
  <2>1. \A b \in Attempts : attempts'[b].status = "SUCCEEDED" =>
            attempts[b].status = "SUCCEEDED"
    BY <1>1, <1>2
  <2> QED
    BY <1>2, <2>1 DEF MoneyInv, MoneyAgrees, OneWinnerPerOrder
<1>10. OneActivePerProvider'
  <2>1. \A b, c \in Attempts :
            b # c /\ attempts[b].order = attempts[c].order
                  /\ attempts[b].provider = attempts[c].provider
            => ~(attempts[b].status \in Active /\ attempts[c].status \in Active)
    BY DEF MoneyInv, MoneyAgrees, OneActivePerProvider, SameProvider, Siblings, AttemptsOf
  <2>2. \A b \in Attempts \ {a} : attempts'[b].status \in Active => attempts[b].status \in Active
    BY <1>2 DEF Active, InProgress
  <2>3. \A b \in Attempts : b # a /\ attempts[b].order = attempts[a].order
                                  /\ attempts[b].provider = attempts[a].provider
            => ~(attempts'[b].status \in Active /\ attempts'[a].status \in Active)
    <3>1. \A b \in Attempts : b # a /\ attempts[b].order = attempts[a].order
                                    /\ attempts[b].provider = attempts[a].provider
            => b \in SameProvider(a)
      BY DEF SameProvider, Siblings, AttemptsOf
    <3> QED
      BY <1>2, <3>1
  <2>4. \A b, c \in Attempts :
            b # c /\ attempts'[b].order = attempts'[c].order
                  /\ attempts'[b].provider = attempts'[c].provider
            => ~(attempts'[b].status \in Active /\ attempts'[c].status \in Active)
    BY <1>1, <1>2, <2>1, <2>2, <2>3
  <2> QED
    BY <2>4 DEF OneActivePerProvider, SameProvider, Siblings, AttemptsOf
<1>11. PaidOrderBacked'
  BY <1>1, <1>2, <1>3, <1>6, OthersBacked
<1> QED
  BY <1>7, <1>8, <1>9, <1>10, <1>11 DEF MoneyAgrees

\* The attempt of a success wins only where no sibling has won.
LEMMA AsWinnerEffect ==
    ASSUME MoneyInv, NEW a \in Attempts
    PROVE  /\ AsWinner(a)[a].order = attempts[a].order
           /\ AsWinner(a)[a].provider = attempts[a].provider
           /\ AsWinner(a)[a].status = "SUCCEEDED" /\ AsWinner(a)[a].paid
           /\ \A b \in Attempts \ {a} : AsWinner(a)[b] = attempts[b]
<1>1. attempts \in [Attempts -> AttemptRows]
  BY DEF MoneyInv, PaymentsInv, TypeOK, PaymentsTypeOK
<1>2. attempts[a] \in AttemptRows
  BY <1>1
<1>3. AsWinner(a)[a] = [attempts[a] EXCEPT !.status = "SUCCEEDED", !.paid = TRUE]
  BY <1>1 DEF AsWinner
<1>4. \A b \in Attempts \ {a} : AsWinner(a)[b] = attempts[b]
  BY <1>1 DEF AsWinner
<1> QED
  BY <1>2, <1>3, <1>4 DEF AttemptRows

\* What both outcomes of a late or a timely success share: one attempt of the order
\* wins, the others stay as they are or are closed while unpaid.
LEMMA WinMoney ==
    ASSUME MoneyInv, [Next]_vars, NEW e \in sent, NEW now, Reconcile(e, now),
           Plan(e, now) \in {"REVIEW_CAPTURE", "CONFIRM"},
           \A b \in Attempts :
                /\ attempts'[b].order = attempts[b].order
                /\ attempts'[b].provider = attempts[b].provider,
           attempts'[e.attempt].status = "SUCCEEDED", attempts'[e.attempt].paid,
           \A b \in Attempts \ {e.attempt} :
                /\ attempts'[b].paid = attempts[b].paid
                /\ \/ attempts'[b] = attempts[b]
                   \/ /\ attempts'[b].status = "CANCELED"
                      /\ attempts[b].order = attempts[e.attempt].order,
           \A x \in Orders \ {attempts[e.attempt].order} : orders'[x] = orders[x],
           \/ orders'[attempts[e.attempt].order].review
           \/ /\ orders'[attempts[e.attempt].order].pay = "PAID"
              /\ orders'[attempts[e.attempt].order].review = orders[attempts[e.attempt].order].review
    PROVE  MoneyAgrees'
<1>0. PICK a \in Attempts, o \in Orders : a = e.attempt /\ o = attempts[e.attempt].order
  BY ReconcileFinds
<1>1. /\ e \in Notifications /\ a \in Attempts /\ o \in Orders
      /\ checkout[a] \notin InProgress /\ checkout' = checkout
  BY <1>0, ReconcileFinds
<1>2. \A b \in Siblings(a) : ~Winner(b)
  BY <1>0, <1>1, PlanMeans
<1>3. \A b \in Attempts : attempts[b].order # NoOrder => attempts[b].order \in Orders
  BY OwnerExists DEF MoneyInv
<1>4. \A b \in Attempts : attempts[b].order = NoOrder =>
        ~attempts[b].paid /\ attempts[b].status = "NONE"
  BY DEF MoneyInv, PaymentsInv, RowsAgree
<1>5. \A x \in Orders : /\ orders[x].pay = "PAID" => orders'[x].pay = "PAID"
                        /\ orders[x].review => orders'[x].review
  BY SettledStays
<1>6. o = attempts[a].order
  BY <1>0
<1>7. \A b \in Attempts \ {a} : attempts[b].order = o =>
        attempts[b].status # "SUCCEEDED" /\ ~attempts[b].paid
  BY <1>2, <1>6 DEF Siblings, AttemptsOf, Winner
<1>8. ASSUME NEW b \in Attempts \ {a}
      PROVE  /\ attempts'[b].paid = attempts[b].paid
             /\ \/ attempts'[b] = attempts[b]
                \/ attempts'[b].status = "CANCELED" /\ attempts[b].order = o
  BY <1>0
<1>9. AttemptsAgree'
  <2>1. ASSUME NEW b \in Attempts
        PROVE  /\ attempts[b].order \in Orders \/ (~attempts[b].paid /\ attempts[b].status = "NONE")
               /\ attempts[b].status = "SUCCEEDED" => attempts[b].paid
               /\ attempts[b].paid =>
                    orders[attempts[b].order].pay = "PAID" \/ orders[attempts[b].order].review
               /\ attempts[b].status = "REQUIRES_REVIEW" => orders[attempts[b].order].review
               /\ attempts[b].status \in InProgress => ~attempts[b].paid
               /\ checkout[b] \in InProgress => ~attempts[b].paid
    BY <1>3, <1>4 DEF MoneyInv, MoneyAgrees, AttemptsAgree
  <2>2. orders'[o].pay = "PAID" \/ orders'[o].review
    BY <1>0
  <2>3. ASSUME NEW b \in Attempts
        PROVE  /\ attempts'[b].status = "SUCCEEDED" => attempts'[b].paid
               /\ attempts'[b].paid =>
                    orders'[attempts'[b].order].pay = "PAID" \/ orders'[attempts'[b].order].review
               /\ attempts'[b].status = "REQUIRES_REVIEW" => orders'[attempts'[b].order].review
               /\ attempts'[b].status \in InProgress => ~attempts'[b].paid
               /\ checkout'[b] \in InProgress => ~attempts'[b].paid
    <3>1. CASE b = a
      <4>1. attempts'[a].status = "SUCCEEDED" /\ attempts'[a].paid /\ attempts'[a].order = o
        BY <1>0, <1>1, <1>6
      <4> QED
        BY <1>1, <2>2, <3>1, <4>1 DEF InProgress
    <3>2. CASE b # a
      BY <1>1, <1>5, <1>8, <2>1, <3>2 DEF InProgress
    <3> QED
      BY <3>1, <3>2
  <2> QED
    BY <2>3 DEF AttemptsAgree
<1>10. ReceiptsPaid'
  <2>1. \A b \in Attempts : attempts[b].paid => attempts'[b].paid
    BY <1>0, <1>8
  <2> QED
    BY <1>0, <2>1, ReceiptMoney
<1>11. OneWinnerPerOrder'
  <2>1. \A b \in Attempts \ {a} : attempts'[b].status = "SUCCEEDED" =>
            attempts[b].status = "SUCCEEDED" /\ attempts[b].order # o
    BY <1>7, <1>8
  <2> QED
    BY <1>6, <2>1 DEF MoneyInv, MoneyAgrees, OneWinnerPerOrder
<1>12. OneActivePerProvider'
  <2>1. \A b \in Attempts : attempts'[b].status \in Active => attempts[b].status \in Active
    BY <1>0, <1>8 DEF Active, InProgress
  <2> QED
    BY <2>1, ActiveShrinks
<1>13. PaidOrderBacked'
  <2>1. a \in AttemptsOf(o)' /\ attempts'[a].status = "SUCCEEDED" /\ attempts'[a].paid
    BY <1>0, <1>1, <1>6 DEF AttemptsOf
  <2>2. \A b \in Siblings(a)' : ~Winner(b)'
    <3>1. \A b \in Siblings(a)' : b \in Attempts \ {a} /\ attempts[b].order = o
      BY <1>1, <1>6 DEF Siblings, AttemptsOf
    <3> QED
      BY <1>7, <1>8, <3>1 DEF Winner
  <2>3. \A x \in Orders \ {o} : orders'[x] = orders[x]
    BY <1>0
  <2>4. \A b \in Attempts : /\ attempts'[b].order = attempts[b].order
                            /\ attempts[b].order # o => attempts'[b] = attempts[b]
    BY <1>6, <1>8
  <2> QED
    BY <1>1, <2>1, <2>2, <2>3, <2>4, OthersBacked
<1> QED
  BY <1>9, <1>10, <1>11, <1>12, <1>13 DEF MoneyAgrees

LEMMA ReviewCaptureMoney ==
    ASSUME MoneyInv, [Next]_vars, NEW e \in sent, NEW now, Reconcile(e, now), ReviewCapture(e, now)
    PROVE  MoneyAgrees'
<1>1. e.attempt \in Attempts /\ attempts[e.attempt].order \in Orders
  BY ReconcileFinds
<1>2. attempts' = AsWinner(e.attempt) /\ Plan(e, now) = "REVIEW_CAPTURE"
  BY DEF ReviewCapture
<1>3. /\ orders'[attempts[e.attempt].order].review
      /\ \A x \in Orders \ {attempts[e.attempt].order} : orders'[x] = orders[x]
  BY <1>1, HoldOrderEffect DEF ReviewCapture, MoneyInv, OrdersInv
<1>4. /\ attempts'[e.attempt].order = attempts[e.attempt].order
      /\ attempts'[e.attempt].provider = attempts[e.attempt].provider
      /\ attempts'[e.attempt].status = "SUCCEEDED" /\ attempts'[e.attempt].paid
      /\ \A b \in Attempts \ {e.attempt} : attempts'[b] = attempts[b]
  BY <1>1, <1>2, AsWinnerEffect
<1> QED
  BY <1>2, <1>3, <1>4, WinMoney

LEMMA ConfirmMoney ==
    ASSUME MoneyInv, [Next]_vars, NEW e \in sent, NEW now, Reconcile(e, now), Confirm(e, now)
    PROVE  MoneyAgrees'
<1>1. e.attempt \in Attempts /\ attempts[e.attempt].order \in Orders
  BY ReconcileFinds
<1>2. attempts'[e.attempt] = AsWinner(e.attempt)[e.attempt] /\ Plan(e, now) = "CONFIRM"
  BY <1>1 DEF Confirm
<1>3. /\ orders'[attempts[e.attempt].order].pay = "PAID"
      /\ orders'[attempts[e.attempt].order].review = orders[attempts[e.attempt].order].review
      /\ \A x \in Orders \ {attempts[e.attempt].order} : orders'[x] = orders[x]
  BY <1>1 DEF Confirm, ConfirmSale, MoneyInv, OrdersInv, OrdersTypeOK, OrderRows
<1>4. /\ attempts'[e.attempt].order = attempts[e.attempt].order
      /\ attempts'[e.attempt].provider = attempts[e.attempt].provider
      /\ attempts'[e.attempt].status = "SUCCEEDED" /\ attempts'[e.attempt].paid
  BY <1>1, <1>2, AsWinnerEffect
<1>5. \A b \in Attempts \ {e.attempt} :
        attempts'[b] = IF b \in Siblings(e.attempt) /\ attempts[b].status \in InProgress
                       THEN [attempts[b] EXCEPT !.status = "CANCELED"] ELSE attempts[b]
  BY DEF Confirm
<1>6. \A b \in Attempts : attempts[b] \in AttemptRows
  BY DEF MoneyInv, PaymentsInv, TypeOK, PaymentsTypeOK
<1>7. \A b \in Attempts \ {e.attempt} :
        /\ attempts'[b].order = attempts[b].order
        /\ attempts'[b].provider = attempts[b].provider
        /\ attempts'[b].paid = attempts[b].paid
        /\ \/ attempts'[b] = attempts[b]
           \/ /\ attempts'[b].status = "CANCELED"
              /\ attempts[b].order = attempts[e.attempt].order
  BY <1>5, <1>6 DEF AttemptRows, Siblings, AttemptsOf
<1> QED
  BY <1>2, <1>3, <1>4, <1>7, WinMoney

LEMMA ReconcileMoney ==
    ASSUME MoneyInv, [Next]_vars, NEW e \in sent, NEW now, Reconcile(e, now)
    PROVE  MoneyAgrees'
<1>1. CASE ReviewLoser(e, now)
  BY <1>1, ReviewLoserMoney
<1>2. CASE ReviewCapture(e, now)
  BY <1>2, ReviewCaptureMoney
<1>3. CASE RecordPending(e, now) \/ RecordFailure(e, now)
  BY <1>3, ProgressMoney
<1>4. CASE RecordReceipt(e, now)
  BY <1>4, RecordReceiptMoney
<1>5. CASE Confirm(e, now)
  BY <1>5, ConfirmMoney
<1> QED
  BY <1>1, <1>2, <1>3, <1>4, <1>5 DEF Reconcile

-----------------------------------------------------------------------------
(* The money invariant.                                                        *)

LEMMA MoneyNextInv == MoneyInv /\ [Next]_vars => MoneyInv'
<1> SUFFICES ASSUME MoneyInv, [Next]_vars PROVE MoneyInv'
  OBVIOUS
<1>1. PaymentsInv' /\ OrdersInv'
  BY PaymentsNextInv, NextSimulates, OrdersNextInv DEF MoneyInv
<1> SUFFICES MoneyAgrees'
  BY <1>1 DEF MoneyInv
<1>2. OrdersTypeOK
  BY DEF MoneyInv, OrdersInv
<1>3. ASSUME \A o \in Orders : orders'[o].pay = "PAID" => orders[o].pay = "PAID",
             UNCHANGED <<attempts, checkout, receipts>>
      PROVE  MoneyAgrees'
  BY <1>3, QuietStep
<1>4. CASE PassTime
  BY <1>2, <1>3, <1>4, UnsoldByJobs DEF PassTime
<1>5. CASE MemberStep
  <2>1. UNCHANGED <<attempts, checkout, receipts>>
    BY <1>5 DEF MemberStep, paymentVars
  <2>2. \A o \in Orders : orders'[o].pay = "PAID" => orders[o].pay = "PAID"
    BY <1>2, <1>5, UnsoldStays DEF MemberStep
  <2> QED
    BY <1>3, <2>1, <2>2
<1>6. CASE ShopStep
  BY <1>2, <1>3, <1>6, UnsoldByJobs DEF ShopStep, paymentVars
<1>7. ASSUME NEW a \in Attempts, NEW now \in ReadInstants, ResumeAttempt(a, now)
      PROVE  MoneyAgrees'
  <2>1. AcceptTerms(attempts[a].order, now) /\ attempts[a].order \in Orders
    BY <1>7, OwnerExists DEF ResumeAttempt, MayReserve, InProgress, MoneyInv, PaymentsInv, RowsAgree
  <2>2. \A o \in Orders : orders'[o].pay = "PAID" => orders[o].pay = "PAID"
    BY <1>2, <2>1, UnsoldStays
  <2>3. \A b \in Attempts : checkout'[b] \in InProgress => checkout[b] \in InProgress
    BY <1>7 DEF ResumeAttempt, InProgress, MoneyInv, PaymentsInv, TypeOK, PaymentsTypeOK
  <2> QED
    BY <1>7, <2>2, <2>3, QuietStep DEF ResumeAttempt
<1>8. ASSUME NEW a \in Attempts,
             \/ ObtainSession(a) \/ ReadForSession(a)
             \/ RetryRecordSession(a) \/ AbandonCheckout(a)
      PROVE  MoneyAgrees'
  <2>1. UNCHANGED <<attempts, receipts, orders>>
    BY <1>8 DEF ObtainSession, ReadForSession, RetryRecordSession, AbandonCheckout, orderVars
  <2>2. \A b \in Attempts : checkout'[b] \in InProgress =>
            checkout[b] \in InProgress \/ attempts[b].status \in InProgress
    BY <1>8 DEF ObtainSession, ReadForSession, RetryRecordSession, AbandonCheckout, InProgress,
                MoneyInv, PaymentsInv, TypeOK, PaymentsTypeOK
  <2> QED
    BY <2>1, <2>2, QuietStep
<1>9. ASSUME NEW a \in Attempts, ReservePaypalCapture(a) PROVE MoneyAgrees'
  BY <1>3, <1>9 DEF ReservePaypalCapture, orderVars
<1>10. CASE ProviderStep
  BY <1>3, <1>10, ProviderKeepsOrders DEF orderVars
<1>11. ASSUME NEW e \in sent, WaitForLocks(e) PROVE MoneyAgrees'
  BY <1>3, <1>11 DEF WaitForLocks, orderVars
<1>12. ASSUME NEW a \in Attempts, FinancialIncident(a) PROVE MoneyAgrees'
  <2>1. attempts[a].order \in Orders
    BY <1>12, OwnerExists DEF FinancialIncident, MoneyInv, PaymentsInv, RowsAgree
  <2>2. \A o \in Orders : orders'[o].pay = "PAID" => orders[o].pay = "PAID"
    BY <1>2, <1>12, <2>1, UnsoldStays DEF FinancialIncident
  <2> QED
    BY <1>3, <1>12, <2>2 DEF FinancialIncident, paymentVars
<1>13. CASE UNCHANGED vars
  BY <1>3, <1>13 DEF vars, orderVars, paymentVars
<1>14. ASSUME NEW a \in Attempts, NEW o \in Orders, NEW provider \in Providers,
              NEW now \in ReadInstants, StartAttempt(a, o, provider, now)
       PROVE  MoneyAgrees'
  BY <1>14, StartAttemptMoney
<1>15. ASSUME NEW a \in Attempts, WriteSession(a) PROVE MoneyAgrees'
  BY <1>15, WriteSessionMoney
<1>16. ASSUME NEW e \in sent, Reconcile(e, clock) PROVE MoneyAgrees'
  BY <1>16, ReconcileMoney
<1>17. ASSUME NEW w \in waiting, Reconcile(w.event, w.now) PROVE MoneyAgrees'
  BY <1>17, ReconcileMoney DEF MoneyInv, PaymentsInv, NoticesAgree
<1>18. CASE CheckoutStep
  BY <1>7, <1>8, <1>9, <1>14, <1>15, <1>18 DEF CheckoutStep
<1>19. CASE ReconcileStep
  BY <1>11, <1>12, <1>16, <1>17, <1>19 DEF ReconcileStep
<1> QED
  BY <1>4, <1>5, <1>6, <1>10, <1>13, <1>18, <1>19 DEF Next

LEMMA MoneyInitInv == Init => MoneyInv
<1> SUFFICES ASSUME Init PROVE MoneyInv
  OBVIOUS
<1>1. PaymentsInv /\ OrdersInv
  BY PaymentsInitInv, OrdersInitInv DEF Init
<1>2. \A a \in Attempts : attempts[a].status = "NONE" /\ ~attempts[a].paid /\ checkout[a] = "IDLE"
  BY DEF Init, AbsentAttempt
<1>3. \A o \in Orders : orders[o].pay # "PAID"
  BY DEF Init, OrdersInit, AbsentOrder
<1>4. receipts = {}
  BY DEF Init
<1>5. AttemptsAgree /\ ReceiptsPaid
  BY <1>2, <1>4 DEF AttemptsAgree, ReceiptsPaid, InProgress
<1>6. OneWinnerPerOrder /\ OneActivePerProvider /\ PaidOrderBacked
  BY <1>2, <1>3 DEF OneWinnerPerOrder, OneActivePerProvider, PaidOrderBacked, Active, InProgress
<1> QED
  BY <1>1, <1>5, <1>6 DEF MoneyInv, MoneyAgrees

LEMMA MoneyAlways == Spec => []MoneyInv
BY MoneyInitInv, MoneyNextInv, PTL DEF Spec

\* Two payments never both win an order, whatever the order of their notifications.
THEOREM OneWinner == Spec => []OneWinnerPerOrder
<1>1. MoneyInv => OneWinnerPerOrder
  BY DEF MoneyInv, MoneyAgrees
<1> QED
  BY <1>1, MoneyAlways, PTL

\* No transaction needs the partial unique index: it never has two active attempts of
\* one provider to refuse, except for the revival that RetryRecordSession stands for.
THEOREM OneActive == Spec => []OneActivePerProvider
<1>1. MoneyInv => OneActivePerProvider
  BY DEF MoneyInv, MoneyAgrees
<1> QED
  BY <1>1, MoneyAlways, PTL

\* Every sale that nobody has to review rests on exactly one paid attempt.
THEOREM SalesAreBacked == Spec => []PaidOrderBacked
<1>1. MoneyInv => PaidOrderBacked
  BY DEF MoneyInv, MoneyAgrees
<1> QED
  BY <1>1, MoneyAlways, PTL

\* A success with a receipt is on its attempt, and its order is sold or held.
THEOREM MoneyIsAccounted == Spec => []CapturedMoneyAccounted
<1>1. MoneyInv => CapturedMoneyAccounted
  <2>1. ASSUME MoneyInv, NEW e \in receipts PROVE e.attempt \in Attempts
    BY <2>1 DEF MoneyInv, PaymentsInv, TypeOK, PaymentsTypeOK, Notifications
  <2> QED
    BY <2>1 DEF MoneyInv, MoneyAgrees, AttemptsAgree, ReceiptsPaid, CapturedMoneyAccounted
<1> QED
  BY <1>1, MoneyAlways, PTL

\* A winning attempt belongs to an order with accepted terms that is sold or held.
THEOREM WinnersSettle == Spec => []WinnerSettlesOrder
<1>1. MoneyInv => WinnerSettlesOrder
  <2> SUFFICES ASSUME MoneyInv, NEW a \in Attempts, Winner(a)
               PROVE  /\ attempts[a].order \in Orders
                      /\ orders[attempts[a].order].terms
                      /\ \/ orders[attempts[a].order].pay = "PAID"
                         \/ orders[attempts[a].order].review
    BY DEF WinnerSettlesOrder
  <2>1. attempts[a].paid
    BY DEF Winner, MoneyInv, MoneyAgrees, AttemptsAgree
  <2>2. attempts[a].order # NoOrder
    BY <2>1 DEF MoneyInv, PaymentsInv, RowsAgree
  <2> QED
    BY <2>1, <2>2, OwnerExists DEF MoneyInv, PaymentsInv, RowsAgree, MoneyAgrees, AttemptsAgree
<1> QED
  BY <1>1, MoneyAlways, PTL

-----------------------------------------------------------------------------
(* Paid evidence.                                                              *)

EvidenceKept ==
    \A a \in Attempts : attempts[a].paid =>
        /\ attempts'[a].paid
        /\ attempts'[a].status \in {attempts[a].status, "REQUIRES_REVIEW"}

\* A success that may win finds its own attempt unpaid.
LEMMA WinnerWasUnpaid ==
    ASSUME MoneyInv, NEW e \in sent, NEW now, Reconcile(e, now),
           Plan(e, now) \in {"REVIEW_CAPTURE", "CONFIRM"}
    PROVE  ~attempts[e.attempt].paid
<1>1. /\ e \in Notifications /\ e.attempt \in Attempts
      /\ attempts[e.attempt].order \in Orders
  BY ReconcileFinds
<1>2. /\ attempts[e.attempt].status # "SUCCEEDED"
      /\ ~orders[attempts[e.attempt].order].review
      /\ \A b \in Siblings(e.attempt) : ~Winner(b)
  BY <1>1, PlanMeans
<1> SUFFICES ASSUME attempts[e.attempt].paid PROVE FALSE
  OBVIOUS
<1>3. orders[attempts[e.attempt].order].pay = "PAID"
  BY <1>1, <1>2 DEF MoneyInv, MoneyAgrees, AttemptsAgree
<1>4. PICK c \in AttemptsOf(attempts[e.attempt].order) : attempts[c].status = "SUCCEEDED"
  BY <1>1, <1>2, <1>3 DEF MoneyInv, MoneyAgrees, PaidOrderBacked
<1> QED
  BY <1>2, <1>4 DEF Siblings, Winner

LEMMA ReconcileKeepsEvidence ==
    ASSUME MoneyInv, NEW e \in sent, NEW now, Reconcile(e, now)
    PROVE  EvidenceKept
<1>1. e \in Notifications /\ e.attempt \in Attempts
  BY ReconcileFinds
<1>2. attempts \in [Attempts -> AttemptRows]
  BY DEF MoneyInv, PaymentsInv, TypeOK, PaymentsTypeOK
<1>3. \A b \in Attempts : attempts[b].status \in InProgress => ~attempts[b].paid
  BY DEF MoneyInv, MoneyAgrees, AttemptsAgree
<1>4. CASE ReviewLoser(e, now)
  <2>1. attempts' = UnderReview(e.attempt, e.status = "SUCCEEDED")
    BY <1>4 DEF ReviewLoser
  <2> QED
    BY <1>1, <2>1, UnderReviewEffect DEF EvidenceKept
<1>5. CASE ReviewCapture(e, now)
  <2>1. \A b \in Attempts \ {e.attempt} : attempts'[b] = attempts[b]
    BY <1>1, <1>5, AsWinnerEffect DEF ReviewCapture
  <2> QED
    BY <1>5, <2>1, WinnerWasUnpaid DEF ReviewCapture, EvidenceKept
<1>6. CASE RecordPending(e, now) \/ RecordFailure(e, now)
  <2>1. \A b \in Attempts : attempts[b].status \notin InProgress => attempts'[b] = attempts[b]
    BY <1>1, <1>2, <1>6 DEF RecordPending, RecordFailure, SetInProgress
  <2> QED
    BY <1>3, <2>1 DEF EvidenceKept
<1>7. CASE RecordReceipt(e, now)
  BY <1>7 DEF RecordReceipt, EvidenceKept
<1>8. CASE Confirm(e, now)
  <2>1. \A b \in Attempts \ {e.attempt} :
            attempts[b].status \notin InProgress => attempts'[b] = attempts[b]
    BY <1>8 DEF Confirm
  <2> QED
    BY <1>3, <1>8, <2>1, WinnerWasUnpaid DEF Confirm, EvidenceKept
<1> QED
  BY <1>4, <1>5, <1>6, <1>7, <1>8 DEF Reconcile

LEMMA NextKeepsEvidence == MoneyInv /\ [Next]_vars => EvidenceKept
<1> SUFFICES ASSUME MoneyInv, [Next]_vars PROVE EvidenceKept
  OBVIOUS
<1>1. CASE UNCHANGED attempts
  BY <1>1 DEF EvidenceKept
<1>2. ASSUME NEW a \in Attempts, NEW o \in Orders, NEW provider \in Providers,
             NEW now \in ReadInstants, StartAttempt(a, o, provider, now)
      PROVE  EvidenceKept
  <2>1. attempts[a].order = NoOrder /\ ~attempts[a].paid
    BY <1>2 DEF StartAttempt, MoneyInv, PaymentsInv, RowsAgree
  <2>2. \A b \in Attempts \ {a} : attempts'[b] = attempts[b]
    BY <1>2 DEF StartAttempt, MoneyInv, PaymentsInv, TypeOK, PaymentsTypeOK
  <2> QED
    BY <2>1, <2>2 DEF EvidenceKept
<1>3. ASSUME NEW a \in Attempts, WriteSession(a) PROVE EvidenceKept
  <2>1. attempts'[a] = [attempts[a] EXCEPT !.session = TRUE,
                !.status = IF checkout[a] \in InProgress THEN "PENDING" ELSE attempts[a].status]
        /\ \A c \in Attempts \ {a} : attempts'[c] = attempts[c]
    BY <1>3, WriteSessionEffect DEF MoneyInv, PaymentsInv, TypeOK, PaymentsTypeOK
  <2>2. attempts[a] \in AttemptRows
    BY DEF MoneyInv, PaymentsInv, TypeOK, PaymentsTypeOK
  <2>3. attempts[a].paid => checkout[a] \notin InProgress
    BY DEF MoneyInv, MoneyAgrees, AttemptsAgree
  <2>4. attempts[a].paid => attempts'[a].paid /\ attempts'[a].status = attempts[a].status
    BY <2>1, <2>2, <2>3 DEF AttemptRows
  <2> QED
    BY <2>1, <2>4 DEF EvidenceKept
<1>4. ASSUME NEW e \in sent, NEW now, Reconcile(e, now) PROVE EvidenceKept
  BY <1>4, ReconcileKeepsEvidence
<1>5. \A w \in waiting : w.event \in sent
  BY DEF MoneyInv, PaymentsInv, NoticesAgree
<1>6. \/ UNCHANGED attempts
      \/ \E a \in Attempts, o \in Orders, provider \in Providers, now \in ReadInstants :
            StartAttempt(a, o, provider, now)
      \/ \E a \in Attempts : WriteSession(a)
      \/ \E e \in sent : Reconcile(e, clock)
      \/ \E w \in waiting : Reconcile(w.event, w.now)
  BY ProviderKeepsOrders
  DEF Next, vars, paymentVars, PassTime, MemberStep, ShopStep, CheckoutStep, ResumeAttempt,
      ObtainSession, ReadForSession, RetryRecordSession, AbandonCheckout, ReservePaypalCapture,
      ReconcileStep, WaitForLocks, FinancialIncident
<1> QED
  BY <1>1, <1>2, <1>3, <1>4, <1>5, <1>6

\* No failure, expiry, review or slow checkout request takes back a recorded payment.
THEOREM EvidenceIsKept == Spec => PaidEvidenceKept
<1>1. MoneyInv /\ [Next]_vars => EvidenceKept
  BY NextKeepsEvidence
<1> QED
  BY <1>1, MoneyAlways, PTL DEF Spec, PaidEvidenceKept, EvidenceKept
=============================================================================

---------------------------- MODULE ShopPayments ----------------------------
(***************************************************************************)
(* Payment attempts of Shop orders: src/lib/shop/payment-service.ts (the    *)
(* checkout and capture requests), payment-repository.ts (their            *)
(* transactions) and payment-domain.ts (the reconciliation plan), on top of *)
(* the orders and the stock of ShopOrders.                                  *)
(*                                                                          *)
(* Stripe and PayPal are outside the repository: "gateway" is what they     *)
(* hold and "sent" the notifications they have signed.  A notification may  *)
(* arrive at any later time, in any order and any number of times; receipts *)
(* are the ProviderEvent rows that make its effect happen once.             *)
(*                                                                          *)
(* A checkout request is split where the code leaves its transaction:       *)
(* reserveAttempt | provider call | recordSession, the last one split again *)
(* between its read and its write because it locks only its own attempt.    *)
(***************************************************************************)
EXTENDS ShopOrders

CONSTANTS
    Attempts,    \* identities of payment rows, each used at most once
    NoOrder,     \* the order of a payment row that does not exist
    Providers,   \* the enabled ones among STRIPE and PAYPAL
    Evidence     \* what a success may say: {TRUE}, or also FALSE (contradicts the row)

ASSUME AttemptsAssumption ==
    /\ NoOrder \notin Orders
    /\ Providers \subseteq {"STRIPE", "PAYPAL"}
    /\ Evidence \subseteq BOOLEAN

VARIABLES
    attempts,   \* payments
    checkout,   \* the request that prepares or resumes an attempt, if one runs
    captures,   \* attempts for which reservePaypalCapture allowed the capture call
    gateway,    \* external: the session or PayPal order behind an attempt
    sent,       \* external: notifications signed by the providers, and capture responses
    receipts,   \* notifications with a provider_events row
    waiting     \* reconciliations that read their clock and wait for their locks

paymentVars == <<attempts, checkout, captures, gateway, sent, receipts, waiting>>
vars == <<orderVars, paymentVars>>

-----------------------------------------------------------------------------
AttemptStatuses ==
    {"NONE", "CREATED", "PENDING", "SUCCEEDED", "FAILED", "EXPIRED", "CANCELED", "REQUIRES_REVIEW"}
InProgress == {"CREATED", "PENDING"}
Active == InProgress \cup {"REQUIRES_REVIEW"}

\* session: providerCheckoutId is stored.  paid: paidAt is stored.
AttemptRows ==
    [order : Orders \cup {NoOrder}, provider : {"STRIPE", "PAYPAL"},
     status : AttemptStatuses, session : BOOLEAN, paid : BOOLEAN]

AbsentAttempt ==
    [order |-> NoOrder, provider |-> "STRIPE", status |-> "NONE",
     session |-> FALSE, paid |-> FALSE]

\* IDLE, or a request that holds a reserved attempt, a provider session, or the
\* attempt status that recordSession has read.
CheckoutSteps == {"IDLE", "RESERVED", "SESSION"} \cup AttemptStatuses

GatewayStates == {"NONE", "OPEN", "APPROVED", "PENDING", "PAID", "FAILED", "EXPIRED"}

\* via: CHECKOUT carries the session or PayPal order (providerCheckoutId), INTENT is
\* payment_intent.payment_failed and does not, RESPONSE answers the capture call.
Notifications ==
    [attempt : Attempts, status : {"PENDING", "SUCCEEDED", "FAILED", "EXPIRED"},
     via : {"CHECKOUT", "INTENT", "RESPONSE"}, consistent : BOOLEAN]

Notice(a, status, via) ==
    [attempt |-> a, status |-> status, via |-> via, consistent |-> TRUE]

PaymentsTypeOK ==
    /\ attempts \in [Attempts -> AttemptRows]
    /\ checkout \in [Attempts -> CheckoutSteps]
    /\ captures \subseteq Attempts
    /\ gateway \in [Attempts -> GatewayStates]
    /\ sent \subseteq Notifications
    /\ receipts \subseteq Notifications
    /\ waiting \subseteq [event : Notifications, now : 0..MaxTime]

TypeOK == OrdersTypeOK /\ PaymentsTypeOK

Init ==
    /\ OrdersInit
    /\ attempts = [a \in Attempts |-> AbsentAttempt]
    /\ checkout = [a \in Attempts |-> "IDLE"]
    /\ captures = {}
    /\ gateway = [a \in Attempts |-> "NONE"]
    /\ sent = {}
    /\ receipts = {}
    /\ waiting = {}

-----------------------------------------------------------------------------
AttemptsOf(o) == {a \in Attempts : attempts[a].order = o}

\* Mutant of Siblings: the other provider's attempts are forgotten.
SiblingsOfProvider(a) ==
    {b \in AttemptsOf(attempts[a].order) \ {a} : attempts[b].provider = attempts[a].provider}

Siblings(a) == AttemptsOf(attempts[a].order) \ {a}
SameProvider(a) == {b \in Siblings(a) : attempts[b].provider = attempts[a].provider}

\* A payment that already won: a paid status, or (where the code asks) a paidAt.
Winner(a) == attempts[a].status = "SUCCEEDED" \/ attempts[a].paid

\* Mutant of PassTime: a reconciliation may wait for ever with the clock it read.
PassTimeWithoutTimeout == Tick /\ UNCHANGED paymentVars

\* Time passes; a reconciliation that waited for LockWait ticks times out, rolls
\* back, and its notification will be delivered again.
PassTime ==
    /\ Tick
    /\ waiting' = {w \in waiting : w.now + LockWait >= clock'}
    /\ UNCHANGED <<attempts, checkout, captures, gateway, sent, receipts>>

-----------------------------------------------------------------------------
(* Checkout: createStripeCheckoutForShopOrder, createPaypalOrderForShopOrder. *)

\* reserveAttempt up to its writes: the order takes payments and nothing has won.
MayReserve(o, now) ==
    /\ AcceptTerms(o, now)
    /\ \A a \in AttemptsOf(o) : attempts[a].status # "SUCCEEDED"

\* ... which creates the payment row when no attempt of that provider is in progress,
StartAttempt(a, o, provider, now) ==
    /\ MayReserve(o, now)
    /\ attempts[a].status = "NONE"
    /\ \A b \in AttemptsOf(o) :
        attempts[b].provider = provider => attempts[b].status \notin InProgress
    /\ attempts' = [attempts EXCEPT ![a] =
                    [AbsentAttempt EXCEPT !.order = o, !.provider = provider, !.status = "CREATED"]]
    /\ checkout' = [checkout EXCEPT ![a] = "RESERVED"]
    /\ UNCHANGED <<captures, gateway, sent, receipts, waiting>>

\* ... or reuses the one that is.
ResumeAttempt(a, now) ==
    /\ attempts[a].status \in InProgress
    /\ checkout[a] = "IDLE"
    /\ MayReserve(attempts[a].order, now)
    /\ checkout' = [checkout EXCEPT ![a] = "RESERVED"]
    /\ UNCHANGED <<attempts, captures, gateway, sent, receipts, waiting>>

\* The provider call, outside any transaction.  The idempotency key of an attempt
\* always creates the same session, and a stored session is retrieved.
ObtainSession(a) ==
    /\ checkout[a] = "RESERVED"
    /\ gateway' = [gateway EXCEPT ![a] = IF @ = "NONE" THEN "OPEN" ELSE @]
    /\ checkout' = [checkout EXCEPT ![a] = "SESSION"]
    /\ UNCHANGED <<orderVars, attempts, captures, sent, receipts, waiting>>

\* recordSession reads the attempt under the lock of that attempt alone ...
ReadForSession(a) ==
    /\ checkout[a] = "SESSION"
    /\ checkout' = [checkout EXCEPT ![a] = attempts[a].status]
    /\ UNCHANGED <<orderVars, attempts, captures, gateway, sent, receipts, waiting>>

Reading(a) == checkout[a] \in AttemptStatuses

\* The write revives an attempt that a sibling's transaction closed in between, and
\* the partial unique index would then hold two active attempts.
RevivalConflict(a) ==
    checkout[a] \in InProgress /\ \E b \in SameProvider(a) : attempts[b].status \in Active

\* ... and writes the session, and PENDING if the status it READ was in progress.
WriteSession(a) ==
    /\ Reading(a)
    /\ ~RevivalConflict(a)
    /\ attempts' = [attempts EXCEPT ![a].session = TRUE,
                                    ![a].status = IF checkout[a] \in InProgress THEN "PENDING" ELSE @]
    /\ checkout' = [checkout EXCEPT ![a] = "IDLE"]
    /\ UNCHANGED <<orderVars, captures, gateway, sent, receipts, waiting>>

\* The unique index refuses the write (P2002) and the transaction runs again.
RetryRecordSession(a) ==
    /\ Reading(a)
    /\ RevivalConflict(a)
    /\ checkout' = [checkout EXCEPT ![a] = "SESSION"]
    /\ UNCHANGED <<orderVars, attempts, captures, gateway, sent, receipts, waiting>>

\* The process dies, the provider answers an error or the transaction times out.
AbandonCheckout(a) ==
    /\ checkout[a] # "IDLE"
    /\ checkout' = [checkout EXCEPT ![a] = "IDLE"]
    /\ UNCHANGED <<orderVars, attempts, captures, gateway, sent, receipts, waiting>>

\* reservePaypalCapture, for the PayPal order that the member approved.
ReservePaypalCapture(a) ==
    /\ a \notin captures
    /\ attempts[a].provider = "PAYPAL"
    /\ attempts[a].status \in InProgress
    /\ attempts[a].session
    /\ Payable(attempts[a].order)
    /\ ReservationsValid(attempts[a].order, clock)
    /\ \A b \in AttemptsOf(attempts[a].order) : ~Winner(b)
    /\ captures' = captures \cup {a}
    /\ UNCHANGED <<orderVars, attempts, checkout, gateway, sent, receipts, waiting>>

-----------------------------------------------------------------------------
(* External: what Stripe, PayPal and the customer do.  The customer receives  *)
(* the payment page only once recordSession has committed.                    *)

Provider(a, from, to, notices) ==
    /\ gateway[a] = from
    /\ gateway' = [gateway EXCEPT ![a] = to]
    /\ sent' = sent \cup notices
    /\ UNCHANGED <<orderVars, attempts, checkout, captures, receipts, waiting>>

IsStripe(a) == attempts[a].provider = "STRIPE"

\* A success is announced by a webhook and, for a capture call, by its response.
Success(a, vias, consistent) ==
    {[Notice(a, "SUCCEEDED", via) EXCEPT !.consistent = consistent] : via \in vias}

\* Stripe: the card is declined and the session stays open for another try.
DeclineCard(a) ==
    /\ IsStripe(a) /\ attempts[a].session
    /\ Provider(a, "OPEN", "OPEN", {Notice(a, "FAILED", "INTENT")})

\* Stripe: the session is paid, or completed with a payment still to settle.
PaySession(a, consistent) ==
    /\ IsStripe(a) /\ attempts[a].session
    /\ \/ Provider(a, "OPEN", "PAID", Success(a, {"CHECKOUT"}, consistent))
       \/ Provider(a, "OPEN", "PENDING", {Notice(a, "PENDING", "CHECKOUT")})

\* Stripe closes an unpaid session, known to the member or not.
ExpireSession(a) ==
    IsStripe(a) /\ Provider(a, "OPEN", "EXPIRED", {Notice(a, "EXPIRED", "CHECKOUT")})

\* PayPal: the member approves the order, which captures nothing.
ApproveOrder(a) ==
    /\ ~IsStripe(a) /\ attempts[a].session
    /\ Provider(a, "OPEN", "APPROVED", {Notice(a, "PENDING", "CHECKOUT")})

\* PayPal: the capture call allowed by reservePaypalCapture, and its answer.
CaptureOrder(a, consistent) ==
    /\ a \in captures
    /\ \/ Provider(a, "APPROVED", "PAID", Success(a, {"CHECKOUT", "RESPONSE"}, consistent))
       \/ Provider(a, "APPROVED", "PENDING", {Notice(a, "PENDING", "RESPONSE")})
       \/ Provider(a, "APPROVED", "FAILED", {Notice(a, "FAILED", "CHECKOUT")})

\* A payment that was pending settles.
SettlePayment(a, consistent) ==
    \/ Provider(a, "PENDING", "PAID", Success(a, {"CHECKOUT"}, consistent))
    \/ Provider(a, "PENDING", "FAILED", {Notice(a, "FAILED", "CHECKOUT")})

-----------------------------------------------------------------------------
(* Reconciliation of a notification.                                          *)

\* sourceMismatch, successfulEvidenceMismatch: the notification names a session
\* that the row does not hold (yet), or contradicts the row.
Mismatch(e) ==
    \/ ~e.consistent
    \/ e.via # "INTENT" /\ ~attempts[e.attempt].session

\* planShopPaymentReconciliation, in the order of its early returns.  REVIEW_CAPTURE
\* stands for the reviews that keep the attempt as winner: a terminal attempt, an
\* order that no longer takes payments, terms or stock that are missing.
Plan(e, now) ==
    LET a == e.attempt
        o == attempts[a].order
    IN  CASE Mismatch(e) -> "REVIEW_EVIDENCE"
          [] ~Mismatch(e) /\ e.status = "PENDING" -> "RECORD_PENDING"
          [] ~Mismatch(e) /\ e.status \in {"FAILED", "EXPIRED"} ->
                IF Winner(a) THEN "IGNORE_TERMINAL_FAILURE" ELSE "RECORD_FAILURE"
          [] ~Mismatch(e) /\ e.status = "SUCCEEDED" ->
                IF \E b \in Siblings(a) : Winner(b) THEN "REVIEW_OTHER_WINNER"
                ELSE IF attempts[a].status = "SUCCEEDED" THEN "REPLAY_SUCCESS"
                ELSE IF orders[o].review THEN "REVIEW_OPEN"
                ELSE IF attempts[a].status = "REQUIRES_REVIEW" \/ ~Sellable(o, now)
                     THEN "REVIEW_CAPTURE"
                ELSE "CONFIRM"

\* Mutants of UnderReview: siblings keep the review slot; a captured payment is not
\* marked paid; paid siblings are closed too.
UnderReviewAlone(a, captured) ==
    [attempts EXCEPT ![a].status = "REQUIRES_REVIEW", ![a].paid = @ \/ captured]

UnderReviewUnpaid(a, captured) ==
    [b \in Attempts |->
        IF b = a THEN [attempts[a] EXCEPT !.status = "REQUIRES_REVIEW"]
        ELSE IF b \in SameProvider(a) /\ attempts[b].status \in Active /\ ~attempts[b].paid
        THEN [attempts[b] EXCEPT !.status = "CANCELED"]
        ELSE attempts[b]]

UnderReviewClosingPaid(a, captured) ==
    [b \in Attempts |->
        IF b = a THEN [attempts[a] EXCEPT !.status = "REQUIRES_REVIEW", !.paid = @ \/ captured]
        ELSE IF b \in SameProvider(a) /\ attempts[b].status \in Active
        THEN [attempts[b] EXCEPT !.status = "CANCELED"]
        ELSE attempts[b]]

\* recordReview that does not keep the attempt as winner: unpaid active siblings of
\* the provider are closed, the attempt takes the review slot unless a paid sibling
\* owns it, and a captured payment is always marked paid.
UnderReview(a, captured) ==
    LET slotTaken == \E b \in SameProvider(a) :
                        attempts[b].status = "REQUIRES_REVIEW" /\ attempts[b].paid
    IN  [b \in Attempts |->
            IF b = a
            THEN [attempts[a] EXCEPT !.status = IF slotTaken THEN @ ELSE "REQUIRES_REVIEW",
                                     !.paid = @ \/ captured]
            ELSE IF b \in SameProvider(a) /\ attempts[b].status \in Active /\ ~attempts[b].paid
            THEN [attempts[b] EXCEPT !.status = "CANCELED"]
            ELSE attempts[b]]

\* The attempt wins: SUCCEEDED and paid.
AsWinner(a) == [attempts EXCEPT ![a].status = "SUCCEEDED", ![a].paid = TRUE]

\* Mutant of SetInProgress: a late notification overwrites any status.
SetAnyway(a, status) == [attempts EXCEPT ![a].status = status]

SetInProgress(a, status) ==
    IF attempts[a].status \in InProgress THEN [attempts EXCEPT ![a].status = status] ELSE attempts

ReviewLoser(e, now) ==
    /\ Plan(e, now) \in {"REVIEW_EVIDENCE", "REVIEW_OTHER_WINNER", "REVIEW_OPEN"}
    /\ attempts' = UnderReview(e.attempt, e.status = "SUCCEEDED")
    /\ HoldOrder(attempts[e.attempt].order)

ReviewCapture(e, now) ==
    /\ Plan(e, now) = "REVIEW_CAPTURE"
    /\ attempts' = AsWinner(e.attempt)
    /\ HoldOrder(attempts[e.attempt].order)

RecordPending(e, now) ==
    /\ Plan(e, now) = "RECORD_PENDING"
    /\ attempts' = SetInProgress(e.attempt, "PENDING")
    /\ UNCHANGED orderVars

RecordFailure(e, now) ==
    /\ Plan(e, now) = "RECORD_FAILURE"
    /\ attempts' = SetInProgress(e.attempt, e.status)
    /\ UNCHANGED orderVars

\* IGNORE_TERMINAL_FAILURE and REPLAY_SUCCESS write the receipt only.
RecordReceipt(e, now) ==
    /\ Plan(e, now) \in {"IGNORE_TERMINAL_FAILURE", "REPLAY_SUCCESS"}
    /\ UNCHANGED <<attempts, orderVars>>

\* The sale: every other attempt in progress, of either provider, is CANCELED.
Confirm(e, now) ==
    LET a == e.attempt
    IN  /\ Plan(e, now) = "CONFIRM"
        /\ attempts' = [b \in Attempts |->
                IF b = a THEN AsWinner(a)[a]
                ELSE IF b \in Siblings(a) /\ attempts[b].status \in InProgress
                THEN [attempts[b] EXCEPT !.status = "CANCELED"]
                ELSE attempts[b]]
        /\ ConfirmSale(attempts[a].order, now)

\* reconcile: one transaction under the locks of the notification, of the attempt
\* (not while recordSession holds it) and of the order.  A notification that has a
\* receipt already is answered from it.
Reconcile(e, now) ==
    /\ e \notin receipts
    /\ ~Reading(e.attempt)
    /\ \/ ReviewLoser(e, now)
       \/ ReviewCapture(e, now)
       \/ RecordPending(e, now)
       \/ RecordFailure(e, now)
       \/ RecordReceipt(e, now)
       \/ Confirm(e, now)
    /\ receipts' = receipts \cup {e}
    /\ waiting' = {w \in waiting : w.event # e}
    /\ UNCHANGED <<checkout, captures, gateway, sent>>

\* reconcile takes "now" when it is called; the locks may be free only later.
WaitForLocks(e) ==
    /\ LockWait > 0
    /\ e \notin receipts
    /\ \A w \in waiting : w.event # e
    /\ waiting' = waiting \cup {[event |-> e, now |-> clock]}
    /\ UNCHANGED <<orderVars, attempts, checkout, captures, gateway, sent, receipts>>

\* recordShopFinancialReview: a dispute or an unmatched refund on a captured payment.
\* It finds the row by providerPaymentId, which the row may hold before its success
\* is reconciled.
FinancialIncident(a) ==
    /\ gateway[a] = "PAID"
    /\ HoldOrder(attempts[a].order)
    /\ UNCHANGED paymentVars

-----------------------------------------------------------------------------
MemberStep ==
    /\ \E o \in Orders :
        \/ \E basket \in Baskets, now \in ReadInstants : CreateOrder(o, basket, now)
        \/ CancelOrder(o)
    /\ UNCHANGED paymentVars

ShopStep ==
    /\ \/ \E batch \in SUBSET Orders : ExpireReservations(batch)
       \/ \E p \in Products, units \in 0..MaxStock : SetStock(p, units)
    /\ UNCHANGED paymentVars

CheckoutStep ==
    \E a \in Attempts :
        \/ \E o \in Orders, provider \in Providers, now \in ReadInstants :
            StartAttempt(a, o, provider, now)
        \/ \E now \in ReadInstants : ResumeAttempt(a, now)
        \/ ObtainSession(a)
        \/ ReadForSession(a)
        \/ WriteSession(a)
        \/ RetryRecordSession(a)
        \/ AbandonCheckout(a)
        \/ ReservePaypalCapture(a)

ProviderStep ==
    \E a \in Attempts :
        \/ DeclineCard(a)
        \/ ExpireSession(a)
        \/ ApproveOrder(a)
        \/ \E consistent \in Evidence :
            PaySession(a, consistent) \/ CaptureOrder(a, consistent) \/ SettlePayment(a, consistent)

ReconcileStep ==
    \/ \E e \in sent : Reconcile(e, clock) \/ WaitForLocks(e)
    \/ \E w \in waiting : Reconcile(w.event, w.now)
    \/ \E a \in Attempts : FinancialIncident(a)

Next == PassTime \/ MemberStep \/ ShopStep \/ CheckoutStep \/ ProviderStep \/ ReconcileStep

Spec == Init /\ [][Next]_vars

-----------------------------------------------------------------------------
(* Safety. *)

\* One financial winner per order: the index payments_one_succeeded_per_shop_order
\* is a second barrier, the transactions alone never produce two winners.
OneWinnerPerOrder ==
    \A a \in Attempts, b \in Attempts :
        a # b /\ attempts[a].order = attempts[b].order =>
            ~(attempts[a].status = "SUCCEEDED" /\ attempts[b].status = "SUCCEEDED")

\* One active attempt per order and provider, also while a late success reopens an
\* old attempt: no reconciliation ever fails on the partial unique index and leaves
\* a captured payment without its receipt.
OneActivePerProvider ==
    \A a \in Attempts : attempts[a].status \in Active =>
        \A b \in SameProvider(a) : attempts[b].status \notin Active

\* A sale rests on exactly one payment: an order that is PAID and not under review
\* has one paid attempt, and it is the winner.
PaidOrderBacked ==
    \A o \in Orders : orders[o].pay = "PAID" /\ ~orders[o].review =>
        \E a \in AttemptsOf(o) :
            /\ attempts[a].status = "SUCCEEDED" /\ attempts[a].paid
            /\ \A b \in Siblings(a) : ~Winner(b)

\* No captured payment is lost: once a success has its receipt, its attempt is
\* marked paid, and the order was sold or waits for a human.
CapturedMoneyAccounted ==
    \A e \in receipts : e.status = "SUCCEEDED" =>
        /\ attempts[e.attempt].paid
        /\ LET o == attempts[e.attempt].order
           IN  orders[o].pay = "PAID" \/ orders[o].review

\* A winner is a sale or a review: a SUCCEEDED attempt never sits on an order that
\* still takes payments, or that was closed without anybody being told.
WinnerSettlesOrder ==
    \A a \in Attempts : Winner(a) =>
        LET o == attempts[a].order
        IN  o \in Orders /\ orders[o].terms /\ (orders[o].pay = "PAID" \/ orders[o].review)

\* Paid evidence is immutable: a paid attempt keeps paidAt, and no later failure,
\* expiry, retry or slow checkout request takes it out of the won or review states
\* (recordReview: "Never overwrite a sibling carrying paidAt").
PaidEvidenceKept ==
    [][\A a \in Attempts : attempts[a].paid =>
        /\ attempts'[a].paid
        /\ attempts'[a].status \in {attempts[a].status, "REQUIRES_REVIEW"}]_vars

-----------------------------------------------------------------------------
(* Refinement and liveness. *)

\* Every step is a step, or a stutter, of the orders' own specification: the payment
\* side never touches an order or the stock except through its three operations, and
\* never with a clock reading older than LockWait.
ImplementsOrders == OrdersSpec

Phase(o) ==
    CASE orders[o].status = "NONE" -> "NEW"
      [] orders[o].pay = "PAID" -> "SOLD"
      [] orders[o].status = "OPEN" /\ orders[o].pay # "PAID" -> "OFFERED"
      [] orders[o].status \in {"EXPIRED", "CANCELLED"} /\ orders[o].pay # "PAID" -> "CLOSED"

Sale == INSTANCE ShopSale WITH
    phase <- [o \in Orders |-> Phase(o)],
    basket <- quantity,
    held <- {o \in Orders : orders[o].review},
    paidFor <- {o \in Orders : \E a \in AttemptsOf(o) : attempts[a].paid},
    shelf <- stock

\* The promise of ShopSale: whatever the order of notifications, retries, crashes and
\* expiries, money recorded on any attempt sells the order once, or holds it.
KeepsSalePromise == Sale!Spec

\* Transactions end: a request does not hold its locks for ever.
TransactionsEnd(a) ==
    WF_vars(WriteSession(a) \/ RetryRecordSession(a) \/ (Reading(a) /\ AbandonCheckout(a)))

\* Stripe and PayPal deliver a webhook again until it is answered with success.  The
\* answer of a capture call is delivered at most once and has no fairness.
WebhooksArrive ==
    SF_vars(\E e \in sent : e.via # "RESPONSE" /\ Reconcile(e, clock))

\* The expiry job is run again and again.
ExpiryJobRuns(o) == WF_vars(ExpireReservations({o}) /\ UNCHANGED paymentVars)

FairSpec ==
    /\ Spec
    /\ WF_vars(PassTime)
    /\ WebhooksArrive
    /\ \A a \in Attempts : TransactionsEnd(a)
    /\ \A o \in Orders : ExpiryJobRuns(o)

\* Money taken by a provider always reaches the shop: the attempt ends up paid, and
\* its order sold or held.
MoneyReachesOrder ==
    \A a \in Attempts :
        gateway[a] = "PAID" ~>
            /\ attempts[a].paid
            /\ \/ orders[attempts[a].order].pay = "PAID"
               \/ orders[attempts[a].order].review

\* Nobody keeps the goods of a member who never pays: an order that takes payments
\* stops doing so (sold, closed or held) once its deadline has passed.
OffersEnd ==
    \A o \in Orders :
        (Payable(o) /\ orders[o].deadline <= MaxTime) ~> ~Payable(o)

\* docs/SHOP_PRODUCTION_READINESS_PHASE5E.md: an active reservation expires after 30
\* minutes and the job expires unpaid reservations.  The code does not do this for an
\* unpaid order that a failed session has put under review.
UnpaidReservationsExpire ==
    \A o \in Orders, p \in Products :
        (reservation[o][p] = "ACTIVE" /\ orders[o].deadline <= MaxTime)
            ~> \/ reservation[o][p] # "ACTIVE"
               \/ \E a \in AttemptsOf(o) : gateway[a] = "PAID"
=============================================================================

--------------------------- MODULE MusicPayments ---------------------------
(***************************************************************************)
(* Payment attempts of a music order: src/lib/payments/service.ts (checkout, *)
(* preparation of an edit, closing after a cancellation), webhook.ts (Stripe) *)
(* and paypal-service.ts (PayPal), with the operations of orders/service.ts   *)
(* and admin/service.ts that change the price or the status of the order.     *)
(*                                                                            *)
(* Unlike a Shop order, a music order may be edited, and repriced, between    *)
(* two attempts; an attempt keeps the amount it was created with.  Requests   *)
(* are split where the code leaves a transaction, and recordSession between   *)
(* its read and its write because it locks its own attempt only.              *)
(***************************************************************************)
EXTENDS Naturals

CONSTANTS
    MaxAttempts,   \* bound: payment rows of the order, numbered in creation order
    Providers,     \* the enabled ones among STRIPE and PAYPAL
    Prices,        \* totals that the options of an order can give
    NoPrice,       \* the amount of a payment row that does not exist
    Evidence       \* what a success may say: {TRUE}, or also FALSE (contradicts the row)

ASSUME MusicAssumption ==
    /\ MaxAttempts \in Nat
    /\ Providers \subseteq {"STRIPE", "PAYPAL"}
    /\ NoPrice \notin Prices
    /\ Evidence \subseteq BOOLEAN

Attempts == 1..MaxAttempts

VARIABLES
    order,      \* orders: status and total
    attempts,   \* payments
    checkout,   \* the request that prepares or resumes an attempt, if one runs
    captures,   \* attempts for which reserveCapture allowed the capture call
    closing,    \* requests that close a Stripe session, before an edit or after a cancellation
    gateway,    \* external: the session or PayPal order behind an attempt
    sent,       \* external: notifications signed by the providers, and capture responses
    receipts,   \* notifications with a provider_events row
    reviews     \* those whose receipt is REQUIRES_REVIEW

localVars == <<order, attempts, checkout, captures, closing, receipts, reviews>>
vars == <<localVars, gateway, sent>>

-----------------------------------------------------------------------------
\* RETRYABLE is FAILED with the code STRIPE_PAYMENT_ATTEMPT_FAILED: a declined card in
\* a session that is still open.
AttemptStatuses ==
    {"NONE", "CREATED", "PENDING", "RETRYABLE", "SUCCEEDED", "FAILED", "EXPIRED",
     "CANCELED", "REQUIRES_REVIEW"}
InProgress == {"CREATED", "PENDING"}
Open == InProgress \cup {"RETRYABLE"}
Active == Open \cup {"REQUIRES_REVIEW"}

\* session: providerCheckoutId is stored.
AttemptRows ==
    [provider : {"STRIPE", "PAYPAL"}, status : AttemptStatuses, amount : Prices \cup {NoPrice},
     session : BOOLEAN]
AbsentAttempt == [provider |-> "STRIPE", status |-> "NONE", amount |-> NoPrice, session |-> FALSE]

CheckoutSteps == {"IDLE", "RESERVED", "SESSION"} \cup AttemptStatuses
GatewayStates == {"NONE", "OPEN", "APPROVED", "PENDING", "PAID", "FAILED", "EXPIRED"}

\* why: prepareOrderForEditing or expireCheckoutAfterCancellation, whose request has no
\* attempt until it has looked for one.  expired: Stripe has closed the session.
Closings ==
    {c \in [attempt : Attempts \cup {0}, why : {"EDIT", "CANCEL"}, expired : BOOLEAN] :
        c.expired => c.attempt # 0}

\* DECLINED is payment_intent.payment_failed; RESPONSE answers the capture call.
Notifications ==
    [attempt : Attempts, status : {"PENDING", "SUCCEEDED", "FAILED", "EXPIRED", "DECLINED"},
     via : {"WEBHOOK", "RESPONSE"}, consistent : BOOLEAN]

MusicTypeOK ==
    /\ order \in [status : {"AWAITING_PAYMENT", "PAYMENT_CONFIRMED", "CANCELLED"}, price : Prices]
    /\ attempts \in [Attempts -> AttemptRows]
    /\ checkout \in [Attempts -> CheckoutSteps]
    /\ captures \subseteq Attempts
    /\ closing \subseteq Closings
    /\ gateway \in [Attempts -> GatewayStates]
    /\ sent \subseteq Notifications
    /\ receipts \subseteq Notifications
    /\ reviews \subseteq receipts

\* finalizeOrder has submitted the draft; a draft has no payments.
Init ==
    /\ order \in [status : {"AWAITING_PAYMENT"}, price : Prices]
    /\ attempts = [a \in Attempts |-> AbsentAttempt]
    /\ checkout = [a \in Attempts |-> "IDLE"]
    /\ captures = {} /\ closing = {}
    /\ gateway = [a \in Attempts |-> "NONE"]
    /\ sent = {} /\ receipts = {} /\ reviews = {}

Awaiting == order.status = "AWAITING_PAYMENT"
Stripe(a) == attempts[a].provider = "STRIPE"

\* Mutant of Others: only the payments of the same provider are looked up.
OthersOfProvider(a) == {b \in Attempts \ {a} : attempts[b].provider = attempts[a].provider}

Others(a) == Attempts \ {a}
In(set, statuses) == \E a \in set : attempts[a].status \in statuses
Paid == In(Attempts, {"SUCCEEDED"})
AttemptsIn(provider, statuses) ==
    {a \in Attempts : attempts[a].provider = provider /\ attempts[a].status \in statuses}

\* The unique index payments_one_active_per_order_idx: a transaction that would give a
\* provider two active attempts fails.
IndexHolds ==
    \A a, b \in Attempts :
        a # b /\ attempts[a].provider = attempts[b].provider =>
            ~(attempts[a].status \in Active /\ attempts[b].status \in Active)

-----------------------------------------------------------------------------
(* The order: saveDraftOrder and finalizeOrder again, transitionOrderStatus.  *)

\* assertOrderEditableForPayment: every attempt is CANCELED or EXPIRED.
MayEdit == Awaiting /\ \A a \in Attempts : attempts[a].status \in {"NONE", "CANCELED", "EXPIRED"}

EditOrder(price) ==
    /\ MayEdit
    /\ price # order.price
    /\ order' = [order EXCEPT !.price = price]
    /\ UNCHANGED <<attempts, checkout, captures, closing, gateway, sent, receipts, reviews>>

\* The administrator's cancellation; the request goes on to close the open checkout.
CancelOrder ==
    /\ Awaiting
    /\ order' = [order EXCEPT !.status = "CANCELLED"]
    /\ closing' = closing \cup {[attempt |-> 0, why |-> "CANCEL", expired |-> FALSE]}
    /\ UNCHANGED <<attempts, checkout, captures, gateway, sent, receipts, reviews>>

-----------------------------------------------------------------------------
(* Checkout: createStripeCheckoutForOrder, createPaypalOrderForOrder.         *)

\* reserveProviderPaymentAttempt creates a row at the current price ...
StartAttempt(a, provider) ==
    /\ Awaiting /\ ~Paid
    /\ attempts[a].status = "NONE"
    /\ \A b \in Attempts : b < a => attempts[b].status # "NONE"
    /\ AttemptsIn(provider, Active) = {}
    /\ attempts' = [attempts EXCEPT ![a] = [AbsentAttempt EXCEPT
            !.provider = provider, !.status = "CREATED", !.amount = order.price]]
    /\ checkout' = [checkout EXCEPT ![a] = "RESERVED"]
    /\ UNCHANGED <<order, captures, closing, gateway, sent, receipts, reviews>>

\* ... or reuses the open one, unless its amount is no longer the price.
ResumeAttempt(a) ==
    /\ Awaiting /\ ~Paid
    /\ attempts[a].status \in Open
    /\ attempts[a].amount = order.price
    /\ checkout[a] = "IDLE"
    /\ checkout' = [checkout EXCEPT ![a] = "RESERVED"]
    /\ UNCHANGED <<order, attempts, captures, closing, gateway, sent, receipts, reviews>>

\* The provider call: the idempotency key of an attempt always gives the same session,
\* and a stored Stripe session is of use only while it is open.
ObtainSession(a) ==
    /\ checkout[a] = "RESERVED"
    /\ Stripe(a) /\ attempts[a].session => gateway[a] = "OPEN"
    /\ gateway' = [gateway EXCEPT ![a] = IF @ = "NONE" THEN "OPEN" ELSE @]
    /\ checkout' = [checkout EXCEPT ![a] = "SESSION"]
    /\ UNCHANGED <<order, attempts, captures, closing, sent, receipts, reviews>>

\* recordProviderCheckoutSession reads the attempt under the lock of that attempt ...
ReadForSession(a) ==
    /\ checkout[a] = "SESSION"
    /\ checkout' = [checkout EXCEPT ![a] = attempts[a].status]
    /\ UNCHANGED <<order, attempts, captures, closing, gateway, sent, receipts, reviews>>

Reading(a) == checkout[a] \in AttemptStatuses

\* The write would revive an attempt closed in between, against the unique index.
RevivalConflict(a) ==
    /\ checkout[a] \in InProgress
    /\ AttemptsIn(attempts[a].provider, Active) \ {a} # {}

\* ... and writes the session, and PENDING if the status it READ was in progress.
WriteSession(a) ==
    /\ Reading(a)
    /\ ~RevivalConflict(a)
    /\ attempts' = [attempts EXCEPT ![a].session = TRUE,
                                    ![a].status = IF checkout[a] \in InProgress THEN "PENDING" ELSE @]
    /\ checkout' = [checkout EXCEPT ![a] = "IDLE"]
    /\ UNCHANGED <<order, captures, closing, gateway, sent, receipts, reviews>>

\* inLockedPaymentTransaction runs again after P2002.
RetryRecordSession(a) ==
    /\ Reading(a)
    /\ RevivalConflict(a)
    /\ checkout' = [checkout EXCEPT ![a] = "SESSION"]
    /\ UNCHANGED <<order, attempts, captures, closing, gateway, sent, receipts, reviews>>

\* The process dies, the provider answers an error or the transaction times out.
AbandonCheckout(a) ==
    /\ checkout[a] # "IDLE"
    /\ checkout' = [checkout EXCEPT ![a] = "IDLE"]
    /\ UNCHANGED <<order, attempts, captures, closing, gateway, sent, receipts, reviews>>

\* reserveCapture, for the PayPal order that the member approved.
ReserveCapture(a) ==
    /\ a \notin captures
    /\ Awaiting /\ ~Paid
    /\ ~Stripe(a) /\ attempts[a].status \in InProgress /\ attempts[a].session
    /\ captures' = captures \cup {a}
    /\ UNCHANGED <<order, attempts, checkout, closing, gateway, sent, receipts, reviews>>

-----------------------------------------------------------------------------
(* Closing the open checkout.                                                 *)

\* findCheckout: attempts without a session and PayPal orders are CANCELED at once, a
\* Stripe session must be closed at Stripe first.  A paid or reviewed attempt stops it.
FindCheckout(request) ==
    LET closed == {a \in Attempts :
            /\ attempts[a].status \in InProgress
            /\ ~(Stripe(a) /\ attempts[a].session)}
        open == {a \in AttemptsIn("STRIPE", Open) : attempts[a].session}
    IN  /\ ~In(Attempts, {"SUCCEEDED", "REQUIRES_REVIEW"})
        /\ attempts' = [a \in Attempts |->
                IF a \in closed THEN [attempts[a] EXCEPT !.status = "CANCELED"] ELSE attempts[a]]
        /\ closing' = (closing \ {request}) \cup
                {[request EXCEPT !.attempt = a] : a \in {x \in open : \A b \in open : b <= x}}
        /\ UNCHANGED <<order, checkout, captures, gateway, sent, receipts, reviews>>

PrepareEdit ==
    /\ Awaiting
    /\ FindCheckout([attempt |-> 0, why |-> "EDIT", expired |-> FALSE])

CloseAfterCancellation(c) ==
    /\ c.attempt = 0
    /\ FindCheckout(c)

\* expireHostedCheckout closes an open session; for one already closed the idempotency
\* key may replay that answer.
ExpireAtStripe(c) ==
    /\ c.attempt # 0 /\ ~c.expired
    /\ gateway[c.attempt] \in {"OPEN", "EXPIRED"}
    /\ gateway' = [gateway EXCEPT ![c.attempt] = "EXPIRED"]
    /\ sent' = sent \cup {[attempt |-> c.attempt, status |-> "EXPIRED", via |-> "WEBHOOK",
                           consistent |-> TRUE]}
    /\ closing' = (closing \ {c}) \cup {[c EXCEPT !.expired = TRUE]}
    /\ UNCHANGED <<order, attempts, checkout, captures, receipts, reviews>>

SetStatus(a, status) == attempts' = [attempts EXCEPT ![a].status = status]

\* markCheckoutExpired, unless the attempt was paid or went to review meanwhile.
MarkExpired(c) ==
    /\ c.expired /\ ~Reading(c.attempt)
    /\ attempts[c.attempt].status \notin {"SUCCEEDED", "REQUIRES_REVIEW"}
    /\ SetStatus(c.attempt, "EXPIRED")
    /\ closing' = closing \ {c}
    /\ UNCHANGED <<order, checkout, captures, gateway, sent, receipts, reviews>>

\* Any failure after a cancellation: markCheckoutReview, unless the attempt was paid.
ReviewAfterCancellation(c) ==
    /\ c.why = "CANCEL" /\ c.attempt # 0 /\ ~Reading(c.attempt)
    /\ SetStatus(c.attempt, IF attempts[c.attempt].status = "SUCCEEDED" THEN "SUCCEEDED"
                            ELSE "REQUIRES_REVIEW")
    /\ IndexHolds'
    /\ closing' = closing \ {c}
    /\ UNCHANGED <<order, checkout, captures, gateway, sent, receipts, reviews>>

\* The process dies, or an edit is refused.
AbandonClosing(c) ==
    /\ closing' = closing \ {c}
    /\ UNCHANGED <<order, attempts, checkout, captures, gateway, sent, receipts, reviews>>

-----------------------------------------------------------------------------
(* External: Stripe, PayPal and the member, who receives the payment page     *)
(* only once recordSession has committed.                                     *)

Notice(a, status, via, consistent) ==
    [attempt |-> a, status |-> status, via |-> via, consistent |-> consistent]
Webhook(a, status) == {Notice(a, status, "WEBHOOK", TRUE)}

Provider(a, from, to, notices) ==
    /\ gateway[a] = from
    /\ gateway' = [gateway EXCEPT ![a] = to]
    /\ sent' = sent \cup notices
    /\ UNCHANGED localVars

\* Stripe: the card is declined, the session stays open.
DeclineCard(a) ==
    Stripe(a) /\ attempts[a].session /\ Provider(a, "OPEN", "OPEN", Webhook(a, "DECLINED"))

\* Stripe: the session is paid, or completed with a payment still to settle.
PaySession(a, consistent) ==
    /\ Stripe(a) /\ attempts[a].session
    /\ \/ Provider(a, "OPEN", "PAID", {Notice(a, "SUCCEEDED", "WEBHOOK", consistent)})
       \/ Provider(a, "OPEN", "PENDING", Webhook(a, "PENDING"))

ExpireSession(a) ==
    Stripe(a) /\ Provider(a, "OPEN", "EXPIRED", Webhook(a, "EXPIRED"))

\* PayPal: the member approves the order, which captures nothing.
ApproveOrder(a) ==
    ~Stripe(a) /\ attempts[a].session /\ Provider(a, "OPEN", "APPROVED", Webhook(a, "PENDING"))

\* PayPal: the capture call allowed by reserveCapture; its webhook and its answer, which
\* is dropped when it contradicts the reservation.
CaptureOrder(a, consistent) ==
    /\ a \in captures
    /\ \/ Provider(a, "APPROVED", "PAID", {Notice(a, "SUCCEEDED", "WEBHOOK", consistent),
                                          Notice(a, "SUCCEEDED", "RESPONSE", TRUE)})
       \/ Provider(a, "APPROVED", "PENDING", Webhook(a, "PENDING"))
       \/ Provider(a, "APPROVED", "FAILED", Webhook(a, "FAILED"))

\* A payment that was pending settles.
SettlePayment(a, consistent) ==
    \/ Provider(a, "PENDING", "PAID", {Notice(a, "SUCCEEDED", "WEBHOOK", consistent)})
    \/ Provider(a, "PENDING", "FAILED", Webhook(a, "FAILED"))

-----------------------------------------------------------------------------
(* Reconciliation: one transaction under the locks of the notification, of    *)
(* the attempt (not while recordSession holds it) and of the order.           *)

Receive(e, review) ==
    /\ receipts' = receipts \cup {e}
    /\ reviews' = IF review THEN reviews \cup {e} ELSE reviews
    /\ UNCHANGED <<checkout, captures, closing, gateway, sent>>

\* Mutant of Keep: what changes no attempt asks for no review.
KeepQuietly(e, review) == Receive(e, FALSE) /\ UNCHANGED <<order, attempts>>

Keep(e, review) == Receive(e, review) /\ UNCHANGED <<order, attempts>>

\* The row takes the status, the order stays.
Note(e, status, review) ==
    Receive(e, review) /\ SetStatus(e.attempt, status) /\ UNCHANGED order

\* The attempt wins: the order is confirmed and every other open attempt is CANCELED.
Confirm(e) ==
    /\ Awaiting
    /\ attempts' = [a \in Attempts |->
            IF a = e.attempt THEN [attempts[a] EXCEPT !.status = "SUCCEEDED"]
            ELSE IF attempts[a].status \in Open THEN [attempts[a] EXCEPT !.status = "CANCELED"]
            ELSE attempts[a]]
    /\ order' = [order EXCEPT !.status = "PAYMENT_CONFIRMED"]
    /\ Receive(e, FALSE)

\* reviewPlan: the attempt takes the review slot of its provider, unless it has won or
\* another attempt is active; then only the failure code changes, and a refusal is no
\* longer retryable.
ReviewAttempt(e) ==
    LET a == e.attempt
        status == attempts[a].status
        marked == \/ status \in InProgress \cup {"REQUIRES_REVIEW"}
                  \/ status # "SUCCEEDED" /\ ~In(Others(a), Active)
    IN  Note(e, IF marked THEN "REQUIRES_REVIEW"
                ELSE IF status = "RETRYABLE" THEN "FAILED" ELSE status,
             TRUE)

\* firstMismatch, and a declined card of a session that is not stored.
StripeMismatch(e) == ~e.consistent \/ (e.status = "DECLINED" /\ ~attempts[e.attempt].session)

\* planStripeCheckoutReconciliation for a paid session.  A closed attempt still wins
\* while the order awaits its payment.
StripePaid(e) ==
    LET a == e.attempt
        status == attempts[a].status
        refused == \/ StripeMismatch(e)
                   \/ In(Others(a), {"SUCCEEDED"})
                   \/ status # "REQUIRES_REVIEW" /\ order.status = "CANCELLED"
    IN  \/ refused /\ ReviewAttempt(e)
        \/ ~refused /\ status = "REQUIRES_REVIEW" /\ Keep(e, TRUE)
        \/ ~refused /\ status = "SUCCEEDED" /\ Keep(e, FALSE)
        \/ /\ ~refused /\ status \notin {"REQUIRES_REVIEW", "SUCCEEDED"}
           /\ IF Awaiting THEN Confirm(e) ELSE Note(e, "SUCCEEDED", FALSE)

\* ... for a session completed without payment, a late failure and an expiry,
StripeUnpaid(e) ==
    LET status == attempts[e.attempt].status
        moves == status \in (IF e.status = "PENDING" THEN {"CREATED"} ELSE Open)
    IN  /\ Receive(e, status = "REQUIRES_REVIEW")
        /\ attempts' = [attempts EXCEPT ![e.attempt].status = IF moves THEN e.status ELSE @,
                                        ![e.attempt].session = TRUE]
        /\ UNCHANGED order

\* and planStripePaymentIntentFailure for a declined card: any other active attempt,
\* of PayPal too, sends it to review.
StripeDeclined(e) ==
    LET a == e.attempt
        refused == StripeMismatch(e) \/ In(Others(a), Active \cup {"SUCCEEDED"})
        status == attempts[a].status
    IN  \/ refused /\ ReviewAttempt(e)
        \/ ~refused /\ status \in Open /\ Note(e, "RETRYABLE", FALSE)
        \/ ~refused /\ status \notin Open /\ Keep(e, status = "REQUIRES_REVIEW")

\* Mutant of PaypalMismatch: the price the order has now is not read.
PaypalMismatchWithRow(e) == ~e.consistent

\* reconcile of PayPal compares the notification with the row, and the row with the
\* price that the order has now.
PaypalMismatch(e) == ~e.consistent \/ attempts[e.attempt].amount # order.price

PaypalReview(e) ==
    Note(e, IF attempts[e.attempt].status \in InProgress THEN "REQUIRES_REVIEW"
            ELSE attempts[e.attempt].status, TRUE)

PaypalOpenOrFailed(e) ==
    IF attempts[e.attempt].status \in InProgress THEN Note(e, e.status, FALSE) ELSE Keep(e, FALSE)

\* A completed capture: a second winner always goes to review; a closed attempt keeps
\* its status and only its receipt asks for a review.
PaypalCaptured(e) ==
    LET status == attempts[e.attempt].status
    IN  IF In(Others(e.attempt), {"SUCCEEDED"}) THEN Note(e, "REQUIRES_REVIEW", TRUE)
        ELSE IF status = "SUCCEEDED" THEN Keep(e, FALSE)
        ELSE IF status \notin InProgress THEN Keep(e, TRUE)
        ELSE IF ~Awaiting THEN Note(e, "REQUIRES_REVIEW", TRUE)
        ELSE Confirm(e)

ReconcileStripe(e) ==
    /\ Stripe(e.attempt)
    /\ \/ e.status = "SUCCEEDED" /\ StripePaid(e)
       \/ e.status \in {"PENDING", "FAILED", "EXPIRED"} /\ StripeUnpaid(e)
       \/ e.status = "DECLINED" /\ StripeDeclined(e)

ReconcilePaypal(e) ==
    /\ ~Stripe(e.attempt)
    /\ \/ PaypalMismatch(e) /\ PaypalReview(e)
       \/ ~PaypalMismatch(e) /\ e.status \in {"PENDING", "FAILED"} /\ PaypalOpenOrFailed(e)
       \/ ~PaypalMismatch(e) /\ e.status = "SUCCEEDED" /\ PaypalCaptured(e)

Reconcile(e) ==
    /\ e \notin receipts
    /\ ~Reading(e.attempt)
    /\ ReconcileStripe(e) \/ ReconcilePaypal(e)
    /\ IndexHolds'

-----------------------------------------------------------------------------
CheckoutStep ==
    \E a \in Attempts :
        \/ \E provider \in Providers : StartAttempt(a, provider)
        \/ ResumeAttempt(a) \/ ObtainSession(a) \/ ReadForSession(a) \/ WriteSession(a)
        \/ RetryRecordSession(a) \/ AbandonCheckout(a) \/ ReserveCapture(a)

OrderStep ==
    \/ \E price \in Prices : EditOrder(price)
    \/ CancelOrder
    \/ PrepareEdit
    \/ \E c \in closing :
        \/ CloseAfterCancellation(c) \/ ExpireAtStripe(c) \/ MarkExpired(c)
        \/ ReviewAfterCancellation(c) \/ AbandonClosing(c)

ProviderStep ==
    \E a \in Attempts :
        \/ DeclineCard(a) \/ ExpireSession(a) \/ ApproveOrder(a)
        \/ \E consistent \in Evidence :
            PaySession(a, consistent) \/ CaptureOrder(a, consistent) \/ SettlePayment(a, consistent)

ReconcileStep == \E e \in sent : Reconcile(e)

Next == CheckoutStep \/ OrderStep \/ ProviderStep \/ ReconcileStep

Spec == Init /\ [][Next]_vars

-----------------------------------------------------------------------------
(* Safety. *)

\* A confirmed order has exactly one winner, and only a confirmed order has one: a
\* success that arrives after an edit, a cancellation or another winner is refused.
OneWinner ==
    /\ order.status = "PAYMENT_CONFIRMED" <=> Paid
    /\ \A a, b \in Attempts :
        attempts[a].status = "SUCCEEDED" /\ attempts[b].status = "SUCCEEDED" => a = b

\* No captured payment is lost: once a success has its receipt, the attempt has won or
\* a human is told, by the attempt or by the receipt.
MoneyAccounted ==
    \A e \in receipts : e.status = "SUCCEEDED" =>
        \/ attempts[e.attempt].status \in {"SUCCEEDED", "REQUIRES_REVIEW"}
        \/ e \in reviews

\* A PayPal payment confirms an order at the price it has: an edit between the
\* approval and the capture is noticed.
PaypalAtCurrentPrice ==
    \A a \in Attempts : ~Stripe(a) /\ attempts[a].status = "SUCCEEDED" =>
        attempts[a].amount = order.price

-----------------------------------------------------------------------------
(* What a document says and the code does not do. *)

\* docs/CHECKOUT.md:63: a session at the old amount never stays payable after an edit
\* that changes the total.  TLC finds a session that was asked for before an edit and
\* recorded after it: README.md, section 6.
SessionAtCurrentPrice ==
    \A a \in Attempts :
        Awaiting /\ Stripe(a) /\ attempts[a].session /\ gateway[a] = "OPEN" =>
            attempts[a].amount = order.price
=============================================================================

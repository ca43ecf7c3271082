------------------------- MODULE MusicPaymentsProofs -------------------------
(***************************************************************************)
(* Proofs about MusicPayments, for every number of attempts, every set of   *)
(* prices and whatever the evidence says.                                   *)
(***************************************************************************)
EXTENDS MusicPayments, TLAPS

(* An attempt that recordSession has read as in progress may have been cancelled since *)
(* and nothing else, since reconcile waits for the lock of the attempt.  Without this  *)
(* the write of recordSession could undo a success.                                    *)
StaleReads ==
    \A a \in Attempts :
        checkout[a] \in InProgress => attempts[a].status \in {"CREATED", "PENDING", "CANCELED"}

MusicInv == MusicTypeOK /\ StaleReads /\ OneWinner /\ MoneyAccounted /\ PaypalAtCurrentPrice

-----------------------------------------------------------------------------
(* Type correctness.                                                          *)

LEMMA SetStatusType ==
    ASSUME MusicTypeOK, NEW a \in Attempts, NEW status \in AttemptStatuses, SetStatus(a, status)
    PROVE  attempts' \in [Attempts -> AttemptRows]
BY DEF MusicTypeOK, SetStatus, AttemptRows

LEMMA InitType == Init => MusicTypeOK
BY DEF Init, MusicTypeOK, AbsentAttempt, AttemptRows, AttemptStatuses, CheckoutSteps, GatewayStates

LEMMA CheckoutType ==
    ASSUME MusicTypeOK, NEW a \in Attempts
    PROVE  /\ \A provider \in Providers : StartAttempt(a, provider) => MusicTypeOK'
           /\ ResumeAttempt(a) => MusicTypeOK'
           /\ ObtainSession(a) => MusicTypeOK'
           /\ ReadForSession(a) => MusicTypeOK'
           /\ WriteSession(a) => MusicTypeOK'
           /\ RetryRecordSession(a) => MusicTypeOK'
           /\ AbandonCheckout(a) => MusicTypeOK'
           /\ ReserveCapture(a) => MusicTypeOK'
<1> USE DEF MusicTypeOK
<1>1. ASSUME NEW provider \in Providers, StartAttempt(a, provider) PROVE MusicTypeOK'
  <2>1. [AbsentAttempt EXCEPT !.provider = provider, !.status = "CREATED", !.amount = order.price]
            \in AttemptRows
    BY MusicAssumption DEF AbsentAttempt, AttemptRows, AttemptStatuses
  <2> QED
    BY <1>1, <2>1 DEF StartAttempt, CheckoutSteps
<1>2. ASSUME ResumeAttempt(a) PROVE MusicTypeOK'
  BY <1>2 DEF ResumeAttempt, CheckoutSteps
<1>3. ASSUME ObtainSession(a) PROVE MusicTypeOK'
  BY <1>3 DEF ObtainSession, CheckoutSteps, GatewayStates
<1>4. ASSUME ReadForSession(a) PROVE MusicTypeOK'
  BY <1>4 DEF ReadForSession, CheckoutSteps, AttemptRows
<1>5. ASSUME WriteSession(a) PROVE MusicTypeOK'
  <2> DEFINE new == IF checkout[a] \in InProgress THEN "PENDING" ELSE attempts[a].status
  <2>1. new \in AttemptStatuses
    BY DEF AttemptRows, AttemptStatuses
  <2>2. attempts' = [attempts EXCEPT ![a].session = TRUE, ![a].status = new]
    BY <1>5 DEF WriteSession
  <2> HIDE DEF new
  <2>3. attempts' \in [Attempts -> AttemptRows]
    BY <2>1, <2>2, ZenonT(40) DEF AttemptRows
  <2> QED
    BY <1>5, <2>3 DEF WriteSession, CheckoutSteps
<1>6. ASSUME RetryRecordSession(a) PROVE MusicTypeOK'
  BY <1>6 DEF RetryRecordSession, CheckoutSteps
<1>7. ASSUME AbandonCheckout(a) PROVE MusicTypeOK'
  BY <1>7 DEF AbandonCheckout, CheckoutSteps
<1>8. ASSUME ReserveCapture(a) PROVE MusicTypeOK'
  BY <1>8 DEF ReserveCapture
<1> QED
  BY <1>1, <1>2, <1>3, <1>4, <1>5, <1>6, <1>7, <1>8

LEMMA FindCheckoutType ==
    ASSUME MusicTypeOK, NEW request \in Closings, FindCheckout(request)
    PROVE  MusicTypeOK'
<1>1. attempts' \in [Attempts -> AttemptRows]
  BY ZenonT(40) DEF FindCheckout, MusicTypeOK, AttemptRows, AttemptStatuses
<1>2. closing' \subseteq Closings
  <2>1. \A a \in Attempts : [request EXCEPT !.attempt = a] \in Closings
    BY DEF Closings, Attempts
  <2>2. AttemptsIn("STRIPE", Open) \subseteq Attempts
    BY DEF AttemptsIn
  <2> QED
    BY <2>1, <2>2 DEF FindCheckout, MusicTypeOK
<1> QED
  BY <1>1, <1>2 DEF FindCheckout, MusicTypeOK

LEMMA OrderType ==
    ASSUME MusicTypeOK, OrderStep
    PROVE  MusicTypeOK'
<1> USE DEF MusicTypeOK
<1>1. ASSUME NEW price \in Prices, EditOrder(price) PROVE MusicTypeOK'
  BY <1>1 DEF EditOrder
<1>2. CASE CancelOrder
  <2>1. [attempt |-> 0, why |-> "CANCEL", expired |-> FALSE] \in Closings
    BY DEF Closings
  <2>2. closing' \subseteq Closings
    BY <1>2, <2>1 DEF CancelOrder
  <2> QED
    BY <1>2, <2>2 DEF CancelOrder
<1>3. CASE PrepareEdit
  BY <1>3, FindCheckoutType DEF PrepareEdit, Closings
<1>4. ASSUME NEW c \in closing, CloseAfterCancellation(c) PROVE MusicTypeOK'
  BY <1>4, FindCheckoutType DEF CloseAfterCancellation
<1>5. ASSUME NEW c \in closing, ExpireAtStripe(c) PROVE MusicTypeOK'
  <2>1. c.attempt \in Attempts /\ [c EXCEPT !.expired = TRUE] \in Closings
    BY <1>5 DEF ExpireAtStripe, Closings
  <2>2. [attempt |-> c.attempt, status |-> "EXPIRED", via |-> "WEBHOOK", consistent |-> TRUE]
            \in Notifications
    BY <2>1 DEF Notifications
  <2>3. gateway' \in [Attempts -> GatewayStates] /\ sent' \subseteq Notifications
    BY <1>5, <2>2 DEF ExpireAtStripe, GatewayStates
  <2>4. closing' \subseteq Closings
    BY <1>5, <2>1 DEF ExpireAtStripe
  <2> QED
    BY <1>5, <2>3, <2>4 DEF ExpireAtStripe
<1>6. ASSUME NEW c \in closing, MarkExpired(c) PROVE MusicTypeOK'
  <2>1. c.attempt \in Attempts
    BY <1>6 DEF Closings, MarkExpired
  <2>2. attempts' \in [Attempts -> AttemptRows]
    BY <1>6, <2>1, SetStatusType DEF MarkExpired, AttemptStatuses
  <2> QED
    BY <1>6, <2>2 DEF MarkExpired
<1>7. ASSUME NEW c \in closing, ReviewAfterCancellation(c) PROVE MusicTypeOK'
  <2>1. c.attempt \in Attempts
    BY <1>7 DEF ReviewAfterCancellation, Closings
  <2>2. attempts' \in [Attempts -> AttemptRows]
    BY <1>7, <2>1, SetStatusType DEF ReviewAfterCancellation, AttemptStatuses
  <2> QED
    BY <1>7, <2>2 DEF ReviewAfterCancellation
<1>8. ASSUME NEW c \in closing, AbandonClosing(c) PROVE MusicTypeOK'
  BY <1>8 DEF AbandonClosing
<1> QED
  BY <1>1, <1>2, <1>3, <1>4, <1>5, <1>6, <1>7, <1>8 DEF OrderStep

LEMMA ProviderType ==
    ASSUME MusicTypeOK, ProviderStep
    PROVE  MusicTypeOK' /\ UNCHANGED localVars
<1>1. ASSUME NEW a \in Attempts, NEW from, NEW to \in GatewayStates,
             NEW notices \in SUBSET Notifications, Provider(a, from, to, notices)
      PROVE  MusicTypeOK' /\ UNCHANGED localVars
  BY <1>1 DEF Provider, MusicTypeOK, localVars
<1>2. \A a \in Attempts, status \in {"PENDING", "SUCCEEDED", "FAILED", "EXPIRED", "DECLINED"},
         via \in {"WEBHOOK", "RESPONSE"}, consistent \in BOOLEAN :
            Notice(a, status, via, consistent) \in Notifications
  BY DEF Notice, Notifications
<1>3. PICK a \in Attempts :
        \/ DeclineCard(a) \/ ExpireSession(a) \/ ApproveOrder(a)
        \/ \E consistent \in Evidence :
            PaySession(a, consistent) \/ CaptureOrder(a, consistent) \/ SettlePayment(a, consistent)
  BY DEF ProviderStep
<1>4. CASE DeclineCard(a) \/ ExpireSession(a) \/ ApproveOrder(a)
  <2>1. \A status \in {"DECLINED", "EXPIRED", "PENDING"} :
            Webhook(a, status) \in SUBSET Notifications
    BY <1>2 DEF Webhook
  <2>2. {"OPEN", "EXPIRED", "APPROVED"} \subseteq GatewayStates
    BY DEF GatewayStates
  <2> QED
    BY <1>1, <1>4, <2>1, <2>2 DEF DeclineCard, ExpireSession, ApproveOrder
<1>5. ASSUME NEW consistent \in Evidence,
             PaySession(a, consistent) \/ CaptureOrder(a, consistent) \/ SettlePayment(a, consistent)
      PROVE  MusicTypeOK' /\ UNCHANGED localVars
  <2>1. consistent \in BOOLEAN
    BY MusicAssumption
  <2>2. \A status \in {"PENDING", "FAILED"} : Webhook(a, status) \in SUBSET Notifications
    BY <1>2 DEF Webhook
  <2>3. /\ Notice(a, "SUCCEEDED", "WEBHOOK", consistent) \in Notifications
        /\ Notice(a, "SUCCEEDED", "RESPONSE", TRUE) \in Notifications
    BY <1>2, <2>1
  <2>4. {"PAID", "PENDING", "FAILED"} \subseteq GatewayStates
    BY DEF GatewayStates
  <2>5. CASE PaySession(a, consistent)
    BY <1>1, <2>2, <2>3, <2>4, <2>5 DEF PaySession
  <2>6. CASE CaptureOrder(a, consistent)
    <3>1. {Notice(a, "SUCCEEDED", "WEBHOOK", consistent), Notice(a, "SUCCEEDED", "RESPONSE", TRUE)}
              \in SUBSET Notifications
      BY <2>3
    <3> QED
      BY <1>1, <2>2, <2>4, <2>6, <3>1 DEF CaptureOrder
  <2>7. CASE SettlePayment(a, consistent)
    BY <1>1, <2>2, <2>3, <2>4, <2>7 DEF SettlePayment
  <2> QED
    BY <1>5, <2>5, <2>6, <2>7
<1> QED
  BY <1>3, <1>4, <1>5
-----------------------------------------------------------------------------
(* What a notification can do: it wins, or it moves its own attempt only.     *)

Wins(e) ==
    /\ Confirm(e)
    /\ Stripe(e.attempt) \/ attempts[e.attempt].amount = order.price

\* The attempt neither gains nor loses a success, no review is taken away, and a success
\* that does not win asks for a review unless its attempt has won already.
Moves(e, status, session, review) ==
    /\ attempts' = [attempts EXCEPT ![e.attempt].status = status, ![e.attempt].session = session]
    /\ UNCHANGED order
    /\ Receive(e, review)
    /\ status = "SUCCEEDED" <=> attempts[e.attempt].status = "SUCCEEDED"
    /\ attempts[e.attempt].status = "REQUIRES_REVIEW" => status = "REQUIRES_REVIEW"
    /\ e.status = "SUCCEEDED" => review \/ status \in {"SUCCEEDED", "REQUIRES_REVIEW"}

Outcome(e) ==
    \/ Wins(e)
    \/ \E status \in AttemptStatuses, session, review \in BOOLEAN : Moves(e, status, session, review)

LEMMA NoteMoves ==
    ASSUME MusicTypeOK, NEW e \in sent, NEW status \in AttemptStatuses, NEW review \in BOOLEAN,
           Note(e, status, review),
           status = "SUCCEEDED" <=> attempts[e.attempt].status = "SUCCEEDED",
           attempts[e.attempt].status = "REQUIRES_REVIEW" => status = "REQUIRES_REVIEW",
           e.status = "SUCCEEDED" => review \/ status \in {"SUCCEEDED", "REQUIRES_REVIEW"}
    PROVE  Outcome(e)
<1> DEFINE session == attempts[e.attempt].session
<1>1. e.attempt \in Attempts /\ session \in BOOLEAN
  BY DEF MusicTypeOK, Notifications, AttemptRows
<1>2. attempts' = [attempts EXCEPT ![e.attempt].status = status, ![e.attempt].session = session]
  BY <1>1 DEF Note, SetStatus, MusicTypeOK, AttemptRows
<1>3. Moves(e, status, session, review)
  BY <1>2 DEF Moves, Note
<1> QED
  BY <1>1, <1>3 DEF Outcome

LEMMA KeepMoves ==
    ASSUME MusicTypeOK, NEW e \in sent, NEW review \in BOOLEAN, Keep(e, review),
           e.status = "SUCCEEDED" =>
                review \/ attempts[e.attempt].status \in {"SUCCEEDED", "REQUIRES_REVIEW"}
    PROVE  Outcome(e)
<1>1. e.attempt \in Attempts /\ attempts[e.attempt].status \in AttemptStatuses
  BY DEF MusicTypeOK, Notifications, AttemptRows
<1>2. Note(e, attempts[e.attempt].status, review)
  BY <1>1 DEF Keep, Note, SetStatus, MusicTypeOK, AttemptRows
<1> QED
  BY <1>1, <1>2, NoteMoves

LEMMA ReviewMoves ==
    ASSUME MusicTypeOK, NEW e \in sent, ReviewAttempt(e)
    PROVE  Outcome(e)
<1> DEFINE old == attempts[e.attempt].status
           new == IF \/ old \in InProgress \cup {"REQUIRES_REVIEW"}
                     \/ old # "SUCCEEDED" /\ ~In(Others(e.attempt), Active)
                  THEN "REQUIRES_REVIEW" ELSE IF old = "RETRYABLE" THEN "FAILED" ELSE old
<1>1. Note(e, new, TRUE)
  BY DEF ReviewAttempt
<1>2. old \in AttemptStatuses
  BY DEF MusicTypeOK, Notifications, AttemptRows
<1>3. new \in AttemptStatuses
  BY <1>2 DEF AttemptStatuses
<1>4. new = "SUCCEEDED" <=> old = "SUCCEEDED"
  BY DEF InProgress
<1>5. old = "REQUIRES_REVIEW" => new = "REQUIRES_REVIEW"
  OBVIOUS
<1> HIDE DEF new
<1> QED
  BY <1>1, <1>3, <1>4, <1>5, NoteMoves

LEMMA StripeOutcome ==
    ASSUME MusicTypeOK, OneWinner, NEW e \in sent, ReconcileStripe(e)
    PROVE  Outcome(e)
<1> DEFINE status == attempts[e.attempt].status
<1>1. e.attempt \in Attempts /\ status \in AttemptStatuses
  BY DEF MusicTypeOK, Notifications, AttemptRows
<1>2. CASE ReviewAttempt(e)
  BY <1>2, ReviewMoves
<1>3. CASE e.status = "SUCCEEDED" /\ StripePaid(e)
  <2> DEFINE refused == \/ StripeMismatch(e)
                        \/ In(Others(e.attempt), {"SUCCEEDED"})
                        \/ status # "REQUIRES_REVIEW" /\ order.status = "CANCELLED"
  <2>1. CASE ~refused /\ status = "REQUIRES_REVIEW" /\ Keep(e, TRUE)
    BY <2>1, KeepMoves
  <2>2. CASE ~refused /\ status = "SUCCEEDED" /\ Keep(e, FALSE)
    BY <2>2, KeepMoves
  <2>3. CASE /\ ~refused /\ status \notin {"REQUIRES_REVIEW", "SUCCEEDED"}
             /\ IF Awaiting THEN Confirm(e) ELSE Note(e, "SUCCEEDED", FALSE)
    <3>1. CASE Awaiting
      BY <2>3, <3>1 DEF Outcome, Wins, ReconcileStripe
    <3>2. CASE ~Awaiting
      <4>1. order.status = "PAYMENT_CONFIRMED"
        BY <2>3, <3>2 DEF Awaiting, MusicTypeOK
      <4>2. PICK b \in Attempts : attempts[b].status = "SUCCEEDED"
        BY <4>1 DEF OneWinner, Paid, In
      <4>3. b # e.attempt
        BY <2>3, <4>2
      <4>4. In(Others(e.attempt), {"SUCCEEDED"})
        BY <4>2, <4>3 DEF In, Others
      <4> QED
        BY <2>3, <4>4
    <3> QED
      BY <3>1, <3>2
  <2> QED
    BY <1>2, <1>3, <2>1, <2>2, <2>3 DEF StripePaid
<1>4. CASE e.status \in {"PENDING", "FAILED", "EXPIRED"} /\ StripeUnpaid(e)
  <2> DEFINE moves == status \in (IF e.status = "PENDING" THEN {"CREATED"} ELSE Open)
             new == IF moves THEN e.status ELSE status
             review == status = "REQUIRES_REVIEW"
  <2>1. new \in AttemptStatuses /\ review \in BOOLEAN
    BY <1>1, <1>4 DEF AttemptStatuses
  <2>2. attempts' = [attempts EXCEPT ![e.attempt].status = new, ![e.attempt].session = TRUE]
    BY <1>1, <1>4 DEF StripeUnpaid, MusicTypeOK, AttemptRows
  <2>3. new = "SUCCEEDED" <=> status = "SUCCEEDED"
    BY <1>4 DEF Open, InProgress
  <2>4. status = "REQUIRES_REVIEW" => new = "REQUIRES_REVIEW"
    BY <1>4 DEF Open, InProgress
  <2>5. Receive(e, review) /\ UNCHANGED order
    BY <1>4 DEF StripeUnpaid
  <2> HIDE DEF new, review
  <2>6. Moves(e, new, TRUE, review)
    BY <1>4, <2>2, <2>3, <2>4, <2>5 DEF Moves
  <2> QED
    BY <2>1, <2>6 DEF Outcome
<1>5. CASE e.status = "DECLINED" /\ StripeDeclined(e)
  <2>1. CASE status \in Open /\ Note(e, "RETRYABLE", FALSE)
    BY <1>5, <2>1, NoteMoves DEF Open, InProgress, AttemptStatuses
  <2>2. CASE Keep(e, status = "REQUIRES_REVIEW")
    BY <1>5, <2>2, KeepMoves
  <2> QED
    BY <1>2, <1>5, <2>1, <2>2 DEF StripeDeclined
<1> QED
  BY <1>3, <1>4, <1>5 DEF ReconcileStripe

LEMMA PaypalOutcome ==
    ASSUME MusicTypeOK, OneWinner, NEW e \in sent, ReconcilePaypal(e)
    PROVE  Outcome(e)
<1> DEFINE status == attempts[e.attempt].status
<1>1. e.attempt \in Attempts /\ status \in AttemptStatuses
  BY DEF MusicTypeOK, Notifications, AttemptRows
<1>2. CASE PaypalReview(e)
  <2>1. CASE status \in InProgress
    <3>1. Note(e, "REQUIRES_REVIEW", TRUE)
      BY <1>2, <2>1 DEF PaypalReview
    <3> QED
      BY <2>1, <3>1, NoteMoves DEF InProgress, AttemptStatuses
  <2>2. CASE status \notin InProgress
    <3>1. Note(e, status, TRUE)
      BY <1>2, <2>2 DEF PaypalReview
    <3> QED
      BY <1>1, <3>1, NoteMoves
  <2> QED
    BY <2>1, <2>2
<1>3. CASE e.status \in {"PENDING", "FAILED"} /\ PaypalOpenOrFailed(e)
  <2>1. CASE status \in InProgress
    <3>1. Note(e, e.status, FALSE)
      BY <1>3, <2>1 DEF PaypalOpenOrFailed
    <3> QED
      BY <1>3, <2>1, <3>1, NoteMoves DEF InProgress, AttemptStatuses
  <2>2. CASE status \notin InProgress
    <3>1. Keep(e, FALSE)
      BY <1>3, <2>2 DEF PaypalOpenOrFailed
    <3> QED
      BY <1>3, <3>1, KeepMoves
  <2> QED
    BY <2>1, <2>2
<1>4. CASE ~PaypalMismatch(e) /\ e.status = "SUCCEEDED" /\ PaypalCaptured(e)
  <2>1. In(Others(e.attempt), {"SUCCEEDED"}) => status # "SUCCEEDED"
    BY <1>1 DEF In, Others, OneWinner
  <2>2. CASE Note(e, "REQUIRES_REVIEW", TRUE) /\ status # "SUCCEEDED"
    BY <2>2, NoteMoves DEF AttemptStatuses
  <2>3. CASE status = "SUCCEEDED" /\ Keep(e, FALSE)
    BY <2>3, KeepMoves
  <2>4. CASE Keep(e, TRUE)
    BY <2>4, KeepMoves
  <2>5. CASE Confirm(e)
    BY <1>4, <2>5 DEF Outcome, Wins, PaypalMismatch
  <2> QED
    BY <1>4, <2>1, <2>2, <2>3, <2>4, <2>5 DEF PaypalCaptured
<1> QED
  BY <1>2, <1>3, <1>4 DEF ReconcilePaypal

LEMMA ReconcileOutcome ==
    ASSUME MusicTypeOK, OneWinner, NEW e \in sent, Reconcile(e)
    PROVE  Outcome(e)
BY StripeOutcome, PaypalOutcome DEF Reconcile

LEMMA OutcomeType ==
    ASSUME MusicTypeOK, NEW e \in sent, Outcome(e)
    PROVE  MusicTypeOK'
<1>1. e \in Notifications /\ e.attempt \in Attempts
  BY DEF MusicTypeOK, Notifications
<1>2. ASSUME NEW review \in BOOLEAN, Receive(e, review)
      PROVE  /\ receipts' \subseteq Notifications /\ reviews' \subseteq receipts'
             /\ UNCHANGED <<checkout, captures, closing, gateway, sent>>
  BY <1>1, <1>2 DEF Receive, MusicTypeOK
<1>3. CASE Wins(e)
  <2>1. attempts' \in [Attempts -> AttemptRows]
    BY <1>3 DEF Wins, Confirm, MusicTypeOK, AttemptRows, AttemptStatuses
  <2>2. order' \in [status : {"AWAITING_PAYMENT", "PAYMENT_CONFIRMED", "CANCELLED"}, price : Prices]
    BY <1>3 DEF Wins, Confirm, MusicTypeOK
  <2> QED
    BY <1>2, <1>3, <2>1, <2>2 DEF Wins, Confirm, MusicTypeOK
<1>4. ASSUME NEW status \in AttemptStatuses, NEW session \in BOOLEAN, NEW review \in BOOLEAN,
             Moves(e, status, session, review)
      PROVE  MusicTypeOK'
  <2>1. attempts' \in [Attempts -> AttemptRows]
    BY <1>1, <1>4 DEF Moves, MusicTypeOK, AttemptRows
  <2> QED
    BY <1>2, <1>4, <2>1 DEF Moves, MusicTypeOK
<1> QED
  BY <1>3, <1>4 DEF Outcome
-----------------------------------------------------------------------------
(* Steps that decide nothing: no attempt gains or loses a success or a review. *)

Settled == {"SUCCEEDED", "REQUIRES_REVIEW"}

Quiet ==
    /\ \A a \in Attempts :
        /\ attempts'[a].status = "SUCCEEDED" <=> attempts[a].status = "SUCCEEDED"
        /\ attempts[a].status \in Settled => attempts'[a].status \in Settled
        /\ attempts[a].status = "SUCCEEDED" =>
            /\ attempts'[a].provider = attempts[a].provider
            /\ attempts'[a].amount = attempts[a].amount
    /\ UNCHANGED <<order, receipts, reviews>>

LEMMA QuietKeeps ==
    ASSUME MusicTypeOK, OneWinner, MoneyAccounted, PaypalAtCurrentPrice, Quiet
    PROVE  OneWinner' /\ MoneyAccounted' /\ PaypalAtCurrentPrice'
<1>1. OneWinner'
  BY DEF Quiet, OneWinner, Paid, In
<1>2. MoneyAccounted'
  BY DEF Quiet, MoneyAccounted, MusicTypeOK, Notifications, Settled
<1>3. PaypalAtCurrentPrice'
  BY DEF Quiet, PaypalAtCurrentPrice, Stripe
<1> QED
  BY <1>1, <1>2, <1>3

LEMMA CheckoutQuiet ==
    ASSUME MusicTypeOK, StaleReads, CheckoutStep
    PROVE  Quiet /\ StaleReads'
<1>1. ASSUME NEW a \in Attempts, NEW provider \in Providers, StartAttempt(a, provider)
      PROVE  Quiet /\ StaleReads'
  <2>1. /\ attempts[a].status = "NONE" /\ attempts'[a].status = "CREATED"
        /\ \A b \in Attempts \ {a} : attempts'[b] = attempts[b]
    BY <1>1 DEF StartAttempt, MusicTypeOK, AbsentAttempt
  <2>2. checkout'[a] = "RESERVED" /\ \A b \in Attempts \ {a} : checkout'[b] = checkout[b]
    BY <1>1 DEF StartAttempt, MusicTypeOK
  <2>3. Quiet
    BY <1>1, <2>1 DEF StartAttempt, Quiet, Settled
  <2>4. StaleReads'
    BY <2>1, <2>2 DEF StaleReads, InProgress
  <2> QED
    BY <2>3, <2>4
<1>2. ASSUME NEW a \in Attempts, NEW step,
             UNCHANGED <<order, attempts, receipts, reviews>>,
             checkout' = checkout \/ checkout' = [checkout EXCEPT ![a] = step],
             step \in InProgress => step = attempts[a].status
      PROVE  Quiet /\ StaleReads'
  <2>1. Quiet
    BY <1>2 DEF Quiet
  <2>2. StaleReads'
    BY <1>2 DEF StaleReads, MusicTypeOK, InProgress
  <2> QED
    BY <2>1, <2>2
<1>3. ASSUME NEW a \in Attempts, WriteSession(a)
      PROVE  Quiet /\ StaleReads'
  <2>1. /\ checkout[a] \in InProgress =>
            attempts[a].status \in {"CREATED", "PENDING", "CANCELED"}
        /\ checkout[a] \in InProgress => attempts'[a].status = "PENDING"
        /\ checkout[a] \notin InProgress => attempts'[a].status = attempts[a].status
        /\ attempts'[a].provider = attempts[a].provider
        /\ attempts'[a].amount = attempts[a].amount
        /\ \A b \in Attempts \ {a} : attempts'[b] = attempts[b]
    BY <1>3 DEF WriteSession, StaleReads, MusicTypeOK, AttemptRows
  <2>2. checkout'[a] = "IDLE" /\ \A b \in Attempts \ {a} : checkout'[b] = checkout[b]
    BY <1>3 DEF WriteSession, MusicTypeOK
  <2>3. Quiet
    BY <1>3, <2>1 DEF WriteSession, Quiet, Settled
  <2>4. StaleReads'
    BY <2>1, <2>2 DEF StaleReads, InProgress
  <2> QED
    BY <2>3, <2>4
<1>4. ASSUME NEW a \in Attempts,
             \/ ResumeAttempt(a) \/ ObtainSession(a) \/ ReadForSession(a)
             \/ RetryRecordSession(a) \/ AbandonCheckout(a) \/ ReserveCapture(a)
      PROVE  Quiet /\ StaleReads'
  BY <1>2, <1>4 DEF ResumeAttempt, ObtainSession, ReadForSession, RetryRecordSession,
     AbandonCheckout, ReserveCapture, InProgress
<1> QED
  BY <1>1, <1>3, <1>4 DEF CheckoutStep

LEMMA FindCheckoutQuiet ==
    ASSUME MusicTypeOK, StaleReads, NEW request, FindCheckout(request)
    PROVE  Quiet /\ StaleReads'
<1>1. \A a \in Attempts : attempts[a].status \notin Settled
  BY DEF FindCheckout, In, Settled
<1>2. \A a \in Attempts :
        \/ attempts'[a] = attempts[a]
        \/ attempts'[a].status = "CANCELED"
  BY DEF FindCheckout, MusicTypeOK, AttemptRows
<1>3. Quiet
  BY <1>1, <1>2 DEF FindCheckout, Quiet, Settled
<1>4. StaleReads'
  BY <1>2 DEF FindCheckout, StaleReads
<1> QED
  BY <1>3, <1>4

LEMMA SetStatusQuiet ==
    ASSUME MusicTypeOK, StaleReads, NEW a \in Attempts, NEW status, SetStatus(a, status),
           ~Reading(a),
           status = "SUCCEEDED" <=> attempts[a].status = "SUCCEEDED",
           attempts[a].status \in Settled => status \in Settled,
           UNCHANGED <<order, checkout, receipts, reviews>>
    PROVE  Quiet /\ StaleReads'
<1>1. /\ attempts'[a].status = status
      /\ attempts'[a].provider = attempts[a].provider
      /\ attempts'[a].amount = attempts[a].amount
      /\ \A b \in Attempts \ {a} : attempts'[b] = attempts[b]
  BY DEF SetStatus, MusicTypeOK, AttemptRows
<1>2. checkout[a] \notin InProgress
  BY DEF Reading, InProgress, AttemptStatuses
<1>3. Quiet
  BY <1>1 DEF Quiet
<1>4. StaleReads'
  BY <1>1, <1>2 DEF StaleReads
<1> QED
  BY <1>3, <1>4

-----------------------------------------------------------------------------
(* The invariant.                                                             *)

LEMMA InitInv == Init => MusicInv
<1> SUFFICES ASSUME Init PROVE MusicInv
  OBVIOUS
<1>1. MusicTypeOK
  BY InitType
<1>2. \A a \in Attempts : attempts[a].status = "NONE" /\ checkout[a] = "IDLE"
  BY DEF Init, AbsentAttempt
<1>3. StaleReads /\ PaypalAtCurrentPrice
  BY <1>2 DEF StaleReads, PaypalAtCurrentPrice, InProgress
<1>4. OneWinner /\ MoneyAccounted
  BY <1>2 DEF Init, OneWinner, Paid, In, MoneyAccounted
<1> QED
  BY <1>1, <1>3, <1>4 DEF MusicInv

LEMMA OrderInv ==
    ASSUME MusicInv, OrderStep
    PROVE  MusicInv'
<1> USE DEF MusicInv
<1>1. MusicTypeOK'
  BY OrderType
<1>2. CASE Quiet /\ StaleReads'
  BY <1>1, <1>2, QuietKeeps
<1>3. ASSUME NEW price \in Prices, EditOrder(price)
      PROVE  MusicInv'
  <2>1. \A a \in Attempts : attempts[a].status # "SUCCEEDED"
    BY <1>3 DEF EditOrder, MayEdit
  <2>2. order'.status = order.status
    BY <1>3 DEF EditOrder, MusicTypeOK
  <2>3. OneWinner' /\ PaypalAtCurrentPrice'
    BY <1>3, <2>1, <2>2 DEF EditOrder, OneWinner, Paid, In, PaypalAtCurrentPrice
  <2>4. MoneyAccounted' /\ StaleReads'
    BY <1>3 DEF EditOrder, MoneyAccounted, StaleReads
  <2> QED
    BY <1>1, <2>3, <2>4
<1>4. CASE CancelOrder
  <2>1. ~Paid /\ order'.status = "CANCELLED"
    BY <1>4 DEF CancelOrder, Awaiting, OneWinner, MusicTypeOK
  <2>2. OneWinner' /\ PaypalAtCurrentPrice'
    BY <1>4, <2>1 DEF CancelOrder, OneWinner, Paid, In, PaypalAtCurrentPrice
  <2>3. MoneyAccounted' /\ StaleReads'
    BY <1>4 DEF CancelOrder, MoneyAccounted, StaleReads
  <2> QED
    BY <1>1, <2>2, <2>3
<1>5. CASE PrepareEdit
  BY <1>2, <1>5, FindCheckoutQuiet DEF PrepareEdit
<1>6. ASSUME NEW c \in closing, CloseAfterCancellation(c)
      PROVE  MusicInv'
  BY <1>2, <1>6, FindCheckoutQuiet DEF CloseAfterCancellation
<1>7. ASSUME NEW c \in closing, ExpireAtStripe(c) \/ AbandonClosing(c)
      PROVE  MusicInv'
  BY <1>2, <1>7 DEF ExpireAtStripe, AbandonClosing, Quiet, StaleReads
<1>8. ASSUME NEW c \in closing, MarkExpired(c)
      PROVE  MusicInv'
  <2>1. c.attempt \in Attempts
    BY <1>8 DEF MarkExpired, MusicTypeOK, Closings
  <2> QED
    BY <1>2, <1>8, <2>1, SetStatusQuiet DEF MarkExpired, Settled
<1>9. ASSUME NEW c \in closing, ReviewAfterCancellation(c)
      PROVE  MusicInv'
  <2>1. c.attempt \in Attempts
    BY <1>9 DEF ReviewAfterCancellation, MusicTypeOK, Closings
  <2> QED
    BY <1>2, <1>9, <2>1, SetStatusQuiet DEF ReviewAfterCancellation, Settled
<1> QED
  BY <1>3, <1>4, <1>5, <1>6, <1>7, <1>8, <1>9 DEF OrderStep

LEMMA WinInv ==
    ASSUME MusicInv, NEW e \in sent, ~Reading(e.attempt), Wins(e)
    PROVE  MusicInv'
<1> DEFINE w == e.attempt
<1> USE DEF MusicInv
<1>1. MusicTypeOK'
  BY OutcomeType DEF Outcome
<1>2. w \in Attempts /\ checkout[w] \notin InProgress
  BY DEF MusicTypeOK, Notifications, Reading, InProgress, AttemptStatuses
<1>3. \A a \in Attempts : attempts[a].status # "SUCCEEDED"
  BY DEF Wins, Confirm, Awaiting, OneWinner, Paid, In
<1>4. /\ attempts'[w].status = "SUCCEEDED"
      /\ attempts'[w].provider = attempts[w].provider
      /\ attempts'[w].amount = attempts[w].amount
  BY <1>2 DEF Wins, Confirm, MusicTypeOK, AttemptRows
<1>5. \A a \in Attempts \ {w} :
        \/ attempts'[a] = attempts[a]
        \/ attempts[a].status \in Open /\ attempts'[a].status = "CANCELED"
  BY DEF Wins, Confirm, MusicTypeOK, AttemptRows
<1>6. order'.status = "PAYMENT_CONFIRMED" /\ order'.price = order.price
  BY DEF Wins, Confirm, MusicTypeOK
<1>7. \A a \in Attempts \ {w} : attempts'[a].status # "SUCCEEDED"
  BY <1>3, <1>5
<1>8. OneWinner'
  BY <1>2, <1>4, <1>6, <1>7 DEF OneWinner, Paid, In
<1>9. PaypalAtCurrentPrice'
  BY <1>4, <1>6, <1>7 DEF Wins, PaypalAtCurrentPrice, Stripe
<1>10. StaleReads'
  BY <1>2, <1>5 DEF Wins, Confirm, Receive, StaleReads
<1>11. MoneyAccounted'
  <2> SUFFICES ASSUME NEW f \in receipts', f.status = "SUCCEEDED",
                      attempts'[f.attempt].status \notin Settled
               PROVE  f \in reviews'
    BY DEF MoneyAccounted, Settled
  <2>1. f.attempt \in Attempts /\ f.attempt # w
    BY <1>1, <1>4 DEF MusicTypeOK, Notifications, Settled
  <2>2. f \in receipts
    BY <2>1 DEF Wins, Confirm, Receive
  <2>3. attempts[f.attempt].status \notin Settled
    BY <1>5, <2>1 DEF Open, InProgress, Settled
  <2> QED
    BY <2>2, <2>3 DEF MoneyAccounted, Settled, Wins, Confirm, Receive
<1> QED
  BY <1>1, <1>8, <1>9, <1>10, <1>11

LEMMA MoveInv ==
    ASSUME MusicInv, NEW e \in sent, ~Reading(e.attempt),
           NEW status \in AttemptStatuses, NEW session \in BOOLEAN, NEW review \in BOOLEAN,
           Moves(e, status, session, review)
    PROVE  MusicInv'
<1> DEFINE m == e.attempt
<1> USE DEF MusicInv
<1>1. MusicTypeOK'
  BY OutcomeType DEF Outcome
<1>2. m \in Attempts /\ checkout[m] \notin InProgress
  BY DEF MusicTypeOK, Notifications, Reading, InProgress, AttemptStatuses
<1>3. /\ attempts'[m].status = status
      /\ attempts'[m].provider = attempts[m].provider
      /\ attempts'[m].amount = attempts[m].amount
      /\ \A a \in Attempts \ {m} : attempts'[a] = attempts[a]
  BY <1>2 DEF Moves, MusicTypeOK, AttemptRows
<1>4. \A a \in Attempts :
        /\ attempts'[a].status = "SUCCEEDED" <=> attempts[a].status = "SUCCEEDED"
        /\ attempts'[a].provider = attempts[a].provider
        /\ attempts'[a].amount = attempts[a].amount
        /\ attempts[a].status \in Settled => attempts'[a].status \in Settled
  BY <1>3 DEF Moves, Settled
<1>5. OneWinner'
  BY <1>4 DEF Moves, OneWinner, Paid, In
<1>6. PaypalAtCurrentPrice'
  BY <1>4 DEF Moves, PaypalAtCurrentPrice, Stripe
<1>7. StaleReads'
  BY <1>2, <1>3 DEF Moves, Receive, StaleReads
<1>8. MoneyAccounted'
  <2>1. receipts' = receipts \cup {e}
    BY DEF Moves, Receive
  <2>2. reviews \subseteq reviews' /\ (review => e \in reviews')
    BY DEF Moves, Receive
  <2>3. \A f \in receipts : f.attempt \in Attempts
    BY DEF MusicTypeOK, Notifications
  <2> QED
    BY <1>3, <1>4, <2>1, <2>2, <2>3 DEF Moves, MoneyAccounted, Settled
<1> QED
  BY <1>1, <1>5, <1>6, <1>7, <1>8

LEMMA NextInv ==
    ASSUME MusicInv, [Next]_vars
    PROVE  MusicInv'
<1> USE DEF MusicInv
<1>1. CASE CheckoutStep
  <2>1. MusicTypeOK'
    BY <1>1, CheckoutType DEF CheckoutStep
  <2> QED
    BY <1>1, <2>1, CheckoutQuiet, QuietKeeps
<1>2. CASE OrderStep
  BY <1>2, OrderInv
<1>3. CASE ProviderStep
  <2>1. MusicTypeOK' /\ UNCHANGED localVars
    BY <1>3, ProviderType
  <2>2. OneWinner' /\ PaypalAtCurrentPrice'
    BY <2>1 DEF localVars, OneWinner, Paid, In, PaypalAtCurrentPrice, Stripe
  <2>3. StaleReads' /\ MoneyAccounted'
    BY <2>1 DEF localVars, StaleReads, MoneyAccounted
  <2> QED
    BY <2>1, <2>2, <2>3
<1>4. CASE ReconcileStep
  <2>1. PICK e \in sent : Reconcile(e)
    BY <1>4 DEF ReconcileStep
  <2>2. Outcome(e) /\ ~Reading(e.attempt)
    BY <2>1, ReconcileOutcome DEF Reconcile
  <2> QED
    BY <2>2, WinInv, MoveInv DEF Outcome
<1>5. CASE UNCHANGED vars
  <2>1. MusicTypeOK' /\ StaleReads' /\ MoneyAccounted'
    BY <1>5 DEF vars, localVars, MusicTypeOK, StaleReads, MoneyAccounted
  <2>2. OneWinner' /\ PaypalAtCurrentPrice'
    BY <1>5 DEF vars, localVars, OneWinner, Paid, In, PaypalAtCurrentPrice, Stripe
  <2> QED
    BY <2>1, <2>2
<1> QED
  BY <1>1, <1>2, <1>3, <1>4, <1>5 DEF Next

LEMMA InvHolds == Spec => []MusicInv
BY InitInv, NextInv, PTL DEF Spec

-----------------------------------------------------------------------------

\* Every variable keeps its type, whatever the requests, the notifications and their
\* order.
THEOREM MusicTypeCorrect == Spec => []MusicTypeOK
<1>1. MusicInv => MusicTypeOK
  BY DEF MusicInv
<1> QED
  BY <1>1, InvHolds, PTL

\* A music order is confirmed by one attempt at most and never without one: two
\* providers, late successes, an edit or a cancellation in between and the unlocked
\* write of recordSession change nothing about it.  The unique index of the succeeded
\* payments, which the model leaves out, is never what prevents a second one.
THEOREM OneMusicWinner == Spec => []OneWinner
<1>1. MusicInv => OneWinner
  BY DEF MusicInv
<1> QED
  BY <1>1, InvHolds, PTL

\* A success that has been recorded has won or asks for a review, and nothing that
\* happens later, a revived attempt included, takes the review away.
THEOREM MusicMoneyAccounted == Spec => []MoneyAccounted
<1>1. MusicInv => MoneyAccounted
  BY DEF MusicInv
<1> QED
  BY <1>1, InvHolds, PTL

\* An order paid through PayPal was paid at the price it has, and keeps: an order with a
\* winner is never edited again.
THEOREM PaypalPriceCurrent == Spec => []PaypalAtCurrentPrice
<1>1. MusicInv => PaypalAtCurrentPrice
  BY DEF MusicInv
<1> QED
  BY <1>1, InvHolds, PTL
=============================================================================

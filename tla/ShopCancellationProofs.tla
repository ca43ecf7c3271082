----------------------- MODULE ShopCancellationProofs -----------------------
(***************************************************************************)
(* Proofs about ShopCancellation, for every set of requests and products,   *)
(* every basket and total, and whatever the evidence says of its origin.    *)
(***************************************************************************)
EXTENDS ShopCancellation, TLAPS

PaymentRows ==
    [status : {"SUCCEEDED", "REFUND_PENDING", "PARTIALLY_REFUNDED", "REFUNDED"}, refunded : 0..Total]

(* A confirmation of the provider is stored only with a status that respects it. *)
Respected(a) == a.confirmed => a.status \in {"REQUIRES_REVIEW", "SUCCEEDED"}

(* What the recording of an answer or a webhook may do to the attempt of a request,   *)
(* short of completing it.                                                             *)
Part(r) ==
    /\ refund' \in [Requests -> RefundRows]
    /\ \A q \in Requests \ {r} : refund'[q] = refund[q]
    /\ refund'[r].status # "NONE"
    /\ refund[r].confirmed => refund'[r].confirmed
    /\ Respected(refund'[r])
    /\ refund'[r].status = "SUCCEEDED" <=> refund[r].status = "SUCCEEDED"
    /\ refund'[r].status = "FAILED" => refund[r].status = "FAILED" \/ gateway[r] \in {"NONE", "FAILED"}
    /\ payment' \in PaymentRows /\ payment'.refunded = payment.refunded
    /\ UNCHANGED <<requests, putBack>>

(* The attempt is one that exists, and its row is sane. *)
Open(r) ==
    /\ r \in Requests
    /\ refund \in [Requests -> RefundRows]
    /\ payment \in PaymentRows
    /\ refund[r].status # "NONE"
    /\ Respected(refund[r])

-----------------------------------------------------------------------------
(* The rows that an attempt may become.                                        *)

LEMMA ReviewedRow ==
    ASSUME NEW a \in RefundRows, NEW code \in Codes, NEW e
    PROVE  /\ Reviewed(a, code, e) \in RefundRows
           /\ Reviewed(a, code, e).status = "REQUIRES_REVIEW"
           /\ a.confirmed => Reviewed(a, code, e).confirmed
<1>1. DurableCode(a, code) \in Codes
  BY DEF DurableCode, RefundRows
<1> QED
  BY <1>1 DEF Reviewed, RefundRows, RefundStatuses, ActiveRefund

LEMMA AcceptedRow ==
    ASSUME NEW a \in RefundRows
    PROVE  /\ Accepted(a) \in RefundRows
           /\ Accepted(a).status \in {"PENDING", "REQUIRES_REVIEW"}
           /\ Accepted(a).confirmed = a.confirmed
<1>1. Accepted(a) \in RefundRows
  BY DEF Accepted, RefundRows, RefundStatuses, ActiveRefund, Codes
<1> QED
  BY <1>1 DEF Accepted, RefundRows, KeepsReview

LEMMA PersistedRow ==
    ASSUME NEW a \in RefundRows, NEW e
    PROVE  /\ Persisted(a, e) \in RefundRows
           /\ Settled(a, e) => Persisted(a, e).status = a.status
           /\ ~Settled(a, e) =>
                Persisted(a, e).status = IF a.status = "SUCCEEDED" THEN "SUCCEEDED" ELSE "REQUIRES_REVIEW"
           /\ a.confirmed => Persisted(a, e).confirmed
           /\ Settled(a, e) => Persisted(a, e).confirmed = a.confirmed
<1>1. CASE Settled(a, e)
  BY <1>1 DEF Persisted, RefundRows
<1>2. CASE ~Settled(a, e)
  <2> DEFINE status == IF a.status = "SUCCEEDED" THEN a.status ELSE "REQUIRES_REVIEW"
             code == IF e.match = "MISMATCH" THEN "EVIDENCE_MISMATCH"
                     ELSE IF e.match = "MISSING" THEN "CORRELATION_REQUIRED"
                     ELSE IF a.status \in {"SUCCEEDED", "FAILED"} THEN "CONFLICT"
                     ELSE IF e.status = "FAILED" THEN "REFUSED_LOCALLY_FAILED"
                     ELSE "ACCEPTED_LOCALLY_FAILED"
             known == a.known \/ e.match # "MISMATCH"
             confirmed == a.confirmed \/ (e.match # "MISMATCH" /\ e.status = "SUCCEEDED")
  <2>1. status \in {"SUCCEEDED", "REQUIRES_REVIEW"} /\ known \in BOOLEAN /\ confirmed \in BOOLEAN
    BY DEF RefundRows
  <2>2. code \in Codes
    BY DEF Codes, LiftedByFailure, LiftedBySuccess
  <2>3. Persisted(a, e) = [a EXCEPT !.status = status, !.code = code, !.known = known, !.confirmed = confirmed]
    BY <1>2 DEF Persisted, RefundRows
  <2>4. a.confirmed => confirmed
    OBVIOUS
  <2>5. status = IF a.status = "SUCCEEDED" THEN "SUCCEEDED" ELSE "REQUIRES_REVIEW"
    OBVIOUS
  <2> HIDE DEF status, code, known, confirmed
  <2> QED
    BY <1>2, <2>1, <2>2, <2>3, <2>4, <2>5 DEF RefundRows, RefundStatuses, ActiveRefund
<1> QED
  BY <1>1, <1>2

LEMMA ContestedRow ==
    ASSUME NEW a \in RefundRows, NEW n
    PROVE  /\ Contested(a, n) \in RefundRows
           /\ Contested(a, n).status = IF a.status = "FAILED" THEN "REQUIRES_REVIEW" ELSE a.status
           /\ a.confirmed => Contested(a, n).confirmed
<1>1. Contested(a, n) \in RefundRows
  BY DEF Contested, RefundRows, RefundStatuses, ActiveRefund, Codes
<1> QED
  BY <1>1 DEF Contested, RefundRows

LEMMA DeferralRow ==
    ASSUME NEW a \in RefundRows
    PROVE  /\ Deferral(a) \in RefundRows
           /\ Deferral(a).status = "REQUIRES_REVIEW"
           /\ Deferral(a).confirmed = a.confirmed
<1>1. Deferral(a) \in RefundRows
  BY DEF Deferral, RefundRows, RefundStatuses, ActiveRefund, Codes, LiftedByFailure, LiftedBySuccess
<1> QED
  BY <1>1 DEF Deferral, RefundRows

-----------------------------------------------------------------------------
(* The operations on an attempt, one by one.                                   *)

LEMMA RowMoves ==
    ASSUME NEW r, Open(r), NEW row \in RefundRows, refund' = [refund EXCEPT ![r] = row],
           row.status # "NONE", refund[r].confirmed => row.confirmed, Respected(row),
           row.status = "SUCCEEDED" <=> refund[r].status = "SUCCEEDED",
           row.status = "FAILED" => refund[r].status = "FAILED" \/ gateway[r] \in {"NONE", "FAILED"},
           payment' \in PaymentRows, payment'.refunded = payment.refunded,
           UNCHANGED <<requests, putBack>>
    PROVE  Part(r)
BY DEF Part, Open

LEMMA HoldType ==
    ASSUME payment \in PaymentRows, HoldPayment
    PROVE  payment' \in PaymentRows /\ payment'.refunded = payment.refunded
BY DEF PaymentRows, HoldPayment

LEMMA SameMoves ==
    ASSUME NEW r, Open(r), UNCHANGED <<refund, payment, requests, putBack>>
    PROVE  Part(r)
BY DEF Part, Open

LEMMA ReviewMoves ==
    ASSUME NEW r, Open(r), NEW code \in Codes, NEW e \in Evidence, Review(r, code, e),
           UNCHANGED <<requests, putBack>>
    PROVE  Part(r)
<1>1. refund[r] \in RefundRows
  BY DEF Open
<1>2. CASE refund[r].status = "SUCCEEDED"
  <2>1. [refund[r] EXCEPT !.code = code] \in RefundRows
    BY <1>1 DEF RefundRows
  <2> QED
    BY <1>1, <1>2, <2>1, RowMoves DEF Review, Open, RefundRows, Respected
<1>3. CASE refund[r].status # "SUCCEEDED"
  <2>1. /\ Reviewed(refund[r], code, e) \in RefundRows
        /\ Reviewed(refund[r], code, e).status = "REQUIRES_REVIEW"
        /\ refund[r].confirmed => Reviewed(refund[r], code, e).confirmed
    BY <1>1, ReviewedRow
  <2> QED
    BY <1>3, <2>1, HoldType, RowMoves DEF Review, Open, Respected
<1> QED
  BY <1>2, <1>3

LEMMA AcceptMoves ==
    ASSUME NEW r, Open(r), ~refund[r].confirmed, refund[r].status # "SUCCEEDED", Accept(r)
    PROVE  Part(r)
<1>1. refund[r] \in RefundRows
  BY DEF Open
<1>2. /\ Accepted(refund[r]) \in RefundRows
      /\ Accepted(refund[r]).status \in {"PENDING", "REQUIRES_REVIEW"}
      /\ Accepted(refund[r]).confirmed = refund[r].confirmed
  BY <1>1, AcceptedRow
<1> QED
  BY <1>1, <1>2, HoldType, RowMoves DEF Accept, Open, Respected

LEMMA FailMoves ==
    ASSUME NEW r, Open(r), ~refund[r].confirmed, refund[r].status # "SUCCEEDED", gateway[r] = "FAILED", Fail(r)
    PROVE  Part(r)
<1> DEFINE row == [status |-> "FAILED", code |-> "FAILED", known |-> TRUE, confirmed |-> FALSE, bound |-> TRUE]
<1>1. row \in RefundRows
  BY DEF RefundRows, RefundStatuses, Codes
<1>2. CASE UNCHANGED <<refund, payment>>
  BY <1>2, SameMoves DEF Fail
<1>3. CASE refund' = [refund EXCEPT ![r] = row] /\ payment' = [payment EXCEPT !.status = "SUCCEEDED"]
  <2>1. payment' \in PaymentRows /\ payment'.refunded = payment.refunded
    BY <1>3 DEF Open, PaymentRows
  <2>2. row.status = "FAILED" /\ ~row.confirmed
    OBVIOUS
  <2> HIDE DEF row
  <2> QED
    BY <1>1, <1>3, <2>1, <2>2, RowMoves DEF Fail, Respected
<1> QED
  BY <1>2, <1>3 DEF Fail

LEMMA PersistMoves ==
    ASSUME NEW r, Open(r), NEW e \in Evidence, PersistReview(r, e)
    PROVE  Part(r)
<1>1. refund[r] \in RefundRows
  BY DEF Open
<1>2. /\ Persisted(refund[r], e) \in RefundRows
      /\ Settled(refund[r], e) => Persisted(refund[r], e).status = refund[r].status
                                 /\ Persisted(refund[r], e).confirmed = refund[r].confirmed
      /\ ~Settled(refund[r], e) =>
            Persisted(refund[r], e).status =
                IF refund[r].status = "SUCCEEDED" THEN "SUCCEEDED" ELSE "REQUIRES_REVIEW"
      /\ refund[r].confirmed => Persisted(refund[r], e).confirmed
  BY <1>1, PersistedRow
<1>3. CASE Settled(refund[r], e)
  BY <1>2, <1>3, RowMoves DEF PersistReview, Open, Respected
<1>4. CASE ~Settled(refund[r], e)
  BY <1>2, <1>4, HoldType, RowMoves DEF PersistReview, Open, Respected
<1> QED
  BY <1>3, <1>4

LEMMA AmbiguousMoves ==
    ASSUME NEW r, Open(r), MarkAmbiguous(r)
    PROVE  Part(r)
<1>1. refund[r] \in RefundRows
  BY DEF Open
<1> DEFINE row == [refund[r] EXCEPT !.status = "REQUIRES_REVIEW", !.code = "AMBIGUOUS"]
<1>2. row \in RefundRows /\ row.status = "REQUIRES_REVIEW" /\ row.confirmed = refund[r].confirmed
  BY <1>1 DEF RefundRows, RefundStatuses, ActiveRefund, Codes, LiftedByFailure, LiftedBySuccess
<1>3. CASE UNCHANGED <<refund, payment>>
  BY <1>3, SameMoves DEF MarkAmbiguous
<1>4. CASE refund[r].status # "SUCCEEDED" /\ refund' = [refund EXCEPT ![r] = row] /\ HoldPayment
  BY <1>2, <1>4, HoldType, RowMoves DEF MarkAmbiguous, Open, Respected
<1>5. refund' = [refund EXCEPT ![r].status = "REQUIRES_REVIEW", ![r].code = "AMBIGUOUS"]
      => refund' = [refund EXCEPT ![r] = row]
  BY <1>1 DEF Open, RefundRows
<1> QED
  BY <1>3, <1>4, <1>5 DEF MarkAmbiguous

LEMMA RejectedMoves ==
    ASSUME NEW r, Open(r), gateway[r] = "NONE", MarkCertainlyFailed(r)
    PROVE  Part(r)
<1> DEFINE a == refund[r]
           held == [a EXCEPT !.status = "REQUIRES_REVIEW", !.code = "CONFLICT"]
           failed == [a EXCEPT !.status = "FAILED", !.code = "FAILED", !.bound = TRUE]
<1>1. a \in RefundRows
  BY DEF Open
<1>2. held \in RefundRows /\ held.status = "REQUIRES_REVIEW" /\ held.confirmed = a.confirmed
  BY <1>1 DEF RefundRows, RefundStatuses, ActiveRefund, Codes
<1>3. failed \in RefundRows /\ failed.status = "FAILED" /\ failed.confirmed = a.confirmed
  BY <1>1 DEF RefundRows, RefundStatuses, Codes
<1>4. CASE UNCHANGED <<refund, payment>>
  BY <1>4, SameMoves DEF MarkCertainlyFailed
<1>5. CASE a.status # "SUCCEEDED" /\ refund' = [refund EXCEPT ![r] = held] /\ HoldPayment
  <2> HIDE DEF held
  <2> QED
    BY <1>2, <1>5, HoldType, RowMoves DEF MarkCertainlyFailed, Open, Respected
<1>6. CASE /\ a.status # "SUCCEEDED" /\ ~a.confirmed
           /\ refund' = [refund EXCEPT ![r] = failed]
           /\ payment' = [payment EXCEPT !.status =
                   IF returns.active THEN "REFUND_PENDING" ELSE SettledStatus(payment.refunded)]
  <2>1. payment' \in PaymentRows /\ payment'.refunded = payment.refunded
    BY <1>6 DEF Open, PaymentRows, SettledStatus
  <2> HIDE DEF failed
  <2> QED
    BY <1>3, <1>6, <2>1, RowMoves DEF MarkCertainlyFailed, Open, Respected
<1>7. /\ [refund EXCEPT ![r].status = "REQUIRES_REVIEW", ![r].code = "CONFLICT"] = [refund EXCEPT ![r] = held]
      /\ [refund EXCEPT ![r].status = "FAILED", ![r].code = "FAILED", ![r].bound = TRUE] = [refund EXCEPT ![r] = failed]
  BY <1>1 DEF Open, RefundRows
<1> HIDE DEF held, failed
<1> QED
  BY <1>4, <1>5, <1>6, <1>7 DEF MarkCertainlyFailed

LEMMA ContestedMoves ==
    ASSUME NEW r, Open(r), NEW n \in Evidence, refund' = [refund EXCEPT ![r] = Contested(@, n)], HoldPayment,
           refund[r].status \in Terminal, UNCHANGED <<requests, putBack>>
    PROVE  Part(r)
<1>1. refund[r] \in RefundRows
  BY DEF Open
<1>2. /\ Contested(refund[r], n) \in RefundRows
      /\ Contested(refund[r], n).status = IF refund[r].status = "FAILED" THEN "REQUIRES_REVIEW" ELSE refund[r].status
      /\ refund[r].confirmed => Contested(refund[r], n).confirmed
  BY <1>1, ContestedRow
<1> QED
  BY <1>2, HoldType, RowMoves DEF Open, Respected, Terminal

LEMMA DeferralMoves ==
    ASSUME NEW r, Open(r), refund' = [refund EXCEPT ![r] = Deferral(@)], HoldPayment,
           refund[r].status \in ActiveRefund, UNCHANGED <<requests, putBack>>
    PROVE  Part(r)
<1>1. refund[r] \in RefundRows
  BY DEF Open
<1>2. /\ Deferral(refund[r]) \in RefundRows
      /\ Deferral(refund[r]).status = "REQUIRES_REVIEW"
      /\ Deferral(refund[r]).confirmed = refund[r].confirmed
  BY <1>1, DeferralRow
<1> QED
  BY <1>2, HoldType, RowMoves DEF Open, Respected, ActiveRefund

(* Evidence, whatever it does: it moves the attempt, or it undoes the sale. *)
LEMMA EvidenceMoves ==
    ASSUME NEW r, Open(r), NEW e \in Evidence, e.status = "FAILED" => gateway[r] = "FAILED", TakeEvidence(r, e)
    PROVE  /\ deferred' \subseteq deferred
           /\ (Part(r) /\ UNCHANGED order) \/ (Cancellable(r) /\ Complete(r))
<1>1. CASE PersistReview(r, e)
  BY <1>1, PersistMoves DEF PersistReview
<1>2. CASE ApplyEvidence(r, e) /\ e.match # "MATCH"
  <2>1. (IF e.match = "MISSING" THEN "CORRELATION_REQUIRED" ELSE "EVIDENCE_MISMATCH") \in Codes
    BY DEF Codes, LiftedByFailure, LiftedBySuccess
  <2> QED
    BY <1>2, <2>1, ReviewMoves DEF ApplyEvidence
<1>3. CASE ApplyEvidence(r, e) /\ e.match = "MATCH"
  <2>1. deferred' \subseteq deferred
    BY <1>3 DEF ApplyEvidence
  <2>2. "CONFLICT" \in Codes
    BY DEF Codes
  <2>3. CASE Review(r, "CONFLICT", e) /\ UNCHANGED <<order, requests, putBack>>
    BY <2>1, <2>2, <2>3, ReviewMoves
  <2>4. CASE refund[r].status = "SUCCEEDED" /\ UNCHANGED <<order, requests, refund, payment, putBack>>
    BY <2>1, <2>4, SameMoves
  <2>5. CASE ~Conflict(r, e) /\ refund[r].status # "SUCCEEDED" /\ e.status = "PENDING" /\ Accept(r)
    <3>1. ~refund[r].confirmed
      BY <2>5 DEF Conflict, Contradicts, Open, RefundRows
    <3> QED
      BY <2>1, <2>5, <3>1, AcceptMoves DEF Accept
  <2>6. CASE ~Conflict(r, e) /\ e.status = "FAILED" /\ Fail(r)
    <3>1. ~refund[r].confirmed /\ refund[r].status # "SUCCEEDED"
      BY <2>6 DEF Conflict, Contradicts, Open, RefundRows
    <3> QED
      BY <2>1, <2>6, <3>1, FailMoves DEF Fail
  <2>7. CASE Cancellable(r) /\ Complete(r)
    BY <2>1, <2>7
  <2> QED
    BY <1>3, <2>3, <2>4, <2>5, <2>6, <2>7 DEF ApplyEvidence
<1> QED
  BY <1>1, <1>2, <1>3 DEF TakeEvidence

-----------------------------------------------------------------------------
(* The inductive invariant.                                                    *)

Asked(e) ==
    /\ e.request \in Requests
    /\ asked[e.request] = 1
    /\ e.status = "FAILED" => gateway[e.request] = "FAILED"
    /\ e.status = "REFUSED" => gateway[e.request] = "NONE"

(* What is under way tells the truth about the provider, and was asked for. *)
FlightAgrees ==
    /\ \A e \in answers \cup sent : Asked(e)
    /\ \A w \in waiting : Asked(w.notice)
    /\ \A r \in Requests :
        /\ asked[r] \in {0, 1}
        /\ asked[r] = 0 => gateway[r] = "NONE"
        /\ r \in calls => asked[r] = 0 /\ refund[r].status \notin {"NONE", "FAILED"}
        /\ refund[r].status = "NONE" => asked[r] = 0
        /\ refund[r].status = "FAILED" => gateway[r] \in {"NONE", "FAILED"}

(* An attempt is the one of its approved request, and no two requests live together. *)
Live(r) == requests[r] \in {"REQUESTED", "APPROVED", "COMPLETED"}

RequestsAgree ==
    /\ \A r \in Requests :
        /\ refund[r].status # "NONE" <=> requests[r] \in {"APPROVED", "COMPLETED"}
        /\ Respected(refund[r])
    /\ \A r, q \in Requests : Live(r) /\ Live(q) => r = q

(* CancellationWhole, and what it needs before: units or money that came back through   *)
(* a file are visible, so that the cancellation does not give them back again.           *)
SaleAgrees ==
    /\ CancellationWhole
    /\ order.status = "CANCELLED" => \E r \in Requests : requests[r] = "COMPLETED"
    /\ order.status = "OPEN" /\ ~returns.disposition =>
        payment.refunded = 0 /\ putBack = [p \in Products |-> 0]

(* Goods stay while money may leave.  The barrier alone would not do: an attempt that    *)
(* failed for certain may come under review again after the goods were shipped.          *)
GoodsAgree ==
    \A r \in Requests :
        r \in calls \/ gateway[r] \in {"PENDING", "SUCCEEDED"} =>
            order.fulfilment # "SHIPPED" /\ order.tracking = "NONE"

CancelInv == TypeOK /\ FlightAgrees /\ RequestsAgree /\ SaleAgrees /\ GoodsAgree

(* The answers and webhooks that are recorded, in one form. *)
RecordStep(r) ==
    /\ Open(r) /\ asked[r] = 1
    /\ deferred' \subseteq Evidence /\ receipts' \subseteq Evidence
    /\ answers' \subseteq answers /\ waiting' \subseteq waiting
    /\ UNCHANGED <<corrections, returns, calls, carrier, provider>>
    /\ \/ Part(r) /\ order' \in {order, [order EXCEPT !.review = TRUE]}
       \/ Cancellable(r) /\ Complete(r)

LEMMA OpenIs ==
    ASSUME CancelInv, NEW e, Asked(e)
    PROVE  Open(e.request)
BY DEF CancelInv, TypeOK, FlightAgrees, RequestsAgree, Asked, Open, PaymentRows

LEMMA AnswerSteps ==
    ASSUME CancelInv, NEW x \in answers, RecordAnswer(x)
    PROVE  RecordStep(x.request)
<1> DEFINE r == x.request
<1>1. Asked(x)
  BY DEF CancelInv, FlightAgrees
<1>2. Open(r) /\ asked[r] = 1
  BY <1>1, OpenIs DEF Asked
<1>3. deferred \subseteq Evidence /\ receipts' \subseteq Evidence /\ answers' \subseteq answers /\ waiting' \subseteq waiting
      /\ UNCHANGED <<corrections, returns, calls, carrier, provider>>
  BY DEF RecordAnswer, CancelInv, TypeOK
<1>4. CASE x.status = "AMBIGUOUS" /\ MarkAmbiguous(r)
  BY <1>2, <1>3, <1>4, AmbiguousMoves, SMTT(30) DEF MarkAmbiguous, RecordStep
<1>5. CASE x.status = "REFUSED" /\ MarkCertainlyFailed(r)
  <2>1. gateway[r] = "NONE"
    BY <1>1, <1>5 DEF Asked
  <2> QED
    BY <1>2, <1>3, <1>5, <2>1, RejectedMoves DEF MarkCertainlyFailed, RecordStep
<1>6. CASE x \in Evidence /\ TakeEvidence(r, x)
  <2>1. x.status = "FAILED" => gateway[r] = "FAILED"
    BY <1>1 DEF Asked
  <2>2. deferred' \subseteq deferred /\ ((Part(r) /\ UNCHANGED order) \/ (Cancellable(r) /\ Complete(r)))
    BY <1>2, <1>6, <2>1, EvidenceMoves
  <2> QED
    BY <1>2, <1>3, <2>2 DEF RecordStep
<1> HIDE DEF r
<1> QED
  BY <1>4, <1>5, <1>6 DEF RecordAnswer, r

LEMMA WebhookSteps ==
    ASSUME CancelInv, NEW w \in waiting, RecordWebhook(w)
    PROVE  RecordStep(w.notice.request)
<1> DEFINE n == w.notice
           r == n.request
<1>1. Asked(n)
  BY DEF CancelInv, FlightAgrees
<1>2. Open(r) /\ asked[r] = 1
  BY <1>1, OpenIs DEF Asked
<1>3. n \in Evidence
  BY DEF CancelInv, TypeOK
<1>4. Authentic(n) \in Evidence /\ Authentic(n).status = n.status
  BY <1>3 DEF Authentic, Evidence
<1>5. Authentic(n).status = "FAILED" => gateway[r] = "FAILED"
  BY <1>1, <1>4 DEF Asked
<1>6. deferred \subseteq Evidence /\ receipts \subseteq Evidence
  BY DEF CancelInv, TypeOK
<1>7. Receive(w) => /\ receipts' \subseteq Evidence /\ answers' \subseteq answers /\ waiting' \subseteq waiting
                    /\ UNCHANGED <<corrections, returns, calls, carrier, provider>>
  BY <1>3, <1>6 DEF Receive
<1>8. TakeEvidence(r, Authentic(n)) =>
        deferred' \subseteq deferred /\ ((Part(r) /\ UNCHANGED order) \/ (Cancellable(r) /\ Complete(r)))
  BY <1>2, <1>4, <1>5, EvidenceMoves
<1>9. CASE RecordMatched(w)
  <2>1. CASE Receive(w) /\ TakeEvidence(r, Authentic(n))
    BY <1>2, <1>6, <1>7, <1>8, <2>1 DEF RecordStep
  <2>2. CASE /\ PersistReview(r, Authentic(n))
             /\ waiting' = waiting \ {w}
             /\ UNCHANGED <<corrections, returns, calls, answers, receipts, carrier, provider>>
    <3>1. Part(r) /\ UNCHANGED <<order, deferred>>
      BY <1>2, <1>4, <2>2, PersistMoves DEF PersistReview
    <3> QED
      BY <1>2, <1>6, <2>2, <3>1 DEF RecordStep
  <2> QED
    BY <1>9, <2>1, <2>2 DEF RecordMatched
<1>10. CASE RecordReviewed(w)
  <2>1. Part(r)
    BY <1>2, <1>10, SameMoves DEF RecordReviewed
  <2> QED
    BY <1>2, <1>6, <1>7, <1>10, <2>1 DEF RecordReviewed, RecordStep
<1>11. CASE RecordLate(w)
  <2>1. Part(r)
    BY <1>2, <1>3, <1>11, SameMoves, ContestedMoves DEF RecordLate
  <2> QED
    BY <1>2, <1>6, <1>7, <1>11, <2>1 DEF RecordLate, RecordStep
<1>12. CASE RecordDeferred(w)
  <2>1. CASE TakeEvidence(r, Authentic(n))
    BY <1>2, <1>6, <1>7, <1>8, <1>12, <2>1 DEF RecordDeferred, RecordStep
  <2>2. CASE /\ refund' = [refund EXCEPT ![r] = Deferral(@)] /\ HoldPayment
             /\ deferred' = deferred \cup {n} /\ UNCHANGED <<order, requests, putBack>>
    <3>1. Part(r)
      BY <1>2, <1>12, <2>2, DeferralMoves DEF RecordDeferred
    <3> QED
      BY <1>2, <1>3, <1>6, <1>7, <1>12, <2>2, <3>1 DEF RecordDeferred, RecordStep
  <2> QED
    BY <1>12, <2>1, <2>2 DEF RecordDeferred
<1> QED
  BY <1>9, <1>10, <1>11, <1>12 DEF RecordWebhook

-----------------------------------------------------------------------------
(* A recorded answer or webhook keeps the invariant.                           *)

LEMMA PartKeeps ==
    ASSUME CancelInv, NEW r, RecordStep(r), Part(r), order' \in {order, [order EXCEPT !.review = TRUE]}
    PROVE  CancelInv'
<1> USE DEF CancelInv
<1>0. r \in Requests
  BY DEF RecordStep, Open
<1>1. TypeOK'
  BY DEF TypeOK, RecordStep, Part, PaymentRows, provider, carrier
<1>2. \A q \in Requests :
        /\ refund'[q].status = "NONE" <=> refund[q].status = "NONE"
        /\ refund'[q].status = "SUCCEEDED" <=> refund[q].status = "SUCCEEDED"
        /\ refund'[q].status = "FAILED" => refund[q].status = "FAILED" \/ gateway[q] \in {"NONE", "FAILED"}
        /\ Respected(refund'[q])
  BY DEF Part, RecordStep, Open, RequestsAgree
<1>3. UNCHANGED <<requests, putBack, returns, calls, gateway, asked, sent>> /\ payment'.refunded = payment.refunded
      /\ answers' \subseteq answers /\ waiting' \subseteq waiting
  BY DEF Part, RecordStep, provider
<1>4. order'.status = order.status /\ order'.fulfilment = order.fulfilment /\ order'.tracking = order.tracking
  BY DEF TypeOK
\* An attempt whose call is still to come is not the one an answer is about.
<1>5. \A q \in calls : refund'[q].status # "FAILED"
  BY DEF Part, RecordStep, FlightAgrees, TypeOK
<1>6. FlightAgrees'
  BY <1>2, <1>3, <1>5 DEF FlightAgrees, Asked
<1>7. RequestsAgree'
  BY <1>2, <1>3 DEF RequestsAgree, Live
<1>8. SaleAgrees'
  BY <1>2, <1>3, <1>4 DEF SaleAgrees, CancellationWhole
<1>9. GoodsAgree'
  BY <1>3, <1>4 DEF GoodsAgree
<1> QED
  BY <1>1, <1>6, <1>7, <1>8, <1>9

LEMMA CompleteKeeps ==
    ASSUME CancelInv, NEW r, RecordStep(r), Cancellable(r), Complete(r)
    PROVE  CancelInv'
<1> USE DEF CancelInv
<1> DEFINE row == [status |-> "SUCCEEDED", code |-> "NONE", known |-> TRUE, confirmed |-> TRUE, bound |-> TRUE]
<1>0. r \in Requests
  BY DEF RecordStep, Open
<1>1. row \in RefundRows /\ row.status = "SUCCEEDED" /\ Respected(row)
  BY DEF RefundRows, RefundStatuses, Codes, Respected
<1>2. refund' = [refund EXCEPT ![r] = row]
  BY DEF Complete
<1> HIDE DEF row
<1>3. \A p \in Products : putBack[p] = 0 /\ Basket[p] \in Nat
  BY OrderAssumption DEF SaleAgrees, Cancellable, Paid, Untouched, TypeOK
<1>4. putBack' = Basket
  BY <1>3, OrderAssumption DEF Complete
<1>5. payment' = [status |-> "REFUNDED", refunded |-> Total] /\ Total \in 0..Total
  BY OrderAssumption DEF Complete
<1>6. order' = [order EXCEPT !.status = "CANCELLED", !.fulfilment = "CANCELLED", !.tracking = "NONE"]
      /\ requests' = [requests EXCEPT ![r] = "COMPLETED"] /\ requests[r] = "APPROVED"
  BY DEF Complete, Cancellable
<1>7. UNCHANGED <<returns, calls, gateway, asked, sent>> /\ answers' \subseteq answers /\ waiting' \subseteq waiting
  BY DEF RecordStep, provider
<1>8. TypeOK'
  BY <1>0, <1>1, <1>2, <1>4, <1>5, <1>6, OrderAssumption
  DEF TypeOK, RecordStep, provider, carrier, RequestStatuses, Fulfilments
<1>9. \A q \in Requests : q # r => refund'[q] = refund[q] /\ requests'[q] = requests[q]
  BY <1>2, <1>6 DEF TypeOK
<1>10. refund'[r] = row /\ requests'[r] = "COMPLETED"
  BY <1>0, <1>2, <1>6 DEF TypeOK
<1>11. FlightAgrees'
  BY <1>0, <1>1, <1>7, <1>9, <1>10 DEF FlightAgrees, Asked
<1>12. RequestsAgree'
  BY <1>1, <1>6, <1>9, <1>10 DEF RequestsAgree, Live
<1>13. order'.status = "CANCELLED" /\ order'.fulfilment = "CANCELLED" /\ order'.tracking = "NONE"
  BY <1>6 DEF TypeOK
<1>14. \A q \in Requests : q # r => requests[q] # "COMPLETED" /\ refund[q].status = "NONE"
  BY <1>0, <1>6 DEF RequestsAgree, Live
<1>15. SaleAgrees'
  BY <1>0, <1>1, <1>4, <1>5, <1>9, <1>10, <1>13, <1>14 DEF SaleAgrees, CancellationWhole
<1>16. GoodsAgree'
  BY <1>13 DEF GoodsAgree
<1> QED
  BY <1>8, <1>11, <1>12, <1>15, <1>16

LEMMA RecordKeeps ==
    ASSUME CancelInv, NEW r, RecordStep(r)
    PROVE  CancelInv'
BY PartKeeps, CompleteKeeps DEF RecordStep

-----------------------------------------------------------------------------
(* The other operations.                                                       *)

LEMMA CancelInit == Init => CancelInv
<1> SUFFICES ASSUME Init PROVE CancelInv
  OBVIOUS
<1>1. TypeOK
  BY OrderAssumption
  DEF Init, TypeOK, AbsentRefund, RefundRows, RefundStatuses, Codes, RequestStatuses, Fulfilments, ShipmentStatuses
<1>2. FlightAgrees /\ RequestsAgree /\ SaleAgrees /\ GoodsAgree
  BY DEF Init, FlightAgrees, RequestsAgree, SaleAgrees, GoodsAgree, AbsentRefund, Live, Respected, CancellationWhole
<1> QED
  BY <1>1, <1>2 DEF CancelInv

(* While money may leave, the barrier is up (findShopCancellationBarrier). *)
LEMMA BarrierIsUp ==
    ASSUME CancelInv, NEW r \in Requests, r \in calls \/ gateway[r] \in {"PENDING", "SUCCEEDED"}
    PROVE  Barrier
<1>1. refund[r].status \in RefundStatuses
  BY DEF CancelInv, TypeOK, RefundRows
<1>2. refund[r].status \notin {"NONE", "FAILED"}
  BY DEF CancelInv, FlightAgrees
<1> QED
  BY <1>1, <1>2 DEF Barrier, RefundStatuses

(* The preparation touches nothing but the order and the carrier, and only while the    *)
(* barrier is down, or leaves the goods where they are.                                  *)
LEMMA GoodsStep ==
    ASSUME CancelInv, TypeOK', UNCHANGED <<requests, refund, payment, putBack, returns, inFlight, provider>>,
           order'.status = order.status,
           ~Barrier \/ (order'.fulfilment = order.fulfilment /\ order'.tracking = order.tracking)
    PROVE  CancelInv'
<1> USE DEF CancelInv, inFlight, provider
<1>1. FlightAgrees'
  BY DEF FlightAgrees, Asked
<1>2. RequestsAgree'
  BY DEF RequestsAgree, Live
<1>3. SaleAgrees'
  BY DEF SaleAgrees, CancellationWhole
<1>4. GoodsAgree'
  <2>1. CASE ~Barrier
    BY <2>1, BarrierIsUp DEF GoodsAgree
  <2>2. CASE order'.fulfilment = order.fulfilment /\ order'.tracking = order.tracking
    BY <2>2 DEF GoodsAgree
  <2> QED
    BY <2>1, <2>2
<1> QED
  BY <1>1, <1>2, <1>3, <1>4

LEMMA ShippingKeeps == CancelInv /\ ShippingNext => CancelInv'
<1> SUFFICES ASSUME CancelInv, ShippingNext
             PROVE  CancelInv'
  OBVIOUS
<1> USE DEF inFlight, provider, carrier, rows
<1>0. TypeOK
  BY DEF CancelInv
<1>1. CASE Prepare
  <2>1. TypeOK' /\ order'.status = order.status
    BY <1>0, <1>1 DEF Prepare, TypeOK, Fulfilments
  <2> QED
    BY <1>1, <2>1, GoodsStep DEF Prepare
<1>2. CASE RecordTracking
  <2>1. TypeOK' /\ order'.status = order.status
    BY <1>0, <1>2 DEF RecordTracking, TypeOK
  <2> QED
    BY <1>2, <2>1, GoodsStep DEF RecordTracking
<1>3. CASE MarkShipped
  <2>1. TypeOK' /\ order'.status = order.status
    BY <1>0, <1>3 DEF MarkShipped, TypeOK, Fulfilments
  <2> QED
    BY <1>3, <2>1, GoodsStep DEF MarkShipped
<1>4. CASE RequestShipment
  <2>1. TypeOK' /\ UNCHANGED order
    BY <1>0, <1>4 DEF RequestShipment, TypeOK, ShipmentStatuses
  <2> QED
    BY <1>4, <2>1, GoodsStep DEF RequestShipment
<1>5. CASE ReconcileShipment
  <2>1. TypeOK' /\ UNCHANGED order
    BY <1>0, <1>5 DEF ReconcileShipment, TypeOK
  <2> QED
    BY <1>5, <2>1, GoodsStep DEF ReconcileShipment
<1>6. ASSUME NEW kind \in carrierCalls, CarrierCallLost(kind)
      PROVE  CancelInv'
  <2>1. TypeOK' /\ UNCHANGED order
    BY <1>0, <1>6 DEF CarrierCallLost, TypeOK
  <2> QED
    BY <1>6, <2>1, GoodsStep DEF CarrierCallLost
<1>7. ASSUME NEW kind \in carrierCalls, NEW result \in CarrierResults, NEW known \in BOOLEAN,
             CarrierAnswers(kind, result, known)
      PROVE  CancelInv'
  <2>1. FinalStatus(result) \in ShipmentStatuses
    BY DEF FinalStatus, CarrierResults, ShipmentStatuses
  <2>2. UNCHANGED shipment \/ shipment' = [status |-> FinalStatus(result), known |-> known]
    BY <1>7 DEF CarrierAnswers
  <2>3. UNCHANGED order \/ (order' = [order EXCEPT !.tracking = "PROVIDER"] /\ FinalStatus(result) = "SUCCEEDED")
    BY <1>7 DEF CarrierAnswers
  <2>4. FinalStatus(result) = "SUCCEEDED" => ~Barrier
    BY DEF FinalStatus
  <2>5. TypeOK' /\ order'.status = order.status
    BY <1>0, <1>7, <2>1, <2>2, <2>3 DEF CarrierAnswers, TypeOK
  <2> QED
    BY <1>7, <2>3, <2>4, <2>5, GoodsStep DEF CarrierAnswers
<1> QED
  BY <1>1, <1>2, <1>3, <1>4, <1>5, <1>6, <1>7 DEF ShippingNext

LEMMA ReserveKeeps ==
    ASSUME CancelInv, NEW r \in Requests, ReserveRefund(r)
    PROVE  CancelInv'
<1> USE DEF CancelInv, provider, carrier
<1>1. refund[r].status = "NONE" /\ ~refund[r].confirmed
  BY DEF ReserveRefund, RequestsAgree, Respected, TypeOK, RefundRows
<1>2. refund[r] \in RefundRows
  BY DEF TypeOK
<1> DEFINE row == [refund[r] EXCEPT !.status = "PROCESSING"]
<1>3. row \in RefundRows /\ row.status = "PROCESSING" /\ ~row.confirmed
  BY <1>1, <1>2 DEF RefundRows, RefundStatuses, ActiveRefund
<1>4. refund' = [refund EXCEPT ![r] = row]
  BY <1>2 DEF ReserveRefund, TypeOK, RefundRows
<1> HIDE DEF row
<1>5. requests' = [requests EXCEPT ![r] = "APPROVED"] /\ requests[r] = "REQUESTED"
      /\ calls' = calls \cup {r} /\ payment'.refunded = payment.refunded
      /\ UNCHANGED <<order, putBack, returns, answers, waiting, gateway, asked, sent>>
  BY DEF ReserveRefund, TypeOK
<1>6. TypeOK'
  BY <1>3, <1>4, <1>5 DEF TypeOK, ReserveRefund, RequestStatuses
<1>7. \A q \in Requests : q # r => refund'[q] = refund[q] /\ requests'[q] = requests[q]
  BY <1>4, <1>5 DEF TypeOK
<1>8. refund'[r] = row /\ requests'[r] = "APPROVED"
  BY <1>4, <1>5 DEF TypeOK
<1>9. FlightAgrees'
  BY <1>1, <1>3, <1>5, <1>7, <1>8 DEF FlightAgrees, Asked
<1>10. RequestsAgree'
  BY <1>3, <1>5, <1>7, <1>8 DEF RequestsAgree, Live, Respected
<1>11. SaleAgrees'
  BY <1>1, <1>3, <1>5, <1>7, <1>8 DEF SaleAgrees, CancellationWhole
<1>12. order.fulfilment # "SHIPPED" /\ order.tracking = "NONE"
  BY DEF ReserveRefund, Untouched
<1>13. GoodsAgree'
  BY <1>5, <1>12 DEF GoodsAgree
<1> QED
  BY <1>6, <1>9, <1>10, <1>11, <1>13

LEMMA RequestsKeep == CancelInv /\ RequestNext => CancelInv'
<1> SUFFICES ASSUME CancelInv, RequestNext
             PROVE  CancelInv'
  OBVIOUS
<1> USE DEF CancelInv, inFlight, provider, carrier
<1>1. ASSUME NEW r \in Requests, CreateRequest(r)
      PROVE  CancelInv'
  <2>1. \A q \in Requests : requests[q] # "COMPLETED"
    BY <1>1 DEF CreateRequest, Paid, SaleAgrees, CancellationWhole
  <2>2. \A q \in Requests : ~Live(q)
    BY <1>1, <2>1 DEF CreateRequest, Live
  <2>3. requests[r] = "NONE" /\ requests' = [requests EXCEPT ![r] = "REQUESTED"]
    BY <1>1 DEF CreateRequest
  <2>4. TypeOK'
    BY <1>1, <2>3 DEF CreateRequest, TypeOK, RequestStatuses
  <2>5. RequestsAgree'
    BY <1>1, <2>2, <2>3 DEF CreateRequest, RequestsAgree, Live, TypeOK
  <2>6. SaleAgrees'
    BY <1>1, <2>1, <2>3 DEF CreateRequest, SaleAgrees, CancellationWhole, TypeOK
  <2>7. FlightAgrees' /\ GoodsAgree'
    BY <1>1 DEF CreateRequest, FlightAgrees, Asked, GoodsAgree
  <2> QED
    BY <2>4, <2>5, <2>6, <2>7
<1>2. ASSUME NEW r \in Requests, RejectRequest(r)
      PROVE  CancelInv'
  <2>1. requests[r] = "REQUESTED" /\ requests' = [requests EXCEPT ![r] = "REJECTED"]
    BY <1>2 DEF RejectRequest
  <2>2. TypeOK'
    BY <1>2, <2>1 DEF RejectRequest, TypeOK, RequestStatuses
  <2>3. RequestsAgree'
    BY <1>2, <2>1 DEF RejectRequest, RequestsAgree, Live, TypeOK
  <2>4. SaleAgrees'
    BY <1>2, <2>1 DEF RejectRequest, SaleAgrees, CancellationWhole, TypeOK
  <2>5. FlightAgrees' /\ GoodsAgree'
    BY <1>2 DEF RejectRequest, FlightAgrees, Asked, GoodsAgree
  <2> QED
    BY <2>2, <2>3, <2>4, <2>5
<1>3. ASSUME NEW c \in Corrections, CreateCorrection(c) \/ RejectCorrection(c) \/ ApproveAddress(c)
      PROVE  CancelInv'
  <2>1. TypeOK'
    BY <1>3, ZenonT(40) DEF CreateCorrection, RejectCorrection, ApproveAddress, TypeOK, RequestStatuses
  <2> QED
    BY <1>3, <2>1, GoodsStep DEF CreateCorrection, RejectCorrection, ApproveAddress
<1>4. ASSUME NEW r \in Requests, ReserveRefund(r)
      PROVE  CancelInv'
  BY <1>4, ReserveKeeps
<1> QED
  BY <1>1, <1>2, <1>3, <1>4 DEF RequestNext

LEMMA ReadsAreEvidence ==
    ASSUME NEW r \in Requests, NEW status \in {"PENDING", "SUCCEEDED", "FAILED"}, NEW n \in Reads(r, status)
    PROVE  n \in Evidence /\ n.request = r /\ n.status = status
BY OrderAssumption DEF Reads, Evidence

LEMMA CallKeeps ==
    ASSUME CancelInv, NEW r \in Requests, CallAccepted(r) \/ CallRejected(r)
    PROVE  CancelInv'
<1> USE DEF CancelInv, rows, carrier
<1>1. asked[r] = 0 /\ gateway[r] = "NONE" /\ refund[r].status \notin {"NONE", "FAILED"} /\ r \in calls
  BY DEF CallAccepted, CallRejected, FlightAgrees
<1>2. order.fulfilment # "SHIPPED" /\ order.tracking = "NONE"
  BY <1>1 DEF GoodsAgree
<1>3. /\ calls' = calls \ {r} /\ asked' = [asked EXCEPT ![r] = 1]
      /\ UNCHANGED <<order, corrections, requests, refund, payment, putBack, returns>>
      /\ UNCHANGED <<deferred, waiting, receipts, shipment, carrierCalls>>
  BY <1>1 DEF CallAccepted, CallRejected, TypeOK
<1>4. PICK status \in {"NONE", "PENDING", "SUCCEEDED", "FAILED"} :
        /\ gateway' = [gateway EXCEPT ![r] = status]
        /\ sent' \subseteq Evidence /\ answers' \subseteq Answers
        /\ \A e \in (answers' \cup sent') \ (answers \cup sent) :
            /\ e.request = r
            /\ e.status = "FAILED" => status = "FAILED"
            /\ e.status = "REFUSED" => status = "NONE"
  <2>1. CASE CallAccepted(r)
    <3>1. PICK status \in {"PENDING", "SUCCEEDED", "FAILED"} :
            /\ gateway' = [gateway EXCEPT ![r] = status]
            /\ \E n \in Reads(r, status) : sent' = sent \cup {n}
            /\ \E x \in Reads(r, status) \cup {Unclear(r)} : answers' = answers \cup {x}
      BY <2>1 DEF CallAccepted
    <3>2. Unclear(r) \in Answers /\ Unclear(r).request = r /\ Unclear(r).status = "AMBIGUOUS"
      BY DEF Unclear, Answers
    <3>3. PICK n \in Reads(r, status) : sent' = sent \cup {n}
      BY <3>1
    <3>4. PICK x \in Reads(r, status) \cup {Unclear(r)} : answers' = answers \cup {x}
      BY <3>1
    <3>5. n \in Evidence /\ n.request = r /\ n.status = status
      BY <3>3, ReadsAreEvidence
    <3>6. x \in Answers /\ x.request = r /\ x.status \in {status, "AMBIGUOUS"}
      BY <3>2, <3>4, ReadsAreEvidence DEF Answers
    <3>7. sent' \subseteq Evidence /\ answers' \subseteq Answers
      BY <3>3, <3>4, <3>5, <3>6 DEF TypeOK
    <3>8. \A e \in (answers' \cup sent') \ (answers \cup sent) : e = n \/ e = x
      BY <3>3, <3>4
    <3>9. \A e \in (answers' \cup sent') \ (answers \cup sent) :
            e.request = r /\ e.status \in {status, "AMBIGUOUS"}
      BY <3>5, <3>6, <3>8
    <3> QED
      BY <3>1, <3>7, <3>9
  <2>2. CASE CallRejected(r)
    <3>1. /\ Unclear(r) \in Answers /\ Unclear(r).request = r /\ Unclear(r).status = "AMBIGUOUS"
          /\ Refused(r) \in Answers /\ Refused(r).request = r /\ Refused(r).status = "REFUSED"
      BY DEF Unclear, Refused, Answers
    <3>2. PICK x \in {Refused(r), Unclear(r)} : answers' = answers \cup {x} /\ UNCHANGED <<gateway, sent>>
      BY <2>2 DEF CallRejected
    <3>3. gateway' = [gateway EXCEPT ![r] = "NONE"]
      BY <1>1, <3>2 DEF TypeOK
    <3> QED
      BY <3>1, <3>2, <3>3 DEF TypeOK
  <2> QED
    BY <2>1, <2>2
<1>5. TypeOK'
  BY <1>3, <1>4 DEF TypeOK
<1>6. /\ asked'[r] = 1 /\ gateway'[r] = status
      /\ \A q \in Requests \ {r} : asked'[q] = asked[q] /\ gateway'[q] = gateway[q]
  BY <1>3, <1>4 DEF TypeOK
<1>7. ASSUME NEW e, Asked(e)
      PROVE  Asked(e)'
  BY <1>1, <1>6, <1>7 DEF Asked
<1>8. FlightAgrees'
  <2>1. \A e \in answers' \cup sent' : Asked(e)'
    BY <1>4, <1>6, <1>7 DEF FlightAgrees, Asked
  <2>2. \A w \in waiting' : Asked(w.notice)'
    BY <1>3, <1>7 DEF FlightAgrees
  <2> QED
    BY <1>1, <1>3, <1>6, <2>1, <2>2 DEF FlightAgrees
<1>9. RequestsAgree' /\ SaleAgrees'
  BY <1>3 DEF RequestsAgree, Live, SaleAgrees, CancellationWhole
<1>10. GoodsAgree'
  BY <1>2, <1>3 DEF GoodsAgree
<1> QED
  BY <1>5, <1>8, <1>9, <1>10

LEMMA SettleKeeps ==
    ASSUME CancelInv, NEW r \in Requests, ProviderSettles(r)
    PROVE  CancelInv'
<1> USE DEF CancelInv, rows, inFlight, carrier
<1>1. gateway[r] = "PENDING"
  BY DEF ProviderSettles
<1>2. PICK status \in {"SUCCEEDED", "FAILED"} :
        gateway' = [gateway EXCEPT ![r] = status] /\ \E n \in Reads(r, status) : sent' = sent \cup {n}
  BY DEF ProviderSettles
<1>3. PICK n \in Reads(r, status) : sent' = sent \cup {n}
  BY <1>2
<1>4. n \in Evidence /\ n.request = r /\ n.status = status
  BY <1>2, <1>3, ReadsAreEvidence
<1>5. UNCHANGED <<rows, inFlight, carrier, asked>>
  BY DEF ProviderSettles
<1>6. TypeOK'
  BY <1>2, <1>3, <1>4, <1>5 DEF TypeOK
<1>7. gateway'[r] = status /\ \A q \in Requests \ {r} : gateway'[q] = gateway[q]
  BY <1>2 DEF TypeOK
<1>8. ASSUME NEW e, Asked(e)
      PROVE  Asked(e)'
  BY <1>1, <1>5, <1>7, <1>8 DEF Asked
<1>9. asked[r] = 1
  BY <1>1 DEF FlightAgrees
<1>10. FlightAgrees'
  <2>1. Asked(n)'
    BY <1>2, <1>4, <1>5, <1>7, <1>9 DEF Asked
  <2>2. /\ \A e \in answers' \cup sent' : Asked(e)'
        /\ \A w \in waiting' : Asked(w.notice)'
    BY <1>3, <1>5, <1>8, <2>1 DEF FlightAgrees
  <2> QED
    BY <1>1, <1>5, <1>7, <1>9, <2>2 DEF FlightAgrees
<1>11. RequestsAgree' /\ SaleAgrees'
  BY <1>5 DEF RequestsAgree, Live, SaleAgrees, CancellationWhole
<1>12. GoodsAgree'
  BY <1>1, <1>5, <1>7 DEF GoodsAgree
<1> QED
  BY <1>6, <1>10, <1>11, <1>12

(* Servers that die, look a refund up, or choose the attempt of a webhook. *)
LEMMA ServersKeep ==
    ASSUME CancelInv, UNCHANGED <<rows, carrier, provider, deferred, receipts>>,
           calls' \subseteq calls, answers' \subseteq Answers,
           waiting' \subseteq [notice : Evidence, decision : {"MATCH", "DEFER", "REVIEW"}],
           \A e \in answers' : e \in answers \/ Asked(e),
           \A w \in waiting' : w \in waiting \/ w.notice \in sent
    PROVE  CancelInv'
<1> USE DEF CancelInv, rows, carrier, provider
<1>1. TypeOK'
  BY DEF TypeOK
<1>2. FlightAgrees'
  BY DEF FlightAgrees, Asked
<1>3. RequestsAgree' /\ SaleAgrees'
  BY DEF RequestsAgree, Live, SaleAgrees, CancellationWhole
<1>4. GoodsAgree'
  BY DEF GoodsAgree
<1> QED
  BY <1>1, <1>2, <1>3, <1>4

LEMMA RetrieveKeeps ==
    ASSUME CancelInv, NEW r \in Requests, Retrieve(r)
    PROVE  CancelInv'
<1> USE DEF CancelInv
<1>1. gateway[r] \in {"PENDING", "SUCCEEDED", "FAILED"} /\ asked[r] = 1
  BY DEF Retrieve, TypeOK, FlightAgrees
<1>2. PICK x \in Reads(r, gateway[r]) \cup {Unclear(r)} : answers' = answers \cup {x}
  BY DEF Retrieve
<1>3. x \in Answers /\ Asked(x)
  <2>1. CASE x = Unclear(r)
    BY <1>1, <2>1 DEF Unclear, Answers, Asked
  <2>2. CASE x \in Reads(r, gateway[r])
    BY <1>1, <2>2, ReadsAreEvidence DEF Answers, Asked
  <2> QED
    BY <1>2, <2>1, <2>2
<1>4. answers' \subseteq Answers /\ \A e \in answers' : e \in answers \/ Asked(e)
  BY <1>2, <1>3 DEF TypeOK
<1>5. UNCHANGED <<rows, calls, deferred, waiting, receipts, carrier, provider>>
  BY DEF Retrieve
<1> QED
  BY <1>4, <1>5, ServersKeep DEF TypeOK

LEMMA CorrelateKeeps ==
    ASSUME CancelInv, NEW n \in sent, Correlate(n)
    PROVE  CancelInv'
<1> USE DEF CancelInv
<1>1. Decision(refund[n.request], n) \in {"MATCH", "DEFER", "REVIEW"}
  BY DEF Decision
<1>2. waiting' = waiting \cup {[notice |-> n, decision |-> Decision(refund[n.request], n)]}
  BY DEF Correlate
<1>3. UNCHANGED <<rows, calls, answers, deferred, receipts, carrier, provider>>
  BY DEF Correlate
<1>4. n \in Evidence
  BY DEF TypeOK
<1> QED
  BY <1>1, <1>2, <1>3, <1>4, ServersKeep DEF TypeOK

LEMMA RefundsKeep == CancelInv /\ RefundNext => CancelInv'
<1> SUFFICES ASSUME CancelInv, RefundNext
             PROVE  CancelInv'
  OBVIOUS
<1>1. ASSUME NEW r \in Requests, CallAccepted(r) \/ CallRejected(r) \/ ProviderSettles(r) \/ Retrieve(r)
      PROVE  CancelInv'
  BY <1>1, CallKeeps, SettleKeeps, RetrieveKeeps
<1>2. CASE ServerDies
  BY <1>2, ServersKeep DEF ServerDies, CancelInv, TypeOK
<1>3. ASSUME NEW x \in answers, RecordAnswer(x)
      PROVE  CancelInv'
  BY <1>3, AnswerSteps, RecordKeeps
<1>4. ASSUME NEW n \in sent, Correlate(n)
      PROVE  CancelInv'
  BY <1>4, CorrelateKeeps
<1>5. ASSUME NEW w \in waiting, RecordWebhook(w)
      PROVE  CancelInv'
  BY <1>5, WebhookSteps, RecordKeeps
<1>6. CASE RecordIncident
  <2>1. TypeOK' /\ order'.status = order.status /\ order'.fulfilment = order.fulfilment
        /\ order'.tracking = order.tracking
    BY <1>6 DEF RecordIncident, CancelInv, TypeOK, inFlight, carrier, provider
  <2> QED
    BY <1>6, <2>1, GoodsStep DEF RecordIncident
<1> QED
  BY <1>1, <1>2, <1>3, <1>4, <1>5, <1>6 DEF RefundNext

LEMMA ReturnsKeep == CancelInv /\ ReturnsStep => CancelInv'
<1> SUFFICES ASSUME CancelInv, ReturnsStep
             PROVE  CancelInv'
  OBVIOUS
<1> USE DEF CancelInv, inFlight, carrier, provider
<1>1. PICK cents \in payment.refunded..Total :
        payment' \in [status : {payment.status, "REFUND_PENDING", SettledStatus(cents)}, refunded : {cents}]
  BY DEF ReturnsStep
<1>2. SettledStatus(cents) \in {"SUCCEEDED", "REFUNDED", "PARTIALLY_REFUNDED"}
  BY DEF SettledStatus
<1>3. cents \in 0..Total
  BY OrderAssumption DEF TypeOK
<1>4. payment' \in PaymentRows
  BY <1>1, <1>2, <1>3 DEF TypeOK, PaymentRows
<1>5. putBack' \in [Products -> Nat]
  <2>1. \A p \in Products : putBack'[p] \in putBack[p]..Basket[p]
    BY DEF ReturnsStep
  <2>2. putBack' \in [Products -> UNION {0..Basket[p] : p \in Products}]
    BY DEF ReturnsStep
  <2>3. \A p \in Products : putBack'[p] \in Nat
    BY <2>1, OrderAssumption DEF TypeOK
  <2> QED
    BY <2>2, <2>3
<1>6. order'.status = order.status /\ order'.fulfilment = order.fulfilment /\ order'.tracking = order.tracking
  BY DEF ReturnsStep, TypeOK
<1>7. TypeOK'
  BY <1>4, <1>5 DEF ReturnsStep, TypeOK, PaymentRows
<1>8. FlightAgrees'
  BY DEF ReturnsStep, FlightAgrees, Asked
<1>9. RequestsAgree'
  BY DEF ReturnsStep, RequestsAgree, Live
<1>10. GoodsAgree'
  BY <1>6 DEF ReturnsStep, GoodsAgree
<1>11. UNCHANGED <<requests, refund>>
  BY DEF ReturnsStep
<1>12. order.status # "OPEN" => payment'.refunded = payment.refunded /\ putBack' = putBack
  BY DEF ReturnsStep
<1>13. CancellationWhole'
  BY <1>6, <1>11, <1>12 DEF SaleAgrees, CancellationWhole
<1>14. order'.status = "OPEN" /\ ~returns'.disposition =>
         payment'.refunded = 0 /\ putBack' = [p \in Products |-> 0]
  <2> SUFFICES ASSUME order.status = "OPEN", ~returns'.disposition
               PROVE  payment'.refunded = 0 /\ putBack' = [p \in Products |-> 0]
    BY <1>6
  <2>1. payment'.refunded = payment.refunded /\ putBack' = putBack
    BY DEF ReturnsStep
  <2>2. returns.disposition => ~GaveBack
    BY DEF ReturnsStep
  <2>3. ~GaveBack => payment.refunded = 0 /\ putBack = [p \in Products |-> 0]
    BY OrderAssumption DEF GaveBack, TypeOK
  <2> QED
    BY <2>1, <2>2, <2>3 DEF SaleAgrees
<1>15. SaleAgrees'
  BY <1>6, <1>11, <1>13, <1>14 DEF SaleAgrees
<1> QED
  BY <1>7, <1>8, <1>9, <1>10, <1>15

LEMMA CancelInvariant == Spec => []CancelInv
<1>1. CancelInv /\ [Next]_vars => CancelInv'
  <2>1. CancelInv /\ UNCHANGED vars => CancelInv'
    BY DEF vars, rows, inFlight, carrier, provider, CancelInv, TypeOK, FlightAgrees, Asked, RequestsAgree, Live,
           SaleAgrees, CancellationWhole, GoodsAgree
  <2> QED
    BY <2>1, ShippingKeeps, RequestsKeep, RefundsKeep, ReturnsKeep DEF Next
<1> QED
  BY <1>1, CancelInit, PTL DEF Spec

-----------------------------------------------------------------------------
(* What the runs check, for every order.                                       *)

(* Every row and message keeps its type; no refunded amount exceeds the total. *)
THEOREM CancellationTypeCorrect == Spec => []TypeOK
<1>1. CancelInv => TypeOK
  BY DEF CancelInv
<1> QED
  BY <1>1, CancelInvariant, PTL

(* A cancellation is whole: refund, request, order, money and stock agree             *)
(* (applyShopCustomerCancellationEvidenceInTransaction).                               *)
THEOREM CancellationIsWhole == Spec => []CancellationWhole
<1>1. CancelInv => CancellationWhole
  BY DEF CancelInv, SaleAgrees
<1> QED
  BY <1>1, CancelInvariant, PTL

(* A failed attempt frees the goods only when the money certainly did not leave        *)
(* (findShopCancellationBarrier).                                                      *)
THEOREM FailuresAreProven == Spec => []FailureProven
<1>1. CancelInv => FailureProven
  BY DEF CancelInv, FlightAgrees, FailureProven
<1> QED
  BY <1>1, CancelInvariant, PTL

(* Goods and money never both leave. *)
THEOREM GoodsOrMoney == Spec => []NeverShippedAndRefunded
<1>1. CancelInv => NeverShippedAndRefunded
  BY DEF CancelInv, GoodsAgree, NeverShippedAndRefunded
<1> QED
  BY <1>1, CancelInvariant, PTL

(* The provider is asked at most once for the money of an order                        *)
(* (reserveCancellationRefund).                                                        *)
THEOREM ProviderAskedOnce == Spec => []AskedOnce
<1>1. ASSUME CancelInv
      PROVE  AskedOnce
  <2>1. \A r \in Requests : asked[r] \in {0, 1}
    BY <1>1 DEF CancelInv, FlightAgrees
  <2>2. \A r \in Requests : asked[r] = 1 => Live(r)
    BY <1>1 DEF CancelInv, FlightAgrees, RequestsAgree, Live
  <2>3. \A r, q \in Requests : asked[r] = 1 /\ asked[q] = 1 => r = q
    BY <1>1, <2>2 DEF CancelInv, RequestsAgree
  <2> QED
    BY <2>1, <2>3 DEF AskedOnce
<1> QED
  BY <1>1, CancelInvariant, PTL

LEMMA KeptWhenUntouched ==
    ASSUME CancelInv, UNCHANGED refund
    PROVE  \A r \in Requests : refund[r].confirmed =>
                refund'[r].confirmed /\ refund'[r].status \in {"REQUIRES_REVIEW", "SUCCEEDED"}
BY DEF CancelInv, RequestsAgree, Respected

LEMMA KeptWhenRecorded ==
    ASSUME CancelInv, NEW q, RecordStep(q)
    PROVE  \A r \in Requests : refund[r].confirmed =>
                refund'[r].confirmed /\ refund'[r].status \in {"REQUIRES_REVIEW", "SUCCEEDED"}
<1>1. CASE Part(q)
  BY <1>1 DEF Part, CancelInv, RequestsAgree, Respected
<1>2. CASE Complete(q)
  BY <1>2 DEF Complete, CancelInv, TypeOK, RequestsAgree, Respected
<1> QED
  BY <1>1, <1>2 DEF RecordStep

LEMMA KeptWhenReserved ==
    ASSUME CancelInv, NEW q \in Requests, ReserveRefund(q)
    PROVE  \A r \in Requests : refund[r].confirmed =>
                refund'[r].confirmed /\ refund'[r].status \in {"REQUIRES_REVIEW", "SUCCEEDED"}
<1>1. ~refund[q].confirmed
  BY DEF ReserveRefund, CancelInv, RequestsAgree, Respected
<1>2. \A r \in Requests \ {q} : refund'[r] = refund[r]
  BY DEF ReserveRefund, CancelInv, TypeOK
<1> QED
  BY <1>1, <1>2 DEF CancelInv, RequestsAgree, Respected

(* A stored confirmation is never lost nor contradicted (Contradicts).                 *)
THEOREM ConfirmationsAreKept == Spec => ConfirmationKept
<1> DEFINE Kept == \A r \in Requests : refund[r].confirmed =>
                    refund'[r].confirmed /\ refund'[r].status \in {"REQUIRES_REVIEW", "SUCCEEDED"}
<1>1. CancelInv /\ [Next]_vars => [Kept]_vars
  <2> SUFFICES ASSUME CancelInv, Next
               PROVE  Kept
    OBVIOUS
  <2> HIDE DEF Kept
  <2>1. CASE UNCHANGED refund
    BY <2>1, KeptWhenUntouched DEF Kept
  <2>2. ASSUME NEW x \in answers, RecordAnswer(x)
        PROVE  Kept
    BY <2>2, AnswerSteps, KeptWhenRecorded DEF Kept
  <2>3. ASSUME NEW w \in waiting, RecordWebhook(w)
        PROVE  Kept
    BY <2>3, WebhookSteps, KeptWhenRecorded DEF Kept
  <2>4. ASSUME NEW r \in Requests, ReserveRefund(r)
        PROVE  Kept
    BY <2>4, KeptWhenReserved DEF Kept
  <2>5. CASE ShippingNext
    BY <2>1, <2>5
    DEF ShippingNext, Prepare, RecordTracking, MarkShipped, RequestShipment, ReconcileShipment, CarrierAnswers,
        CarrierCallLost, rows
  <2>6. CASE RequestNext
    BY <2>1, <2>4, <2>6
    DEF RequestNext, CreateRequest, RejectRequest, CreateCorrection, RejectCorrection, ApproveAddress
  <2>7. CASE RefundNext
    BY <2>1, <2>2, <2>3, <2>7
    DEF RefundNext, CallAccepted, CallRejected, ProviderSettles, Retrieve, ServerDies, Correlate, RecordIncident, rows
  <2>8. CASE ReturnsStep
    BY <2>1, <2>8 DEF ReturnsStep
  <2> QED
    BY <2>5, <2>6, <2>7, <2>8 DEF Next
<1> QED
  BY <1>1, CancelInvariant, PTL DEF Spec, ConfirmationKept

-----------------------------------------------------------------------------
(* Goods while a refund is contested, and the promise of the settlement.       *)

Undone(r) == RecordStep(r) /\ Cancellable(r) /\ Complete(r)

(* Every step, by what it does to the goods, the money and the stock. *)
LEMMA StepKinds ==
    ASSUME CancelInv, Next
    PROVE  \/ /\ payment'.refunded = payment.refunded
              /\ UNCHANGED putBack
              /\ order'.status = order.status
              /\ \/ order'.fulfilment = order.fulfilment /\ order'.tracking = order.tracking
                 \/ ~Barrier /\ order.status = "OPEN"
              /\ order.fulfilment = "SHIPPED" => order'.fulfilment = "SHIPPED"
           \/ \E r \in Requests : Undone(r)
           \/ ReturnsStep
<1> DEFINE Quiet ==
              /\ payment'.refunded = payment.refunded
              /\ UNCHANGED putBack
              /\ order'.status = order.status
              /\ \/ order'.fulfilment = order.fulfilment /\ order'.tracking = order.tracking
                 \/ ~Barrier /\ order.status = "OPEN"
              /\ order.fulfilment = "SHIPPED" => order'.fulfilment = "SHIPPED"
<1>0. TypeOK
  BY DEF CancelInv
<1>1. UNCHANGED <<order, payment, putBack>> => Quiet
  OBVIOUS
<1>2. CASE Prepare \/ RecordTracking \/ MarkShipped
  BY <1>0, <1>2 DEF TypeOK, Prepare, RecordTracking, MarkShipped, Paid
<1>3. CASE RequestShipment \/ ReconcileShipment \/ \E kind \in carrierCalls : CarrierCallLost(kind)
  BY <1>1, <1>3 DEF RequestShipment, ReconcileShipment, CarrierCallLost, rows
<1>4. ASSUME NEW kind \in carrierCalls, NEW result \in CarrierResults, NEW known \in BOOLEAN,
             CarrierAnswers(kind, result, known)
      PROVE  Quiet
  <2>1. \/ UNCHANGED order
        \/ order' = [order EXCEPT !.tracking = "PROVIDER"] /\ FinalStatus(result) = "SUCCEEDED" /\ (Barrier \/ Paid)
    BY <1>4 DEF CarrierAnswers
  <2>2. FinalStatus(result) = "SUCCEEDED" => ~Barrier
    BY DEF FinalStatus
  <2>3. UNCHANGED <<payment, putBack>>
    BY <1>4 DEF CarrierAnswers
  <2>4. UNCHANGED order => Quiet
    BY <1>1, <2>3
  <2>5. ASSUME order' = [order EXCEPT !.tracking = "PROVIDER"], ~Barrier, Paid
        PROVE  Quiet
    BY <1>0, <2>3, <2>5 DEF TypeOK, Paid
  <2> QED
    BY <2>1, <2>2, <2>4, <2>5
<1>5. CASE RequestNext
  <2>1. UNCHANGED <<order, putBack>> /\ payment'.refunded = payment.refunded
    BY <1>0, <1>5 DEF TypeOK, RequestNext, CreateRequest, RejectRequest, CreateCorrection, RejectCorrection,
                      ApproveAddress, ReserveRefund
  <2> QED
    BY <2>1
<1>6. ASSUME NEW r, RecordStep(r)
      PROVE  Quiet \/ \E q \in Requests : Undone(q)
  <2>1. CASE Part(r) /\ order' \in {order, [order EXCEPT !.review = TRUE]}
    <3>1. payment'.refunded = payment.refunded /\ UNCHANGED putBack
      BY <2>1 DEF Part
    <3>2. order'.status = order.status /\ order'.fulfilment = order.fulfilment /\ order'.tracking = order.tracking
      BY <1>0, <2>1 DEF TypeOK
    <3> QED
      BY <3>1, <3>2
  <2>2. CASE Cancellable(r) /\ Complete(r)
    BY <1>6, <2>2 DEF Undone, RecordStep, Open
  <2> QED
    BY <1>6, <2>1, <2>2 DEF RecordStep
<1>7. CASE RefundNext
  <2>1. CASE \/ \E r \in Requests : CallAccepted(r) \/ CallRejected(r) \/ ProviderSettles(r) \/ Retrieve(r)
             \/ ServerDies
             \/ \E n \in sent : Correlate(n)
    BY <1>1, <2>1 DEF CallAccepted, CallRejected, ProviderSettles, Retrieve, ServerDies, Correlate, rows
  <2>2. CASE RecordIncident
    BY <1>0, <2>2 DEF TypeOK, RecordIncident
  <2>3. ASSUME NEW x \in answers, RecordAnswer(x)
        PROVE  Quiet \/ \E q \in Requests : Undone(q)
    BY <1>6, <2>3, AnswerSteps
  <2>4. ASSUME NEW w \in waiting, RecordWebhook(w)
        PROVE  Quiet \/ \E q \in Requests : Undone(q)
    BY <1>6, <2>4, WebhookSteps
  <2> QED
    BY <1>7, <2>1, <2>2, <2>3, <2>4 DEF RefundNext
<1> QED
  BY <1>2, <1>3, <1>4, <1>5, <1>7 DEF Next, ShippingNext

(* While a refund is contested nobody prepares, labels or ships                       *)
(* (findShopCancellationBarrier, applyProviderResult).                                 *)
THEOREM GoodsStayPut == Spec => GoodsStay
<1> DEFINE Stay == Barrier =>
              /\ order'.fulfilment \in {order.fulfilment, "CANCELLED"}
              /\ order'.tracking \in {order.tracking, "NONE"}
<1>1. ASSUME CancelInv, [Next]_vars
      PROVE  [Stay]_vars
  <2> SUFFICES ASSUME Next
               PROVE  Stay
    BY <1>1
  <2>1. ASSUME NEW r, Undone(r)
        PROVE  Stay
    BY <1>1, <2>1 DEF Undone, Complete, CancelInv, TypeOK
  <2>2. CASE ReturnsStep
    BY <1>1, <2>2 DEF ReturnsStep, CancelInv, TypeOK
  <2> QED
    BY <1>1, <2>1, <2>2, StepKinds
<1> QED
  BY <1>1, CancelInvariant, PTL DEF Spec, GoodsStay

LEMMA SettlementStarts == Init => Settlement!Init
BY DEF Init, Settlement!Init

(* The goods of the settlement. *)
Where(o) == IF o.status = "CANCELLED" THEN "BACK" ELSE IF o.fulfilment = "SHIPPED" THEN "SENT" ELSE "HERE"

LEMMA SettlementStep == CancelInv /\ [Next]_vars => [Settlement!Next]_(Settlement!settlementVars)
<1> SUFFICES ASSUME CancelInv, Next
             PROVE  [Settlement!Next]_(Settlement!settlementVars)
  BY DEF vars, rows, Settlement!settlementVars
<1> DEFINE Stutters == Where(order') = Where(order) /\ payment'.refunded = payment.refunded /\ UNCHANGED putBack
<1>0. TypeOK
  BY DEF CancelInv
<1>1. Stutters => UNCHANGED Settlement!settlementVars
  BY DEF Where, Settlement!settlementVars
<1>2. CASE /\ payment'.refunded = payment.refunded
           /\ UNCHANGED putBack
           /\ order'.status = order.status
           /\ \/ order'.fulfilment = order.fulfilment /\ order'.tracking = order.tracking
              \/ ~Barrier /\ order.status = "OPEN"
           /\ order.fulfilment = "SHIPPED" => order'.fulfilment = "SHIPPED"
  <2>1. CASE order.status = "OPEN" /\ order.fulfilment # "SHIPPED" /\ order'.fulfilment = "SHIPPED"
    BY <1>2, <2>1 DEF Settlement!Next, Settlement!Send
  <2>2. CASE ~(order.status = "OPEN" /\ order.fulfilment # "SHIPPED" /\ order'.fulfilment = "SHIPPED")
    <3>1. Stutters
      BY <1>0, <1>2, <2>2 DEF Where, TypeOK
    <3> QED
      BY <1>1, <3>1
  <2> QED
    BY <2>1, <2>2
<1>3. ASSUME NEW r \in Requests, Undone(r)
      PROVE  Settlement!Next
  <2>1. order.status = "OPEN" /\ order.fulfilment # "SHIPPED" /\ payment.refunded = 0
        /\ putBack = [p \in Products |-> 0]
    BY <1>3 DEF Undone, Cancellable, Paid, Untouched, CancelInv, SaleAgrees
  <2>2. order'.status = "CANCELLED" /\ payment'.refunded = Total
    BY <1>0, <1>3 DEF Undone, Complete, TypeOK
  <2>3. putBack' = Basket
    BY <1>3, <2>1, OrderAssumption DEF Undone, Complete
  <2> QED
    BY <2>1, <2>2, <2>3 DEF Settlement!Next, Settlement!Cancel
<1>4. CASE ReturnsStep
  <2>1. order'.status = order.status /\ order'.fulfilment = order.fulfilment
    BY <1>0, <1>4 DEF ReturnsStep, TypeOK
  <2>2. CASE order.status = "OPEN"
    <3>1. payment'.refunded \in payment.refunded..Total
      BY <1>4 DEF ReturnsStep
    <3>2. putBack' \in [Products -> Nat] /\ \A p \in Products : putBack'[p] \in putBack[p]..Basket[p]
      BY <1>4, ReturnsKeep DEF ReturnsStep, CancelInv, TypeOK
    <3> QED
      BY <2>1, <2>2, <3>1, <3>2 DEF Settlement!Next, Settlement!GiveBack
  <2>3. CASE order.status # "OPEN"
    <3>1. payment'.refunded = payment.refunded /\ putBack' = putBack
      BY <1>4, <2>3 DEF ReturnsStep
    <3> QED
      BY <1>1, <2>1, <3>1 DEF Where
  <2> QED
    BY <2>2, <2>3
<1> QED
  BY <1>2, <1>3, <1>4, StepKinds

(* Requests, refund attempts, webhooks and carriers together keep the promise of       *)
(* ShopSettlement.                                                                     *)
THEOREM CancellationImplementsSettlement == Spec => ImplementsSettlement
<1>1. CancelInv /\ [Next]_vars => [Settlement!Next]_(Settlement!settlementVars)
  BY SettlementStep
<1> QED
  BY <1>1, SettlementStarts, CancelInvariant, PTL
  DEF Spec, ImplementsSettlement, Settlement!SettlementSpec
=============================================================================

-------------------------- MODULE ShopCancellation --------------------------
(***************************************************************************)
(* One paid Shop order after its sale: its preparation and shipping         *)
(* (fulfillment-service.ts, shipping-provider-service.ts), the members'     *)
(* requests to cancel it or to correct its address                          *)
(* (customer-request-service.ts), and the refund that a cancellation needs  *)
(* (refund-finalization-service.ts, refund-accounting-safety.ts and the     *)
(* refund webhooks of payments/provider-financial-events.ts).               *)
(*                                                                          *)
(* Every transaction below takes lockShopOrderForMutation first, hence is   *)
(* one atomic action.  The calls to the payment provider and to the carrier *)
(* run outside the transactions: "calls", "answers" and "carrierCalls" are  *)
(* the servers' requests that hold a reservation or an answer and have not  *)
(* recorded it; such a server may die.  A webhook chooses its attempt       *)
(* before it takes the order's lock ("waiting").                            *)
(*                                                                          *)
(* The after-sales files of the same order are seen through "returns" and   *)
(* "payment" only; ReturnsStep says what they may do to both, and           *)
(* ShopReturns implements it.                                               *)
(***************************************************************************)
EXTENDS Integers, FiniteSets

CONSTANTS
    Requests,      \* cancellation requests of the order, each created at most once
    Corrections,   \* address correction requests, each created at most once
    Products,      \* tracked lines of the basket
    Basket,        \* their quantities
    Total,         \* total of the order, in cents
    Shippable,     \* shippingRequired: does a carrier take part?
    Correlations,  \* what evidence may say of its origin, see Evidence
    MaxAnswers     \* bound: answers of the provider not yet recorded at one time

ASSUME OrderAssumption ==
    /\ Basket \in [Products -> Nat \ {0}]
    /\ Total \in Nat \ {0}
    /\ Shippable \in BOOLEAN
    /\ Correlations \subseteq {"MATCH", "MISSING", "MISMATCH"}
    /\ MaxAnswers \in Nat

VARIABLES
    order,         \* shop_orders: status, review flag, fulfilment, tracking source
    requests,      \* shop_order_customer_requests: cancellations
    corrections,   \* shop_order_customer_requests: address corrections
    refund,        \* refund_attempts: the one of each cancellation request
    payment,       \* the winning payment: status and refundedAmountCents
    putBack,       \* product_stock_adjustments: units of the order back in stock
    returns,       \* what the cancellation reads of the after-sales files
    calls,         \* requests whose refund is reserved and not yet asked for
    answers,       \* answers of the payment provider in the hands of a server
    deferred,      \* receipts kept for review until an answer proves the refund
    waiting,       \* webhooks that chose what to do and wait for the order's lock
    receipts,      \* notifications with a provider_events row
    shipment,      \* shop_shipping_provider_attempts: the only one of the order
    carrierCalls,  \* kinds of requests under way at the carrier
    gateway,       \* external: the refund behind each attempt
    asked,         \* external: times the provider was asked for each refund
    sent           \* external: notifications signed by the provider

rows == <<order, requests, corrections, refund, payment, putBack, returns>>
inFlight == <<calls, answers, deferred, waiting, receipts>>
carrier == <<shipment, carrierCalls>>
provider == <<gateway, asked, sent>>
vars == <<rows, inFlight, carrier, provider>>

-----------------------------------------------------------------------------
Fulfilments == {"PENDING", "PREPARING", "READY_TO_SHIP", "SHIPPED", "CANCELLED"}
RequestStatuses == {"NONE", "REQUESTED", "APPROVED", "REJECTED", "COMPLETED"}
ActiveRefund == {"PROCESSING", "PENDING", "REQUIRES_REVIEW"}
RefundStatuses == ActiveRefund \cup {"NONE", "SUCCEEDED", "FAILED"}

\* Review codes that later evidence may lift.  CONFLICT stands for all the others:
\* REFUND_STATUS_CONFLICT, SUCCEEDED_REFUND_NOT_FINALIZED and SHOP_CANCELLATION_*.
LiftedBySuccess == {"AMBIGUOUS", "ACCEPTED_LOCALLY_FAILED", "DEFERRED", "CORRELATION_REQUIRED"}
LiftedByFailure == LiftedBySuccess \cup {"REFUSED_LOCALLY_FAILED"}
Codes == LiftedByFailure \cup {"NONE", "EVIDENCE_MISMATCH", "CONFLICT", "FAILED"}

\* known: providerRefundId is stored.  confirmed: confirmedAt is stored.
\* bound: an audit event says the provider accepted, confirmed or failed this attempt.
RefundRows ==
    [status : RefundStatuses, code : Codes, known : BOOLEAN, confirmed : BOOLEAN, bound : BOOLEAN]

AbsentRefund ==
    [status |-> "NONE", code |-> "NONE", known |-> FALSE, confirmed |-> FALSE, bound |-> FALSE]

\* MATCH: carries the reference of this attempt.  MISSING: right refund, no reference.
\* MISMATCH: another amount, currency, payment or refund.
Evidence ==
    [request : Requests, status : {"PENDING", "SUCCEEDED", "FAILED"},
     match : {"MATCH", "MISSING", "MISMATCH"}]

\* A server also comes back with REFUSED (the provider rejects the request for
\* certain) or AMBIGUOUS (nothing is known).
Answers ==
    Evidence \cup [request : Requests, status : {"REFUSED", "AMBIGUOUS"}, match : {"MATCH"}]

ShipmentStatuses == {"NONE", "REQUESTED", "PENDING", "SUCCEEDED", "FAILED", "REQUIRES_REVIEW"}
CarrierResults == {"PENDING", "SUCCEEDED", "FAILED", "REQUIRES_REVIEW"}

TypeOK ==
    /\ order \in [status : {"OPEN", "CANCELLED"}, review : BOOLEAN,
                  fulfilment : Fulfilments, tracking : {"NONE", "MANUAL", "PROVIDER"}]
    /\ requests \in [Requests -> RequestStatuses]
    /\ corrections \in [Corrections -> RequestStatuses]
    /\ refund \in [Requests -> RefundRows]
    /\ payment \in [status : {"SUCCEEDED", "REFUND_PENDING", "PARTIALLY_REFUNDED", "REFUNDED"},
                    refunded : 0..Total]
    /\ putBack \in [Products -> Nat]
    /\ returns \in [disposition : BOOLEAN, active : BOOLEAN]
    /\ calls \subseteq Requests
    /\ answers \subseteq Answers
    /\ deferred \subseteq Evidence
    /\ waiting \subseteq [notice : Evidence, decision : {"MATCH", "DEFER", "REVIEW"}]
    /\ receipts \subseteq Evidence
    /\ shipment \in [status : ShipmentStatuses, known : BOOLEAN]
    /\ carrierCalls \subseteq {"CREATE", "RECONCILE"}
    /\ gateway \in [Requests -> {"NONE", "PENDING", "SUCCEEDED", "FAILED"}]
    /\ asked \in [Requests -> Nat]
    /\ sent \subseteq Evidence

Init ==
    /\ order = [status |-> "OPEN", review |-> FALSE, fulfilment |-> "PENDING", tracking |-> "NONE"]
    /\ requests = [r \in Requests |-> "NONE"]
    /\ corrections = [c \in Corrections |-> "NONE"]
    /\ refund = [r \in Requests |-> AbsentRefund]
    /\ payment = [status |-> "SUCCEEDED", refunded |-> 0]
    /\ putBack = [p \in Products |-> 0]
    /\ returns = [disposition |-> FALSE, active |-> FALSE]
    /\ calls = {} /\ answers = {} /\ deferred = {} /\ waiting = {} /\ receipts = {}
    /\ shipment = [status |-> "NONE", known |-> FALSE]
    /\ carrierCalls = {}
    /\ gateway = [r \in Requests |-> "NONE"]
    /\ asked = [r \in Requests |-> 0]
    /\ sent = {}

-----------------------------------------------------------------------------
\* Mutant of Barrier: a refund under review no longer holds the goods.
BarrierWithoutReview == \E r \in Requests : refund[r].status \in {"PROCESSING", "PENDING", "SUCCEEDED"}

\* findShopCancellationBarrier
Barrier == \E r \in Requests : refund[r].status \in ActiveRefund \cup {"SUCCEEDED"}

Paid == order.status = "OPEN" /\ ~order.review

\* findUnresolvedShopShippingIntent
ShippingIntent ==
    shipment.status \in {"REQUESTED", "PENDING", "SUCCEEDED", "REQUIRES_REVIEW"} \/ shipment.known

-----------------------------------------------------------------------------
(* Preparation and shipping. *)

\* markShopOrderPreparing, markShopOrderReadyToShip
Prepare ==
    /\ Paid /\ ~Barrier
    /\ \/ order.fulfilment = "PENDING" /\ order' = [order EXCEPT !.fulfilment = "PREPARING"]
       \/ order.fulfilment = "PREPARING" /\ order' = [order EXCEPT !.fulfilment = "READY_TO_SHIP"]
    /\ UNCHANGED <<requests, corrections, refund, payment, putBack, returns, inFlight, carrier, provider>>

\* A manual number replaces the one the carrier gave.
RecordTracking ==
    /\ Paid /\ ~Barrier
    /\ Shippable
    /\ order.fulfilment = "READY_TO_SHIP"
    /\ order' = [order EXCEPT !.tracking = "MANUAL"]
    /\ UNCHANGED <<requests, corrections, refund, payment, putBack, returns, inFlight, carrier, provider>>

MarkShipped ==
    /\ Paid /\ ~Barrier
    /\ order.fulfilment = "READY_TO_SHIP"
    /\ Shippable => order.tracking # "NONE"
    /\ order' = [order EXCEPT !.fulfilment = "SHIPPED"]
    /\ UNCHANGED <<requests, corrections, refund, payment, putBack, returns, inFlight, carrier, provider>>

\* createShopShippingProviderAttempt: one attempt per order, then the carrier is called.
RequestShipment ==
    /\ Paid /\ ~Barrier
    /\ Shippable
    /\ order.fulfilment = "READY_TO_SHIP"
    /\ shipment.status = "NONE"
    /\ shipment' = [shipment EXCEPT !.status = "REQUESTED"]
    /\ carrierCalls' = carrierCalls \cup {"CREATE"}
    /\ UNCHANGED <<rows, inFlight, provider>>

\* reconcileShopShippingProviderAttempt: an attempt that lost its server is asked for
\* again under the same key, a pending one is looked up.
ReconcileShipment ==
    /\ Paid /\ ~Barrier
    /\ order.fulfilment \in {"READY_TO_SHIP", "SHIPPED"}
    /\ shipment.status = "REQUESTED" \/ (shipment.status = "PENDING" /\ shipment.known)
    /\ carrierCalls' = carrierCalls \cup {"RECONCILE"}
    /\ UNCHANGED <<rows, inFlight, shipment, provider>>

\* What applyProviderResult stores of a result.
FinalStatus(result) ==
    IF Barrier \/ (result = "SUCCEEDED" /\ (order.fulfilment = "SHIPPED" \/ order.tracking = "MANUAL"))
    THEN "REQUIRES_REVIEW" ELSE result

\* applyProviderResult.  A success and a pending answer carry a shipment, a refusal
\* does not unless one was known before, an unclear answer may.
CarrierAnswers(kind, result, known) ==
    /\ kind \in carrierCalls
    /\ result \in {"SUCCEEDED", "PENDING"} => known
    /\ result = "FAILED" => known = shipment.known
    /\ carrierCalls' = carrierCalls \ {kind}
    /\ IF shipment.status = "REQUESTED" \/ (kind = "RECONCILE" /\ shipment.status = "PENDING")
       THEN /\ Barrier \/ (Paid /\ order.fulfilment \in {"READY_TO_SHIP", "SHIPPED"})
            /\ shipment' = [status |-> FinalStatus(result), known |-> known]
            /\ order' = IF FinalStatus(result) = "SUCCEEDED" /\ order.tracking = "NONE"
                        THEN [order EXCEPT !.tracking = "PROVIDER"] ELSE order
       ELSE UNCHANGED <<shipment, order>>
    /\ UNCHANGED <<requests, corrections, refund, payment, putBack, returns, inFlight, provider>>

\* The server that called the carrier dies, or its transaction is refused.
CarrierCallLost(kind) ==
    /\ kind \in carrierCalls
    /\ carrierCalls' = carrierCalls \ {kind}
    /\ UNCHANGED <<rows, inFlight, shipment, provider>>

-----------------------------------------------------------------------------
(* Requests of the member and their decisions. *)

CreateRequest(r) ==
    /\ Paid /\ ~Barrier
    /\ order.fulfilment # "SHIPPED"
    /\ requests[r] = "NONE"
    /\ \A q \in Requests : requests[q] \notin {"REQUESTED", "APPROVED"}
    /\ requests' = [requests EXCEPT ![r] = "REQUESTED"]
    /\ UNCHANGED <<order, corrections, refund, payment, putBack, returns, inFlight, carrier, provider>>

RejectRequest(r) ==
    /\ requests[r] = "REQUESTED"
    /\ requests' = [requests EXCEPT ![r] = "REJECTED"]
    /\ UNCHANGED <<order, corrections, refund, payment, putBack, returns, inFlight, carrier, provider>>

CreateCorrection(c) ==
    /\ Paid /\ ~Barrier
    /\ order.fulfilment # "SHIPPED"
    /\ Shippable
    /\ corrections[c] = "NONE"
    /\ \A d \in Corrections : corrections[d] \notin {"REQUESTED", "APPROVED"}
    /\ corrections' = [corrections EXCEPT ![c] = "REQUESTED"]
    /\ UNCHANGED <<order, requests, refund, payment, putBack, returns, inFlight, carrier, provider>>

RejectCorrection(c) ==
    /\ corrections[c] = "REQUESTED"
    /\ corrections' = [corrections EXCEPT ![c] = "REJECTED"]
    /\ UNCHANGED <<order, requests, refund, payment, putBack, returns, inFlight, carrier, provider>>

\* approveAddress
ApproveAddress(c) ==
    /\ Paid /\ ~Barrier
    /\ order.fulfilment # "SHIPPED"
    /\ corrections[c] = "REQUESTED"
    /\ corrections' = [corrections EXCEPT ![c] = "COMPLETED"]
    /\ UNCHANGED <<order, requests, refund, payment, putBack, returns, inFlight, carrier, provider>>

\* Mutant of Untouched: the files of the after-sales are not looked at.
UntouchedByCarrier ==
    /\ order.fulfilment # "SHIPPED"
    /\ order.tracking = "NONE"
    /\ ~ShippingIntent

\* Nothing says that the goods left, or that a file of the after-sales holds them.
Untouched ==
    /\ order.fulfilment # "SHIPPED"
    /\ order.tracking = "NONE"
    /\ ~ShippingIntent
    /\ ~returns.disposition

\* Mutant of ReserveRefund: an approved request may be decided again, and asks again.
ReserveRefundAgain(r) ==
    /\ requests[r] \in {"REQUESTED", "APPROVED"}
    /\ Paid
    /\ Untouched
    /\ payment.refunded = 0
    /\ ~returns.active
    /\ \A q \in Requests : refund[q].status \notin ActiveRefund
    /\ requests' = [requests EXCEPT ![r] = "APPROVED"]
    /\ refund' = [refund EXCEPT ![r].status = "PROCESSING"]
    /\ payment' = [payment EXCEPT !.status = "REFUND_PENDING"]
    /\ calls' = calls \cup {r}
    /\ UNCHANGED <<order, corrections, putBack, returns, answers, deferred, waiting, receipts, carrier, provider>>

\* reserveCancellationRefund, up to the call of the provider.  An attempt that exists
\* is answered with its status, and nobody calls the provider again.
ReserveRefund(r) ==
    /\ requests[r] = "REQUESTED"
    /\ Paid
    /\ Untouched
    /\ payment.refunded = 0
    /\ ~returns.active
    /\ \A q \in Requests : refund[q].status \notin ActiveRefund
    /\ requests' = [requests EXCEPT ![r] = "APPROVED"]
    /\ refund' = [refund EXCEPT ![r].status = "PROCESSING"]
    /\ payment' = [payment EXCEPT !.status = "REFUND_PENDING"]
    /\ calls' = calls \cup {r}
    /\ UNCHANGED <<order, corrections, putBack, returns, answers, deferred, waiting, receipts, carrier, provider>>

-----------------------------------------------------------------------------
(* The payment provider, and the server that waits for it. *)

Reads(r, status) == {[request |-> r, status |-> status, match |-> m] : m \in Correlations}
Unclear(r) == [request |-> r, status |-> "AMBIGUOUS", match |-> "MATCH"]
Refused(r) == [request |-> r, status |-> "REFUSED", match |-> "MATCH"]

\* The provider takes the refund; its answer may get lost on the way.
CallAccepted(r) ==
    /\ r \in calls
    /\ calls' = calls \ {r}
    /\ asked' = [asked EXCEPT ![r] = @ + 1]
    /\ \E status \in {"PENDING", "SUCCEEDED", "FAILED"} :
        /\ gateway' = [gateway EXCEPT ![r] = status]
        /\ \E n \in Reads(r, status) : sent' = sent \cup {n}
        /\ \E x \in Reads(r, status) \cup {Unclear(r)} : answers' = answers \cup {x}
    /\ UNCHANGED <<rows, deferred, waiting, receipts, carrier>>

\* The provider rejects the request (INVALID_REQUEST), or never sees it.
CallRejected(r) ==
    /\ r \in calls
    /\ calls' = calls \ {r}
    /\ asked' = [asked EXCEPT ![r] = @ + 1]
    /\ \E x \in {Refused(r), Unclear(r)} : answers' = answers \cup {x}
    /\ UNCHANGED <<rows, deferred, waiting, receipts, carrier, gateway, sent>>

\* The server dies before it calls, or with an answer it has not recorded.
ServerDies ==
    /\ \/ \E r \in calls : calls' = calls \ {r} /\ UNCHANGED answers
       \/ \E x \in answers : answers' = answers \ {x} /\ UNCHANGED calls
    /\ UNCHANGED <<rows, deferred, waiting, receipts, carrier, provider>>

ProviderSettles(r) ==
    /\ gateway[r] = "PENDING"
    /\ \E status \in {"SUCCEEDED", "FAILED"} :
        /\ gateway' = [gateway EXCEPT ![r] = status]
        /\ \E n \in Reads(r, status) : sent' = sent \cup {n}
    /\ UNCHANGED <<rows, inFlight, carrier, asked>>

\* reconcileShopCustomerRequestRefund, up to its answer
Retrieve(r) ==
    /\ Cardinality(answers) < MaxAnswers
    /\ refund[r].known
    /\ gateway[r] # "NONE"
    /\ \E x \in Reads(r, gateway[r]) \cup {Unclear(r)} : answers' = answers \cup {x}
    /\ UNCHANGED <<rows, calls, deferred, waiting, receipts, carrier, provider>>

-----------------------------------------------------------------------------
(* What evidence does to an attempt. *)

HoldPayment == payment' = [payment EXCEPT !.status = "REFUND_PENDING"]

\* requireReview: some codes outlive the next review.
DurableCode(a, code) ==
    IF \/ a.status = "REQUIRES_REVIEW" /\ a.code \notin LiftedByFailure \cup {"NONE"}
       \/ a.confirmed /\ a.code \in {"ACCEPTED_LOCALLY_FAILED", "DEFERRED"}
    THEN a.code ELSE code

\* requireReview on an attempt the shop has not settled.
Reviewed(a, code, e) ==
    [a EXCEPT !.status = "REQUIRES_REVIEW",
              !.code = DurableCode(a, code),
              !.known = @ \/ e.match # "MISMATCH",
              !.confirmed = @ \/ (e.match # "MISMATCH" /\ e.status = "SUCCEEDED")]

\* requireReview
Review(r, code, e) ==
    IF refund[r].status = "SUCCEEDED"
    THEN refund' = [refund EXCEPT ![r].code = code] /\ UNCHANGED payment
    ELSE refund' = [refund EXCEPT ![r] = Reviewed(@, code, e)] /\ HoldPayment

\* resolveDeferredShopRefundProviderEvents closes the receipts that agree with the evidence.
DeferredOf(r) == {n \in deferred : n.request = r}
Agrees(n, e) == n.status \in {"PENDING", e.status}
Resolved(r, e) == {n \in DeferredOf(r) : Agrees(n, e)}

\* Mutant of Contradicts: a stored confirmation does not stop an older answer.
ContradictsUnconfirmed(a, e) ==
    \/ a.status = "SUCCEEDED" /\ e.status = "FAILED"
    \/ a.status = "FAILED" /\ e.status # "FAILED"
    \/ a.status = "REQUIRES_REVIEW" /\ e.status = "FAILED" /\ a.code \notin LiftedByFailure
    \/ a.status = "REQUIRES_REVIEW" /\ e.status = "SUCCEEDED" /\ a.code \notin LiftedBySuccess

\* Evidence that may not change an attempt: the shop and the provider disagree.
Contradicts(a, e) ==
    \/ a.status = "SUCCEEDED" /\ e.status = "FAILED"
    \/ a.status # "SUCCEEDED" /\ a.confirmed /\ e.status # "SUCCEEDED"
    \/ a.status = "FAILED" /\ e.status # "FAILED"
    \/ a.status = "REQUIRES_REVIEW" /\ e.status = "FAILED" /\ a.code \notin LiftedByFailure
    \/ a.status = "REQUIRES_REVIEW" /\ e.status = "SUCCEEDED" /\ a.code \notin LiftedBySuccess

Conflict(r, e) ==
    \/ DeferredOf(r) # Resolved(r, e)
    \/ Contradicts(refund[r], e)
    \/ refund[r].status = "SUCCEEDED" /\ (requests[r] # "COMPLETED" \/ order.status # "CANCELLED")

\* The whole order may still be undone.
Cancellable(r) ==
    /\ Paid /\ Untouched
    /\ requests[r] = "APPROVED"
    /\ payment = [status |-> "REFUND_PENDING", refunded |-> 0]

\* A review that waits for something else than the correlation keeps its code.
KeepsReview(a) == a.status = "REQUIRES_REVIEW" /\ a.code \notin {"DEFERRED", "CORRELATION_REQUIRED"}

\* The provider has accepted the refund.
Accepted(a) ==
    IF KeepsReview(a) THEN [a EXCEPT !.known = TRUE]
    ELSE [a EXCEPT !.status = "PENDING", !.code = "NONE", !.known = TRUE, !.bound = TRUE]

Accept(r) ==
    /\ refund' = [refund EXCEPT ![r] = Accepted(@)]
    /\ IF KeepsReview(refund[r]) THEN UNCHANGED payment ELSE HoldPayment
    /\ UNCHANGED <<order, requests, putBack>>

\* The provider has not given the money back.
Fail(r) ==
    LET a == refund[r] IN
    /\ IF a.status = "FAILED" /\ a.known
       THEN UNCHANGED <<refund, payment>>
       ELSE /\ refund' = [refund EXCEPT ![r] =
                   [status |-> "FAILED", code |-> "FAILED", known |-> TRUE, confirmed |-> FALSE, bound |-> TRUE]]
            /\ payment' = [payment EXCEPT !.status = "SUCCEEDED"]
    /\ UNCHANGED <<order, requests, putBack>>

\* Mutant of Complete: the basket is not put back.
CompleteWithoutStock(r) ==
    /\ refund' = [refund EXCEPT ![r] =
           [status |-> "SUCCEEDED", code |-> "NONE", known |-> TRUE, confirmed |-> TRUE, bound |-> TRUE]]
    /\ payment' = [status |-> "REFUNDED", refunded |-> Total]
    /\ order' = [order EXCEPT !.status = "CANCELLED", !.fulfilment = "CANCELLED", !.tracking = "NONE"]
    /\ requests' = [requests EXCEPT ![r] = "COMPLETED"]
    /\ UNCHANGED putBack

\* The sale is undone: money, stock, order, credit note and request in one transaction.
Complete(r) ==
    /\ refund' = [refund EXCEPT ![r] =
           [status |-> "SUCCEEDED", code |-> "NONE", known |-> TRUE, confirmed |-> TRUE, bound |-> TRUE]]
    /\ payment' = [status |-> "REFUNDED", refunded |-> Total]
    /\ putBack' = [p \in Products |-> putBack[p] + Basket[p]]
    /\ order' = [order EXCEPT !.status = "CANCELLED", !.fulfilment = "CANCELLED", !.tracking = "NONE"]
    /\ requests' = [requests EXCEPT ![r] = "COMPLETED"]

\* applyShopCustomerCancellationEvidenceInTransaction
ApplyEvidence(r, e) ==
    IF e.match # "MATCH" THEN
        /\ Review(r, IF e.match = "MISSING" THEN "CORRELATION_REQUIRED" ELSE "EVIDENCE_MISMATCH", e)
        /\ UNCHANGED <<order, requests, putBack, deferred>>
    ELSE /\ deferred' = deferred \ Resolved(r, e)
         /\ \/ /\ Conflict(r, e)
               /\ Review(r, "CONFLICT", e)
               /\ UNCHANGED <<order, requests, putBack>>
            \/ /\ ~Conflict(r, e)
               /\ \/ refund[r].status = "SUCCEEDED" /\ UNCHANGED <<order, requests, refund, payment, putBack>>
                  \/ refund[r].status # "SUCCEEDED" /\ e.status = "PENDING" /\ Accept(r)
                  \/ e.status = "FAILED" /\ Fail(r)
                  \/ /\ refund[r].status # "SUCCEEDED" /\ e.status = "SUCCEEDED"
                     /\ IF Cancellable(r) THEN Complete(r)
                        ELSE Review(r, "CONFLICT", e) /\ UNCHANGED <<order, requests, putBack>>

\* persistShopRefundFinalizationReview agrees with what is stored.
Settled(a, e) ==
    e.match = "MATCH" /\ ((a.status = "SUCCEEDED" /\ a.known /\ e.status # "FAILED")
                          \/ (a.status = "FAILED" /\ e.status = "FAILED"))

\* persistShopRefundFinalizationReview
Persisted(a, e) ==
    IF Settled(a, e) THEN [a EXCEPT !.known = TRUE]
    ELSE [a EXCEPT !.status = IF @ = "SUCCEEDED" THEN @ ELSE "REQUIRES_REVIEW",
                   !.code = IF e.match = "MISMATCH" THEN "EVIDENCE_MISMATCH"
                            ELSE IF e.match = "MISSING" THEN "CORRELATION_REQUIRED"
                            ELSE IF a.status \in {"SUCCEEDED", "FAILED"} THEN "CONFLICT"
                            ELSE IF e.status = "FAILED" THEN "REFUSED_LOCALLY_FAILED"
                            ELSE "ACCEPTED_LOCALLY_FAILED",
                   !.known = @ \/ e.match # "MISMATCH",
                   !.confirmed = @ \/ (e.match # "MISMATCH" /\ e.status = "SUCCEEDED")]

\* After the transaction of the evidence was rolled back.
PersistReview(r, e) ==
    /\ refund' = [refund EXCEPT ![r] = Persisted(@, e)]
    /\ IF Settled(refund[r], e) THEN UNCHANGED payment ELSE HoldPayment
    /\ UNCHANGED <<order, requests, putBack, deferred>>

\* Evidence is applied, or its transaction fails and only what it says is kept.
TakeEvidence(r, e) == ApplyEvidence(r, e) \/ PersistReview(r, e)

\* Mutant of MarkAmbiguous: a call without an answer counts as refused.
MarkLostCallFailed(r) ==
    /\ IF refund[r].status # "PROCESSING"
       THEN UNCHANGED <<refund, payment>>
       ELSE /\ refund' = [refund EXCEPT ![r].status = "FAILED", ![r].code = "AMBIGUOUS"]
            /\ payment' = [payment EXCEPT !.status = "SUCCEEDED"]
    /\ UNCHANGED <<order, requests, putBack, deferred>>

\* markCancellationAmbiguous: the outcome of the call is unknown.
MarkAmbiguous(r) ==
    /\ IF refund[r].status \in {"SUCCEEDED", "FAILED"}
       THEN UNCHANGED <<refund, payment>>
       ELSE /\ refund' = [refund EXCEPT ![r].status = "REQUIRES_REVIEW", ![r].code = "AMBIGUOUS"]
            /\ HoldPayment
    /\ UNCHANGED <<order, requests, putBack, deferred>>

\* The status of a payment of which these cents are refunded.
SettledStatus(cents) ==
    IF cents = 0 THEN "SUCCEEDED"
    ELSE IF cents = Total THEN "REFUNDED" ELSE "PARTIALLY_REFUNDED"

\* markCancellationCertainlyFailed: the provider rejected the request.
MarkCertainlyFailed(r) ==
    LET a == refund[r] IN
    /\ IF a.status \in {"SUCCEEDED", "FAILED"} THEN UNCHANGED <<refund, payment>>
       ELSE IF a.status # "PROCESSING" \/ a.known \/ a.confirmed
       THEN /\ refund' = [refund EXCEPT ![r].status = "REQUIRES_REVIEW", ![r].code = "CONFLICT"]
            /\ HoldPayment
       ELSE /\ refund' = [refund EXCEPT ![r].status = "FAILED", ![r].code = "FAILED", ![r].bound = TRUE]
            /\ payment' = [payment EXCEPT !.status =
                   IF returns.active THEN "REFUND_PENDING" ELSE SettledStatus(payment.refunded)]
    /\ UNCHANGED <<order, requests, putBack, deferred>>

\* decideShopCustomerRequest and reconcileShopCustomerRequestRefund, after the call
RecordAnswer(x) ==
    /\ x \in answers
    /\ answers' = answers \ {x}
    /\ \/ x.status = "AMBIGUOUS" /\ MarkAmbiguous(x.request)
       \/ x.status = "REFUSED" /\ MarkCertainlyFailed(x.request)
       \/ x \in Evidence /\ TakeEvidence(x.request, x)
    /\ UNCHANGED <<corrections, returns, calls, waiting, receipts, carrier, provider>>

-----------------------------------------------------------------------------
(* Webhooks. *)

\* correlateExpectedShopRefund, when the attempt of the notification is a
Decision(a, n) ==
    IF n.match = "MATCH" \/ (n.match = "MISSING" /\ a.known /\ a.bound) THEN "MATCH"
    ELSE IF n.match = "MISSING" /\ a.status \in ActiveRefund THEN "DEFER"
    ELSE "REVIEW"

\* The attempt is chosen without the order's lock; the lock on the event keeps two
\* deliveries of one notification apart.
Correlate(n) ==
    /\ n \in sent \ receipts
    /\ \A w \in waiting : w.notice # n
    /\ waiting' = waiting \cup {[notice |-> n, decision |-> Decision(refund[n.request], n)]}
    /\ UNCHANGED <<rows, calls, answers, deferred, receipts, carrier, provider>>

\* The receipt closes what the webhook did in the same transaction.
Receive(w) ==
    /\ w \in waiting
    /\ waiting' = waiting \ {w}
    /\ receipts' = receipts \cup {w.notice}
    /\ UNCHANGED <<corrections, returns, calls, answers, carrier, provider>>

Authentic(n) == [n EXCEPT !.match = "MATCH"]

\* A correlated webhook; when the finaliser fails, its receipt is a transaction of its
\* own and may be missing.
RecordMatched(w) ==
    /\ w.decision = "MATCH"
    /\ \/ Receive(w) /\ TakeEvidence(w.notice.request, Authentic(w.notice))
       \/ /\ w \in waiting
          /\ PersistReview(w.notice.request, Authentic(w.notice))
          /\ waiting' = waiting \ {w}
          /\ UNCHANGED <<corrections, returns, calls, answers, receipts, carrier, provider>>

\* recordShopFinancialReview: the order waits for an administrator.
RecordReviewed(w) ==
    /\ w.decision = "REVIEW"
    /\ Receive(w)
    /\ order' = [order EXCEPT !.review = TRUE]
    /\ UNCHANGED <<requests, refund, payment, putBack, deferred>>

\* recordDeferredShopRefundEvidence on an attempt that became terminal meanwhile
Terminal == {"SUCCEEDED", "FAILED"}
Consistent(a, n) == a.known /\ (a.status = "FAILED" <=> n.status = "FAILED")
Contested(a, n) ==
    [a EXCEPT !.status = IF @ = "FAILED" THEN "REQUIRES_REVIEW" ELSE @,
              !.code = "CONFLICT",
              !.confirmed = @ \/ (a.status = "FAILED" /\ a.known /\ n.status = "SUCCEEDED")]

RecordLate(w) ==
    LET r == w.notice.request IN
    /\ w.decision = "DEFER"
    /\ refund[r].status \in Terminal
    /\ Receive(w)
    /\ IF Consistent(refund[r], w.notice) THEN UNCHANGED <<order, refund, payment>>
       ELSE /\ refund' = [refund EXCEPT ![r] = Contested(@, w.notice)]
            /\ HoldPayment
            /\ order' = [order EXCEPT !.review = TRUE]
    /\ UNCHANGED <<requests, putBack, deferred>>

\* Mutant of RecordDeferred: an unproven webhook is filed and the attempt goes on.
RecordDeferredQuietly(w) ==
    /\ w.decision = "DEFER"
    /\ refund[w.notice.request].status \in ActiveRefund
    /\ Receive(w)
    /\ deferred' = deferred \cup {w.notice}
    /\ UNCHANGED <<order, requests, refund, payment, putBack>>

\* recordDeferredShopRefundEvidence on an active attempt: applied when the provider's
\* acceptance is on file, kept for review otherwise.
TrustedBinding(a) == a.status = "PENDING" /\ a.code = "NONE" /\ a.known
Deferral(a) == [a EXCEPT !.status = "REQUIRES_REVIEW", !.code = IF @ = "NONE" THEN "DEFERRED" ELSE @]

RecordDeferred(w) ==
    LET r == w.notice.request IN
    /\ w.decision = "DEFER"
    /\ refund[r].status \in ActiveRefund
    /\ Receive(w)
    /\ IF TrustedBinding(refund[r])
       THEN TakeEvidence(r, Authentic(w.notice))
       ELSE /\ refund' = [refund EXCEPT ![r] = Deferral(@)]
            /\ HoldPayment
            /\ deferred' = deferred \cup {w.notice}
            /\ UNCHANGED <<order, requests, putBack>>

RecordWebhook(w) == RecordMatched(w) \/ RecordReviewed(w) \/ RecordLate(w) \/ RecordDeferred(w)

\* processIncident: a dispute or a reversal
RecordIncident ==
    /\ order' = [order EXCEPT !.review = TRUE]
    /\ UNCHANGED <<requests, corrections, refund, payment, putBack, returns, inFlight, carrier, provider>>

-----------------------------------------------------------------------------
(* The after-sales files of the order, as far as this module sees them.  They refund
   only what they reserved, restock only while nothing undoes the sale, and what they
   gave back stays visible as their disposition. *)
GaveBack == payment.refunded > 0 \/ \E p \in Products : putBack[p] > 0

ReturnsStep ==
    /\ returns' \in [disposition : BOOLEAN, active : BOOLEAN]
    /\ \E cents \in payment.refunded..Total :
        payment' \in [status : {payment.status, "REFUND_PENDING", SettledStatus(cents)}, refunded : {cents}]
    /\ putBack' \in [Products -> UNION {0..Basket[p] : p \in Products}]
    /\ \A p \in Products : putBack'[p] \in putBack[p]..Basket[p]
    /\ returns'.active => returns'.disposition
    /\ payment'.refunded # payment.refunded => order.status = "OPEN" /\ returns.active
    /\ putBack' # putBack => order.status = "OPEN" /\ ~Barrier
    /\ payment'.refunded # payment.refunded \/ putBack' # putBack => returns'.disposition
    /\ returns.disposition /\ order.status = "OPEN" /\ GaveBack => returns'.disposition
    /\ order' \in {order, [order EXCEPT !.review = TRUE]}
    /\ UNCHANGED <<requests, corrections, refund, inFlight, carrier, provider>>

-----------------------------------------------------------------------------
ShippingNext ==
    \/ Prepare \/ RecordTracking \/ MarkShipped \/ RequestShipment \/ ReconcileShipment
    \/ \E kind \in carrierCalls :
        \/ CarrierCallLost(kind)
        \/ \E result \in CarrierResults, known \in BOOLEAN : CarrierAnswers(kind, result, known)

RequestNext ==
    \/ \E r \in Requests : CreateRequest(r) \/ RejectRequest(r) \/ ReserveRefund(r)
    \/ \E c \in Corrections : CreateCorrection(c) \/ RejectCorrection(c) \/ ApproveAddress(c)

RefundNext ==
    \/ \E r \in Requests : CallAccepted(r) \/ CallRejected(r) \/ ProviderSettles(r) \/ Retrieve(r)
    \/ ServerDies
    \/ \E x \in answers : RecordAnswer(x)
    \/ \E n \in sent : Correlate(n)
    \/ \E w \in waiting : RecordWebhook(w)
    \/ RecordIncident

Next == ShippingNext \/ RequestNext \/ RefundNext \/ ReturnsStep

\* The provider delivers a notification until it is recorded.  Deliveries may fail any
\* number of times, but not for ever.
Webhooks ==
    \A n \in Evidence :
        /\ WF_vars(Correlate(n))
        /\ WF_vars(\E w \in waiting : w.notice = n /\ RecordWebhook(w))

Spec == Init /\ [][Next]_vars

FairSpec == Spec /\ Webhooks

-----------------------------------------------------------------------------
\* An order is cancelled exactly when its refund succeeded and its request is completed,
\* and then all the money and the whole basket came back: the finaliser never leaves
\* half of it, whatever was on its way when it ran
\* (applyShopCustomerCancellationEvidenceInTransaction).
CancellationWhole ==
    \A r \in Requests :
        /\ refund[r].status = "SUCCEEDED" <=> requests[r] = "COMPLETED"
        /\ refund[r].status = "SUCCEEDED" =>
            /\ order.status = "CANCELLED"
            /\ payment.refunded = Total /\ putBack = Basket

\* Money and goods never both leave: once the provider may give the money back, the
\* order has no tracking number and is not shipped (findShopCancellationBarrier,
\* findUnresolvedShopShippingIntent).
NeverShippedAndRefunded ==
    (\E r \in Requests : gateway[r] \in {"PENDING", "SUCCEEDED"}) =>
        order.fulfilment # "SHIPPED" /\ order.tracking = "NONE"

\* An attempt is FAILED, which frees the goods, only when the provider certainly did not
\* give the money back (order-coordination.ts, comment of findShopCancellationBarrier).
FailureProven ==
    \A r \in Requests : refund[r].status = "FAILED" => gateway[r] \in {"NONE", "FAILED"}

\* The provider is asked for at most one refund of the order, and only once, whoever
\* decides, retries or dies (reserveCancellationRefund).
AskedOnce ==
    \A r \in Requests :
        asked[r] <= 1 /\ (asked[r] = 1 => \A q \in Requests \ {r} : asked[q] = 0)

\* A confirmation of the provider that the shop stored is never lost nor contradicted by
\* a later answer or webhook.
ConfirmationKept ==
    [][\A r \in Requests : refund[r].confirmed =>
        refund'[r].confirmed /\ refund'[r].status \in {"REQUIRES_REVIEW", "SUCCEEDED"}]_vars

\* While a refund is contested the preparation stands still: a carrier's late answer
\* gives no tracking number and nobody ships.
GoodsStay ==
    [][Barrier =>
        /\ order'.fulfilment \in {order.fulfilment, "CANCELLED"}
        /\ order'.tracking \in {order.tracking, "NONE"}]_vars

\* The settlement of the order, without the way there.
Settlement ==
    INSTANCE ShopSettlement WITH
        goods <- IF order.status = "CANCELLED" THEN "BACK"
                 ELSE IF order.fulfilment = "SHIPPED" THEN "SENT" ELSE "HERE",
        refunded <- payment.refunded

\* This order settles as ShopSettlement promises: at once and whole, or file by file.
ImplementsSettlement == Settlement!SettlementSpec

\* Money the provider gave back is heard of: the order is cancelled, or an
\* administrator is asked to look.
RefundHeard ==
    \A r \in Requests :
        gateway[r] = "SUCCEEDED" ~>
            refund[r].status \in {"SUCCEEDED", "REQUIRES_REVIEW"} \/ order.review
=============================================================================

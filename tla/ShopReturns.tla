---------------------------- MODULE ShopReturns ----------------------------
(***************************************************************************)
(* The after-sales files of one Shop order                                  *)
(* (after-sales-service.ts, after-sales-domain.ts), composed with its       *)
(* cancellation: a member returns units of the basket, an administrator     *)
(* authorises, receives, inspects, refunds and restocks them, each in a     *)
(* transaction of its own.                                                  *)
(*                                                                          *)
(* A file owns one refund attempt.  Its evidence comes from the same        *)
(* provider calls and webhooks as that of a cancellation, and the row       *)
(* operators of ShopCancellation are used for it; what differs is the       *)
(* capacity of the payment, which several files share.  Only tracked        *)
(* products are modelled, and a file's refundStatus, which repeats the      *)
(* status of its attempt, is left out.                                      *)
(***************************************************************************)
EXTENDS ShopCancellation, FiniteSetsExt

CONSTANTS
    Files,     \* after-sales files, each opened at most once
    Price,     \* unit prices of the basket, in cents
    Shipping,  \* shipping fee of the order, in cents
    MaxUnits   \* bound: units of a product that one file asks for

ASSUME FilesAssumption ==
    /\ IsFiniteSet(Files)
    /\ Price \in [Products -> Nat \ {0}]
    /\ Shipping \in Nat
    /\ MaxUnits \in Nat \ {0}

VARIABLES
    files,        \* shop_return_requests with their items
    fileRefund,   \* refund_attempts: the one of each file
    fileCalls,    \* files whose refund is reserved and not yet asked for
    fileAnswers,  \* answers of the payment provider in the hands of a server
    fileDeferred, fileWaiting, fileReceipts,   \* webhooks, as in ShopCancellation
    fileGateway,  \* external: the refund behind each file
    fileSent      \* external: notifications about them

fileRows == <<files, fileRefund>>
fileFlight == <<fileCalls, fileAnswers, fileDeferred, fileWaiting, fileReceipts>>
fileProvider == <<fileGateway, fileSent>>
fileVars == <<fileRows, fileFlight, fileProvider>>

-----------------------------------------------------------------------------
FileStatuses ==
    {"NONE", "REQUESTED", "UNDER_REVIEW", "APPROVED", "REJECTED", "AWAITING_RETURN", "RETURN_RECEIVED",
     "INSPECTED", "REFUND_PENDING", "REFUNDED", "CLOSED", "CANCELLED"}

\* assertTransition
Transitions ==
    [NONE |-> {"REQUESTED"},
     REQUESTED |-> {"UNDER_REVIEW", "APPROVED", "AWAITING_RETURN", "REJECTED", "CANCELLED"},
     UNDER_REVIEW |-> {"APPROVED", "AWAITING_RETURN", "REJECTED"},
     APPROVED |-> {"REFUND_PENDING", "CLOSED"},
     REJECTED |-> {"CLOSED"},
     AWAITING_RETURN |-> {"RETURN_RECEIVED"},
     RETURN_RECEIVED |-> {"INSPECTED"},
     INSPECTED |-> {"REFUND_PENDING", "CLOSED"},
     REFUND_PENDING |-> {"REFUNDED"},
     REFUNDED |-> {"CLOSED"},
     CLOSED |-> {},
     CANCELLED |-> {}]

Quantities == {q \in [Products -> UNION {0..Basket[p] : p \in Products}] : \A p \in Products : q[p] <= Basket[p]}
UpTo(most) == {q \in Quantities : \A p \in Products : q[p] <= most[p]}
Zero == [p \in Products |-> 0]

FileRows ==
    [status : FileStatuses, requested : Quantities, authorized : Quantities, physical : BOOLEAN,
     received : Quantities, refundable : Quantities, restockable : Quantities, restocked : Quantities,
     amount : 0..Total]

AbsentFile ==
    [status |-> "NONE", requested |-> Zero, authorized |-> Zero, physical |-> FALSE, received |-> Zero,
     refundable |-> Zero, restockable |-> Zero, restocked |-> Zero, amount |-> 0]

FileEvidence ==
    [request : Files, status : {"PENDING", "SUCCEEDED", "FAILED"},
     match : {"MATCH", "MISSING", "MISMATCH"}]

FileAnswers ==
    FileEvidence \cup [request : Files, status : {"REFUSED", "AMBIGUOUS"}, match : {"MATCH"}]

FilesTypeOK ==
    /\ files \in [Files -> FileRows]
    /\ fileRefund \in [Files -> RefundRows]
    /\ fileCalls \subseteq Files
    /\ fileAnswers \subseteq FileAnswers
    /\ fileDeferred \subseteq FileEvidence
    /\ fileWaiting \subseteq [notice : FileEvidence, decision : {"MATCH", "DEFER", "REVIEW"}]
    /\ fileReceipts \subseteq FileEvidence
    /\ fileGateway \in [Files -> {"NONE", "PENDING", "SUCCEEDED", "FAILED"}]
    /\ fileSent \subseteq FileEvidence

FilesInit ==
    /\ files = [f \in Files |-> AbsentFile]
    /\ fileRefund = [f \in Files |-> AbsentRefund]
    /\ fileCalls = {} /\ fileAnswers = {} /\ fileDeferred = {} /\ fileWaiting = {} /\ fileReceipts = {}
    /\ fileGateway = [f \in Files |-> "NONE"]
    /\ fileSent = {}

-----------------------------------------------------------------------------
(* What the two components see of each other, and of the money. *)

\* Mutant of HoldsGoods: only the goods count, not the money given back for them.
HoldsGoodsUnpaid(f, attempt) ==
    \/ f.restocked # Zero
    \/ f.status \in {"INSPECTED", "REFUND_PENDING", "REFUNDED"} /\ f.restockable # Zero

\* findShopReturnDispositionBarrier
HoldsGoods(f, attempt) ==
    \/ f.restocked # Zero
    \/ f.status \in {"INSPECTED", "REFUND_PENDING", "REFUNDED"} /\ f.restockable # Zero
    \/ attempt.status \in ActiveRefund \cup {"SUCCEEDED"}

\* The after-sales files, as a cancellation reads them.
Seen(rows_, attempts) ==
    [disposition |-> \E f \in Files : HoldsGoods(rows_[f], attempts[f]),
     active |-> \E f \in Files : attempts[f].status \in ActiveRefund]

\* The sum of what each of these files has, none of them more than "most": its units
\* counted one by one.
SumOf(fs, number, most) == Cardinality({u \in fs \X (1..most) : u[2] <= number[u[1]]})

\* Cents of these files.
AmountOf(fs) == SumOf(fs, [f \in Files |-> files[f].amount], Total)

\* Cents of the files whose attempts have one of these statuses.
CentsOf(attempts, statuses) == AmountOf({f \in Files : attempts[f].status \in statuses})

\* Confirmed cents of the payment, its cancellation included.
Confirmed(attempts) ==
    CentsOf(attempts, {"SUCCEEDED"})
    + (IF \E r \in Requests : refund[r].status = "SUCCEEDED" THEN Total ELSE 0)

Unresolved(attempts) ==
    \/ \E r \in Requests : refund[r].status \in ActiveRefund
    \/ \E f \in Files : attempts[f].status \in ActiveRefund

\* Status and refunded amount of the payment, recomputed from its attempts.
Recomputed(attempts) ==
    [status |-> IF Unresolved(attempts) THEN "REFUND_PENDING" ELSE SettledStatus(Confirmed(attempts)),
     refunded |-> Confirmed(attempts)]

Used(p) ==
    SumOf({f \in Files : files[f].status \notin {"NONE", "REJECTED", "CANCELLED"}},
        [f \in Files |-> files[f].requested[p]], Basket[p])

\* The rows of the order and of its cancellation that a file changes only through the
\* payment, the stock and what is seen of it.
OfOrder == <<requests, corrections, refund, inFlight, carrier, provider>>

\* A file moves on; its attempt and the money stay.
Put(f, row) ==
    /\ files' = [files EXCEPT ![f] = row]
    /\ returns' = Seen(files', fileRefund)
    /\ UNCHANGED <<order, OfOrder, payment, fileRefund, fileFlight, fileProvider>>

May(f, to) == to \in Transitions[files[f].status]

-----------------------------------------------------------------------------
(* The file, from its request to its inspection. *)

\* createMemberShopReturn
CreateFile(f, q) ==
    /\ Paid /\ ~Barrier
    /\ files[f].status = "NONE"
    /\ q # Zero
    /\ \A p \in Products : q[p] <= MaxUnits
    /\ \A p \in Products : q[p] > 0 => Used(p) + q[p] <= Basket[p]
    /\ Put(f, [files[f] EXCEPT !.status = "REQUESTED", !.requested = q])
    /\ UNCHANGED putBack

\* cancelMemberShopReturn, startShopReturnReview, closeShopReturn and the rejection of
\* decideShopReturn take the lock of the file only.
MoveFile(f, to) ==
    /\ to \in {"CANCELLED", "UNDER_REVIEW", "REJECTED", "CLOSED"}
    /\ May(f, to)
    /\ Put(f, [files[f] EXCEPT !.status = to])
    /\ UNCHANGED putBack

\* decideShopReturn: goods that need not come back are refundable at once.
ApproveFile(f, q, physical) ==
    /\ May(f, IF physical THEN "AWAITING_RETURN" ELSE "APPROVED")
    /\ q # Zero
    /\ Put(f, [files[f] EXCEPT !.status = IF physical THEN "AWAITING_RETURN" ELSE "APPROVED",
                               !.authorized = q, !.physical = physical,
                               !.refundable = IF physical THEN Zero ELSE q])
    /\ UNCHANGED putBack

\* markShopReturnReceived
ReceiveFile(f, q) ==
    /\ May(f, "RETURN_RECEIVED")
    /\ q # Zero
    /\ Put(f, [files[f] EXCEPT !.status = "RETURN_RECEIVED", !.received = q])
    /\ UNCHANGED putBack

\* inspectShopReturn
InspectFile(f, refundable, restockable) ==
    /\ ~Barrier
    /\ May(f, "INSPECTED")
    /\ Put(f, [files[f] EXCEPT !.status = "INSPECTED", !.refundable = refundable, !.restockable = restockable])
    /\ UNCHANGED putBack

\* Mutant of Restock: units are put back as often as an administrator asks.
RestockTwice(f) ==
    /\ files[f].status \in {"INSPECTED", "REFUND_PENDING", "REFUNDED"}
    /\ files[f].restockable # Zero
    /\ order.status # "CANCELLED" /\ ~Barrier
    /\ Put(f, [files[f] EXCEPT !.restocked = [p \in Products |-> @[p] + files[f].restockable[p]]])
    /\ putBack' = [p \in Products |-> putBack[p] + files[f].restockable[p]]

\* restockShopReturn: once for each file and product.
Restock(f) ==
    /\ files[f].status \in {"INSPECTED", "REFUND_PENDING", "REFUNDED"}
    /\ files[f].restocked # files[f].restockable
    /\ order.status # "CANCELLED" /\ ~Barrier
    /\ Put(f, [files[f] EXCEPT !.restocked = files[f].restockable])
    /\ putBack' = [p \in Products |-> putBack[p] + files[f].restockable[p] - files[f].restocked[p]]

-----------------------------------------------------------------------------
(* Its refund. *)

\* calculateShopReturnRefund; the shipping fee only for the single unit of an order.
Cents(quantities) == MapThenSumSet(LAMBDA p : Price[p] * quantities[p], Products)
Amounts(f) ==
    {Cents(files[f].refundable)}
    \cup (IF MapThenSumSet(LAMBDA p : Basket[p], Products) = 1
          THEN {Cents(files[f].refundable) + Shipping} ELSE {})

Available == Total - payment.refunded - CentsOf(fileRefund, ActiveRefund)

\* reserveShopRefund.  Nobody calls the provider again for an attempt that exists.
ReserveFileRefund(f, cents) ==
    /\ Paid /\ ~Barrier
    /\ fileRefund[f].status = "NONE"
    /\ files[f].status \in {"APPROVED", "INSPECTED"}
    /\ files[f].physical => files[f].status = "INSPECTED"
    /\ cents \in Amounts(f)
    /\ cents \in 1..Available
    /\ files' = [files EXCEPT ![f].status = "REFUND_PENDING", ![f].amount = cents]
    /\ fileRefund' = [fileRefund EXCEPT ![f].status = "PROCESSING"]
    /\ returns' = Seen(files', fileRefund')
    /\ payment' = [payment EXCEPT !.status = "REFUND_PENDING"]
    /\ fileCalls' = fileCalls \cup {f}
    /\ UNCHANGED <<order, OfOrder, putBack, fileAnswers, fileDeferred, fileWaiting, fileReceipts, fileProvider>>

AskFileRefund(f) ==
    /\ f \in fileCalls
    /\ fileCalls' = fileCalls \ {f}
    /\ \/ \E status \in {"PENDING", "SUCCEEDED", "FAILED"} :
            /\ fileGateway' = [fileGateway EXCEPT ![f] = status]
            /\ \E n \in Reads(f, status) : fileSent' = fileSent \cup {n}
            /\ \E x \in Reads(f, status) \cup {Unclear(f)} : fileAnswers' = fileAnswers \cup {x}
       \/ /\ \E x \in {Refused(f), Unclear(f)} : fileAnswers' = fileAnswers \cup {x}
          /\ UNCHANGED <<fileGateway, fileSent>>
    /\ UNCHANGED <<rows, inFlight, carrier, provider, fileRows, fileDeferred, fileWaiting, fileReceipts>>

FileServerDies ==
    /\ \/ \E f \in fileCalls : fileCalls' = fileCalls \ {f} /\ UNCHANGED fileAnswers
       \/ \E x \in fileAnswers : fileAnswers' = fileAnswers \ {x} /\ UNCHANGED fileCalls
    /\ UNCHANGED <<rows, inFlight, carrier, provider, fileRows, fileDeferred, fileWaiting, fileReceipts, fileProvider>>

ProviderSettlesFile(f) ==
    /\ fileGateway[f] = "PENDING"
    /\ \E status \in {"SUCCEEDED", "FAILED"} :
        /\ fileGateway' = [fileGateway EXCEPT ![f] = status]
        /\ \E n \in Reads(f, status) : fileSent' = fileSent \cup {n}
    /\ UNCHANGED <<rows, inFlight, carrier, provider, fileRows, fileFlight>>

\* reconcileShopReturnRefund of a known refund, up to its answer
RetrieveFileRefund(f) ==
    /\ Cardinality(fileAnswers) < MaxAnswers
    /\ fileRefund[f].known
    /\ fileGateway[f] # "NONE"
    /\ \E x \in Reads(f, fileGateway[f]) \cup {Unclear(f)} : fileAnswers' = fileAnswers \cup {x}
    /\ UNCHANGED <<rows, inFlight, carrier, provider, fileRows, fileCalls, fileDeferred, fileWaiting,
                   fileReceipts, fileProvider>>

-----------------------------------------------------------------------------
(* What evidence does to the attempt of a file. *)

SetAttempt(f, row) ==
    /\ fileRefund' = [fileRefund EXCEPT ![f] = row]
    /\ returns' = Seen(files, fileRefund')
    /\ UNCHANGED files

Nothing == UNCHANGED <<files, fileRefund, returns, payment>>

\* requireReview of applyShopReturnRefundEvidenceInTransaction
FileReview(f, code, e) ==
    IF fileRefund[f].status = "SUCCEEDED" THEN Nothing
    ELSE SetAttempt(f, Reviewed(fileRefund[f], code, e)) /\ HoldPayment

FileDeferredOf(f) == {n \in fileDeferred : n.request = f}
FileResolved(f, e) == {n \in FileDeferredOf(f) : Agrees(n, e)}

\* Mutant of CompleteFile: what other files were refunded is forgotten.
CompleteFileAlone(f) ==
    /\ fileRefund' = [fileRefund EXCEPT ![f] =
           [status |-> "SUCCEEDED", code |-> "NONE", known |-> TRUE, confirmed |-> TRUE, bound |-> TRUE]]
    /\ files' = [files EXCEPT ![f].status = "REFUNDED"]
    /\ returns' = Seen(files', fileRefund')
    /\ payment' = [status |-> SettledStatus(files[f].amount), refunded |-> files[f].amount]

\* The provider has given the money of the file back, and the payment can bear it.
CompleteFile(f) ==
    /\ fileRefund' = [fileRefund EXCEPT ![f] =
           [status |-> "SUCCEEDED", code |-> "NONE", known |-> TRUE, confirmed |-> TRUE, bound |-> TRUE]]
    /\ files' = [files EXCEPT ![f].status = "REFUNDED"]
    /\ returns' = Seen(files', fileRefund')
    /\ payment' = Recomputed(fileRefund')

FailFile(f) ==
    IF fileRefund[f].status = "FAILED" THEN Nothing
    ELSE /\ SetAttempt(f, [status |-> "FAILED", code |-> "FAILED", known |-> TRUE, confirmed |-> FALSE, bound |-> TRUE])
         /\ payment' = Recomputed(fileRefund')

AcceptFile(f) ==
    /\ SetAttempt(f, Accepted(fileRefund[f]))
    /\ IF KeepsReview(fileRefund[f]) THEN UNCHANGED payment ELSE HoldPayment

\* applyShopReturnRefundEvidenceInTransaction
ApplyFileEvidence(f, e) ==
    LET a == fileRefund[f] IN
    IF e.match # "MATCH" THEN
        /\ FileReview(f, IF e.match = "MISSING" THEN "CORRELATION_REQUIRED" ELSE "EVIDENCE_MISMATCH", e)
        /\ UNCHANGED fileDeferred
    ELSE IF order.review \/ files[f].status \notin {"REFUND_PENDING", "REFUNDED", "CLOSED"} THEN
        FileReview(f, "CONFLICT", e) /\ UNCHANGED fileDeferred
    ELSE
        /\ fileDeferred' = fileDeferred \ FileResolved(f, e)
        /\ IF FileDeferredOf(f) # FileResolved(f, e) \/ Contradicts(a, e) THEN FileReview(f, "CONFLICT", e)
           ELSE \/ a.status = "SUCCEEDED" /\ Nothing
                \/ a.status # "SUCCEEDED" /\ e.status = "PENDING" /\ AcceptFile(f)
                \/ a.status # "SUCCEEDED" /\ e.status = "FAILED" /\ FailFile(f)
                \/ /\ a.status # "SUCCEEDED" /\ e.status = "SUCCEEDED"
                   /\ IF Confirmed(fileRefund) + files[f].amount <= Total
                      THEN CompleteFile(f) ELSE FileReview(f, "CONFLICT", e)

PersistFileReview(f, e) ==
    /\ SetAttempt(f, Persisted(fileRefund[f], e))
    /\ IF Settled(fileRefund[f], e) THEN UNCHANGED payment ELSE HoldPayment
    /\ UNCHANGED fileDeferred

TakeFileEvidence(f, e) == ApplyFileEvidence(f, e) \/ PersistFileReview(f, e)

\* Mutant of MarkFileAmbiguous: a call without an answer counts as refused.
MarkFileLost(f) ==
    /\ IF fileRefund[f].status # "PROCESSING" THEN Nothing
       ELSE /\ SetAttempt(f, [fileRefund[f] EXCEPT !.status = "FAILED", !.code = "AMBIGUOUS"])
            /\ payment' = Recomputed(fileRefund')
    /\ UNCHANGED fileDeferred

\* markAmbiguousRefund: a review keeps its code.
MarkFileAmbiguous(f) ==
    /\ IF fileRefund[f].status \in Terminal THEN Nothing
       ELSE /\ SetAttempt(f, IF fileRefund[f].status = "REQUIRES_REVIEW" THEN fileRefund[f]
                             ELSE [fileRefund[f] EXCEPT !.status = "REQUIRES_REVIEW", !.code = "AMBIGUOUS"])
            /\ HoldPayment
    /\ UNCHANGED fileDeferred

\* markFailedRefund
MarkFileFailed(f) ==
    LET a == fileRefund[f] IN
    /\ IF a.status \in Terminal THEN Nothing
       ELSE IF a.status # "PROCESSING" \/ a.known \/ a.confirmed
       THEN /\ SetAttempt(f, [a EXCEPT !.status = "REQUIRES_REVIEW", !.code = IF @ = "NONE" THEN "CONFLICT" ELSE @])
            /\ HoldPayment
       ELSE /\ SetAttempt(f, [a EXCEPT !.status = "FAILED", !.code = "FAILED", !.bound = TRUE])
            /\ payment' = Recomputed(fileRefund')
    /\ UNCHANGED fileDeferred

OfFileRecord == <<OfOrder, putBack, fileCalls, fileProvider>>

\* requestShopReturnRefund and reconcileShopReturnRefund, after the call
RecordFileAnswer(x) ==
    /\ x \in fileAnswers
    /\ fileAnswers' = fileAnswers \ {x}
    /\ \/ x.status = "AMBIGUOUS" /\ MarkFileAmbiguous(x.request)
       \/ x.status = "REFUSED" /\ MarkFileFailed(x.request)
       \/ x \in FileEvidence /\ TakeFileEvidence(x.request, x)
    /\ UNCHANGED <<order, OfFileRecord, fileWaiting, fileReceipts>>

\* reconcileShopReturnRefund without a known refund gives up on the call under way.
ReconcileUnknown(f) ==
    /\ fileRefund[f].status # "NONE" /\ ~fileRefund[f].known
    /\ MarkFileAmbiguous(f)
    /\ UNCHANGED <<order, OfFileRecord, fileAnswers, fileWaiting, fileReceipts>>

-----------------------------------------------------------------------------
(* Its webhooks. *)

\* Another active attempt of the payment that an unreferenced refund could belong to
Rival(f) ==
    \/ \E g \in Files \ {f} :
        fileRefund[g].status \in ActiveRefund /\ ~fileRefund[g].known /\ files[g].amount = files[f].amount
    \/ files[f].amount = Total
       /\ \E r \in Requests : refund[r].status \in ActiveRefund /\ ~refund[r].known

FileDecision(f, n) ==
    IF Decision(fileRefund[f], n) = "DEFER" /\ ~fileRefund[f].known /\ Rival(f)
    THEN "REVIEW" ELSE Decision(fileRefund[f], n)

\* The attempt is chosen without the order's lock.
CorrelateFile(n) ==
    /\ n \in fileSent \ fileReceipts
    /\ \A w \in fileWaiting : w.notice # n
    /\ fileWaiting' = fileWaiting \cup {[notice |-> n, decision |-> FileDecision(n.request, n)]}
    /\ UNCHANGED <<rows, inFlight, carrier, provider, fileRows, fileCalls, fileAnswers, fileDeferred,
                   fileReceipts, fileProvider>>

\* The receipt closes what the webhook did in the same transaction.
ReceiveFileNotice(w) ==
    /\ w \in fileWaiting
    /\ fileWaiting' = fileWaiting \ {w}
    /\ fileReceipts' = fileReceipts \cup {w.notice}
    /\ UNCHANGED <<OfFileRecord, fileAnswers>>

HoldOrder == order' = [order EXCEPT !.review = TRUE]

\* A correlated webhook; the receipt of a failed finaliser may be missing.
RecordFileMatched(w) ==
    /\ w.decision = "MATCH"
    /\ UNCHANGED order
    /\ \/ ReceiveFileNotice(w) /\ TakeFileEvidence(w.notice.request, Authentic(w.notice))
       \/ /\ w \in fileWaiting
          /\ PersistFileReview(w.notice.request, Authentic(w.notice))
          /\ fileWaiting' = fileWaiting \ {w}
          /\ UNCHANGED <<OfFileRecord, fileAnswers, fileReceipts>>

\* recordShopFinancialReview
RecordFileReviewed(w) ==
    /\ w.decision = "REVIEW"
    /\ ReceiveFileNotice(w)
    /\ HoldOrder
    /\ Nothing /\ UNCHANGED fileDeferred

\* Mutant of RecordFileDeferred: an unproven webhook is filed and the attempt goes on.
RecordFileDeferredQuietly(w) ==
    /\ w.decision = "DEFER"
    /\ ReceiveFileNotice(w)
    /\ Nothing /\ UNCHANGED order
    /\ fileDeferred' = fileDeferred \cup {w.notice}

\* recordDeferredShopRefundEvidence, for the attempt of a file
RecordFileDeferred(w) ==
    LET f == w.notice.request
        a == fileRefund[f] IN
    /\ w.decision = "DEFER"
    /\ ReceiveFileNotice(w)
    /\ \/ /\ a.status \in Terminal
          /\ UNCHANGED fileDeferred
          /\ IF Consistent(a, w.notice) THEN Nothing /\ UNCHANGED order
             ELSE SetAttempt(f, Contested(a, w.notice)) /\ HoldPayment /\ HoldOrder
       \/ a.status \in ActiveRefund /\ Rival(f) /\ HoldOrder /\ Nothing /\ UNCHANGED fileDeferred
       \/ /\ a.status \in ActiveRefund /\ ~Rival(f) /\ TrustedBinding(a)
          /\ UNCHANGED order
          /\ TakeFileEvidence(f, Authentic(w.notice))
       \/ /\ a.status \in ActiveRefund /\ ~Rival(f) /\ ~TrustedBinding(a)
          /\ UNCHANGED order
          /\ SetAttempt(f, Deferral(a)) /\ HoldPayment
          /\ fileDeferred' = fileDeferred \cup {w.notice}

RecordFileWebhook(w) == RecordFileMatched(w) \/ RecordFileReviewed(w) \/ RecordFileDeferred(w)

-----------------------------------------------------------------------------
FileNext ==
    \/ \E f \in Files :
        \/ \E q \in Quantities : CreateFile(f, q)
        \/ \E to \in FileStatuses : MoveFile(f, to)
        \/ \E q \in UpTo(files[f].requested), physical \in BOOLEAN : ApproveFile(f, q, physical)
        \/ \E q \in UpTo(files[f].authorized) : ReceiveFile(f, q)
        \/ \E q, s \in UpTo(files[f].received) : InspectFile(f, q, s)
        \/ Restock(f)
        \/ \E cents \in 1..Total : ReserveFileRefund(f, cents)
        \/ AskFileRefund(f) \/ ProviderSettlesFile(f) \/ RetrieveFileRefund(f) \/ ReconcileUnknown(f)
    \/ FileServerDies
    \/ \E x \in fileAnswers : RecordFileAnswer(x)
    \/ \E n \in fileSent : CorrelateFile(n)
    \/ \E w \in fileWaiting : RecordFileWebhook(w)

OrderNext == (ShippingNext \/ RequestNext \/ RefundNext) /\ UNCHANGED fileVars

AfterSalesNext == OrderNext \/ FileNext

AfterSalesSpec == (Init /\ FilesInit) /\ [][AfterSalesNext]_<<vars, fileVars>>

\* The provider delivers a notification until it is recorded.
FileWebhooks ==
    \A n \in FileEvidence :
        /\ WF_<<vars, fileVars>>(CorrelateFile(n))
        /\ WF_<<vars, fileVars>>(\E w \in fileWaiting : w.notice = n /\ RecordFileWebhook(w))

-----------------------------------------------------------------------------
\* The provider never gives back more than the order cost, cancellation and files
\* together, whatever each of them believes of its own refund (reserveShopRefund,
\* reserveCancellationRefund).
MoneyBounded ==
    AmountOf({f \in Files : fileGateway[f] \in {"PENDING", "SUCCEEDED"}})
    + (IF \E r \in Requests : gateway[r] \in {"PENDING", "SUCCEEDED"} THEN Total ELSE 0) <= Total

\* Every unit that came back is accounted for: restocked by a file or by the
\* cancellation, never by both, and no more than were sold (restockShopReturn).
UnitsAccounted ==
    \A p \in Products :
        /\ putBack[p] <= Basket[p]
        /\ putBack[p] = SumOf(Files, [f \in Files |-> files[f].restocked[p]], Basket[p])
                        + (IF order.status = "CANCELLED" THEN Basket[p] ELSE 0)

\* The refunded amount of the payment is what its attempts confirm, in whatever order
\* files and cancellation were settled.
RefundedAccounted == payment.refunded = Confirmed(fileRefund)

\* Money the provider gave back for a file is heard of: the file is refunded, or an
\* administrator is asked to look (recordDeferredShopRefundEvidence).
FileRefundHeard ==
    \A f \in Files :
        fileGateway[f] = "SUCCEEDED" ~>
            fileRefund[f].status \in {"SUCCEEDED", "REQUIRES_REVIEW"} \/ order.review

\* The files do to the order only what its cancellation expects of them, so what
\* ShopCancellation shows holds beside them.
KeepsCancellation == Spec
=============================================================================

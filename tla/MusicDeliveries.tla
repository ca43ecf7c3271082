-------------------------- MODULE MusicDeliveries --------------------------
(***************************************************************************)
(* Deliverables of a paid music order: the direct multipart upload of         *)
(* src/lib/orders/delivery-direct-service.ts with its media worker,           *)
(* delivery-direct-worker.ts, the older single-request upload and the removal *)
(* of delivery.ts, and the publication of admin/service.ts.                   *)
(*                                                                            *)
(* Every transaction under the lock of the order is one action, and so is     *)
(* every other statement; the calls to the object storage lie between them.   *)
(* The transaction that attaches a file is two actions, its check and its     *)
(* commit, since statements that do not take the lock fall between them.      *)
(* An upload session, its storage key and its asset share one identifier.     *)
(***************************************************************************)
EXTENDS Naturals, FiniteSets

CONSTANTS
    Sessions,       \* direct upload sessions
    Uploads,        \* requests of the single-request upload
    Workers,        \* media worker processes, which overlap during a deployment
    MaxDeliveries,  \* MAXIMUM_ORDER_DELIVERIES
    NoWorker

ASSUME DeliveriesAssumption ==
    /\ Sessions \cap Uploads = {} /\ Sessions \cap Workers = {} /\ Uploads \cap Workers = {}
    /\ MaxDeliveries \in Nat
    /\ NoWorker \notin Workers

VARIABLES
    order,       \* orders: does it take deliverables, is it published?
    deliveries,  \* order_assets of role DELIVERY
    sessions,    \* order_delivery_upload_sessions
    jobs,        \* what a worker, or the request of a session or of an upload, is doing
    removing,    \* keys whose deliverable was detached and whose object is to be deleted
    multipart,   \* external: the multipart upload of a session
    objects,     \* external: the keys under which a file is stored
    overtaken    \* history: sessions claimed again while one worker was attaching them

vars == <<order, deliveries, sessions, jobs, removing, multipart, objects, overtaken>>
storage == <<multipart, objects>>

-----------------------------------------------------------------------------
\* MAKING: paid and in production.  HELD: a refund is under way.
OrderStates == {"MAKING", "HELD", "DELIVERED", "CLOSED"}

Expirable == {"PREPARING", "UPLOADING"}
Terminal == {"ABORTED", "EXPIRED", "REJECTED"}
Statuses == {"NONE", "COMPLETING", "QUARANTINE", "VALIDATING", "READY"} \cup Expirable \cup Terminal

\* upload: providerUploadId is stored.  overdue: expiresAt has passed.  lease: leaseExpiresAt
\* lies ahead.  tries: attempts, of which the code asks only whether there were two.
\* cleaned: lastErrorCode is CLEANED.
SessionRows ==
    [status : Statuses, upload : BOOLEAN, overdue : BOOLEAN, lease : BOOLEAN,
     token : Workers \cup {NoWorker}, tries : 0..2, cleaned : BOOLEAN]
NoRow ==
    [status |-> "NONE", upload |-> FALSE, overdue |-> FALSE, lease |-> FALSE,
     token |-> NoWorker, tries |-> 0, cleaned |-> FALSE]

Processes == Sessions \cup Uploads \cup Workers
Keys == Sessions \cup Uploads

\* The row that a job read when it began: its key and its attempts.
Steps ==
    {"IDLE", "CREATE", "STORE", "UNDO", "REFUSE", "HEAD", "COMPLETE", "MARK", "VALIDATE",
     "ATTACH", "ABORT", "DELETE", "CLEAN", "WRITE", "PERSIST", "COMPENSATE"}
Jobs == [step : Steps, key : Keys, tries : 0..2]

DeliveriesTypeOK ==
    /\ order \in OrderStates
    /\ deliveries \subseteq Keys
    /\ sessions \in [Sessions -> SessionRows]
    /\ jobs \in [Processes -> [step : {"IDLE"}] \cup Jobs]
    /\ removing \subseteq Keys
    /\ multipart \in [Sessions -> {"NONE", "OPEN", "FULL", "GONE"}]
    /\ objects \subseteq Keys
    /\ overtaken \subseteq Sessions

Init ==
    /\ order = "MAKING"
    /\ deliveries = {}
    /\ sessions = [s \in Sessions |-> NoRow]
    /\ jobs = [p \in Processes |-> [step |-> "IDLE"]]
    /\ removing = {}
    /\ multipart = [s \in Sessions |-> "NONE"]
    /\ objects = {}
    /\ overtaken = {}

\* paidOrderForDelivery
Accepts == order = "MAKING"
HasRoom == Cardinality(deliveries) < MaxDeliveries

At(p, step) == jobs[p].step = step

\* withDeliveryOrderLock: no worker is between its check and its commit.
OrderFree == \A w \in Workers : ~At(w, "ATTACH")

Job(p, step, key, tries) == jobs' = [jobs EXCEPT ![p] = [step |-> step, key |-> key, tries |-> tries]]
Continue(p, step) == jobs' = [jobs EXCEPT ![p].step = step]
Stop(p) == jobs' = [jobs EXCEPT ![p] = [step |-> "IDLE"]]

SetRow(s, row) == sessions' = [sessions EXCEPT ![s] = row]
OneMore(tries) == IF tries < 2 THEN tries + 1 ELSE tries

-----------------------------------------------------------------------------
(* initializeDeliveryUpload.                                                  *)

\* Sessions that hold a place; an overdue one holds it only once it is completing.
Reserved ==
    {s \in Sessions :
        \/ sessions[s].status \in {"COMPLETING", "QUARANTINE", "VALIDATING"}
        \/ sessions[s].status \in Expirable /\ ~sessions[s].overdue}

ReserveUpload(s) ==
    /\ sessions[s].status = "NONE"
    /\ OrderFree /\ Accepts
    /\ Cardinality(deliveries) + Cardinality(Reserved) < MaxDeliveries
    /\ SetRow(s, [NoRow EXCEPT !.status = "PREPARING"])
    /\ Job(s, "CREATE", s, 0)
    /\ UNCHANGED <<order, deliveries, removing, storage, overtaken>>

\* The storage opens a multipart upload; its answer may be lost, and the upload with it.
CreateMultipart(s) ==
    /\ At(s, "CREATE")
    /\ multipart' = [multipart EXCEPT ![s] = "OPEN"]
    /\ \E step \in {"STORE", "REFUSE"} : Continue(s, step)
    /\ UNCHANGED <<order, deliveries, sessions, removing, objects, overtaken>>

CreateFails(s) ==
    /\ At(s, "CREATE")
    /\ Continue(s, "REFUSE")
    /\ UNCHANGED <<order, deliveries, sessions, removing, storage, overtaken>>

\* The upload is stored, unless the session was aborted or has expired meanwhile.  What
\* fails after that, the reading of the status too, is undone like a failed creation.
StoreUpload(s) ==
    /\ At(s, "STORE")
    /\ \/ /\ sessions[s].status = "PREPARING"
          /\ SetRow(s, [sessions[s] EXCEPT !.status = "UPLOADING", !.upload = TRUE])
          /\ Stop(s) \/ Continue(s, "UNDO")
       \/ UNCHANGED sessions /\ Continue(s, "UNDO")
    /\ UNCHANGED <<order, deliveries, removing, storage, overtaken>>

\* The upload is aborted; that this fails is ignored.
UndoCreate(s) ==
    /\ At(s, "UNDO")
    /\ multipart' = [multipart EXCEPT ![s] = "GONE"] \/ UNCHANGED multipart
    /\ Continue(s, "REFUSE")
    /\ UNCHANGED <<order, deliveries, sessions, removing, objects, overtaken>>

RefuseUpload(s) ==
    /\ At(s, "REFUSE")
    /\ SetRow(s, [sessions[s] EXCEPT !.status = IF @ = "PREPARING" THEN "REJECTED" ELSE @])
    /\ Stop(s)
    /\ UNCHANGED <<order, deliveries, removing, storage, overtaken>>

-----------------------------------------------------------------------------
(* completeDeliveryUpload and recoverDeliveryCompletion, which the request of *)
(* the session runs first and a worker again when the lease has run out.      *)

ClaimCompletion(s) ==
    /\ At(s, "IDLE")
    /\ sessions[s].status = "UPLOADING" /\ ~sessions[s].overdue
    /\ multipart[s] = "FULL"
    /\ OrderFree /\ Accepts /\ HasRoom
    /\ SetRow(s, [sessions[s] EXCEPT !.status = "COMPLETING", !.lease = TRUE])
    /\ Job(s, "HEAD", s, 0)
    /\ UNCHANGED <<order, deliveries, removing, storage, overtaken>>

ClaimRecovery(w, s) ==
    /\ At(w, "IDLE")
    /\ sessions[s].status = "COMPLETING" /\ ~sessions[s].lease
    /\ SetRow(s, [sessions[s] EXCEPT !.lease = TRUE, !.tries = OneMore(@)])
    /\ Job(w, "HEAD", s, sessions[s].tries)
    /\ UNCHANGED <<order, deliveries, removing, storage, overtaken>>

\* verifyCompletedDeliveryObject
Verify(p) ==
    /\ At(p, "HEAD")
    /\ Continue(p, IF jobs[p].key \in objects THEN "MARK" ELSE "COMPLETE")
    /\ UNCHANGED <<order, deliveries, sessions, removing, storage, overtaken>>

\* The storage assembles the parts; its answer may be lost.
CompleteMultipart(p) ==
    /\ At(p, "COMPLETE")
    /\ multipart[jobs[p].key] = "FULL"
    /\ multipart' = [multipart EXCEPT ![jobs[p].key] = "GONE"]
    /\ objects' = objects \cup {jobs[p].key}
    /\ Continue(p, "HEAD")
    /\ UNCHANGED <<order, deliveries, sessions, removing, overtaken>>

MarkCompleted(p) ==
    LET s == jobs[p].key
    IN  /\ At(p, "MARK")
        /\ SetRow(s, IF sessions[s].status = "COMPLETING"
                     THEN [sessions[s] EXCEPT !.status = "QUARANTINE", !.lease = FALSE]
                     ELSE sessions[s])
        /\ Stop(p)
        /\ UNCHANGED <<order, deliveries, removing, storage, overtaken>>

\* Any error.  The request gives up silently, a worker rejects at the third attempt.
RecoveryFails(p) ==
    LET s == jobs[p].key
    IN  /\ jobs[p].step \in {"HEAD", "COMPLETE", "MARK"}
        /\ SetRow(s, IF p \in Workers /\ jobs[p].tries >= 2 /\ sessions[s].status = "COMPLETING"
                     THEN [sessions[s] EXCEPT !.status = "REJECTED"] ELSE sessions[s])
        /\ Stop(p)
        /\ UNCHANGED <<order, deliveries, removing, storage, overtaken>>

-----------------------------------------------------------------------------
(* processNextDeliveryValidation.                                             *)

\* A worker is between its check and its commit for this session.
Attaching(s) == \E w \in Workers : At(w, "ATTACH") /\ jobs[w].key = s

\* Mutant of ClaimValidation: a validation whose worker died is never taken over.
ClaimQuarantined(w, s) ==
    /\ At(w, "IDLE")
    /\ sessions[s].status = "QUARANTINE"
    /\ SetRow(s, [sessions[s] EXCEPT !.status = "VALIDATING", !.token = w, !.lease = TRUE,
                                     !.tries = OneMore(@)])
    /\ Job(w, "VALIDATE", s, sessions[s].tries)
    /\ overtaken' = overtaken \cup {x \in {s} : Attaching(x)}
    /\ UNCHANGED <<order, deliveries, removing, storage>>

ClaimValidation(w, s) ==
    /\ At(w, "IDLE")
    /\ \/ sessions[s].status = "QUARANTINE"
       \/ sessions[s].status = "VALIDATING" /\ ~sessions[s].lease
    /\ SetRow(s, [sessions[s] EXCEPT !.status = "VALIDATING", !.token = w, !.lease = TRUE,
                                     !.tries = OneMore(@)])
    /\ Job(w, "VALIDATE", s, sessions[s].tries)
    /\ overtaken' = overtaken \cup {x \in {s} : Attaching(x)}
    /\ UNCHANGED <<order, deliveries, removing, storage>>

Holds(w, s) == sessions[s].status = "VALIDATING" /\ sessions[s].token = w

\* Mutant of Owned: the token alone, which an abort leaves in the row.
OwnedByToken(w, s) == sessions[s].token = w /\ sessions[s].lease

Owned(w, s) == Holds(w, s) /\ sessions[s].lease

\* The heartbeat extends the lease even when it has run out.
RenewLease(w) ==
    LET s == jobs[w].key
    IN  /\ At(w, "VALIDATE") \/ At(w, "ATTACH")
        /\ Holds(w, s)
        /\ SetRow(s, [sessions[s] EXCEPT !.lease = TRUE])
        /\ UNCHANGED <<order, deliveries, jobs, removing, storage, overtaken>>

\* The file was downloaded, at whatever time before, and is valid: the order is locked and
\* the worker finds that it owns the session.  Nothing here locks the row or asks the
\* storage for the object.
BeginAttach(w) ==
    /\ At(w, "VALIDATE")
    /\ OrderFree
    /\ Owned(w, jobs[w].key)
    /\ Accepts /\ HasRoom
    /\ Continue(w, "ATTACH")
    /\ UNCHANGED <<order, deliveries, sessions, removing, storage, overtaken>>

\* The deliverable is attached and the row, found by its id alone, is READY with no error
\* left in it.  The answer to the commit may be lost, so the worker may still find that
\* the validation has failed.
CommitAttach(w) ==
    LET s == jobs[w].key
    IN  /\ At(w, "ATTACH")
        /\ deliveries' = deliveries \cup {s}
        /\ SetRow(s, [sessions[s] EXCEPT !.status = "READY", !.token = NoWorker, !.lease = FALSE,
                                         !.cleaned = FALSE])
        /\ Continue(w, "VALIDATE")
        /\ UNCHANGED <<order, removing, storage, overtaken>>

\* The transaction fails or runs out of time, and is tried again or given up.
AbandonAttach(w) ==
    /\ At(w, "ATTACH")
    /\ Continue(w, "VALIDATE")
    /\ UNCHANGED <<order, deliveries, sessions, removing, storage, overtaken>>

\* Success, or any error: a session that the worker still holds is rejected or retried.
EndValidation(w) ==
    LET s == jobs[w].key
    IN  /\ At(w, "VALIDATE")
        /\ \E status \in {"REJECTED", "QUARANTINE"} :
            /\ jobs[w].tries >= 2 => status = "REJECTED"
            /\ SetRow(s, IF Holds(w, s)
                         THEN [sessions[s] EXCEPT !.status = status, !.token = NoWorker,
                                                  !.lease = FALSE]
                         ELSE sessions[s])
        /\ Stop(w)
        /\ UNCHANGED <<order, deliveries, removing, storage, overtaken>>

-----------------------------------------------------------------------------
(* Abort, expiry and cleanupDeliveryUploadSessions.                           *)

AbortUpload(s) ==
    /\ OrderFree
    /\ sessions[s].status \in Expirable \cup {"QUARANTINE", "VALIDATING"}
    /\ SetRow(s, [sessions[s] EXCEPT !.status = "ABORTED"])
    /\ UNCHANGED <<order, deliveries, jobs, removing, storage, overtaken>>

\* ensureUnexpired and the worker's sweep.
ExpireSession(s) ==
    /\ sessions[s].status \in Expirable /\ sessions[s].overdue
    /\ SetRow(s, [sessions[s] EXCEPT !.status = "EXPIRED"])
    /\ UNCHANGED <<order, deliveries, jobs, removing, storage, overtaken>>

\* A worker may read a row that another is cleaning.
StartCleaning(w, s) ==
    /\ At(w, "IDLE")
    /\ sessions[s].status \in Terminal /\ ~sessions[s].cleaned
    /\ Job(w, IF sessions[s].upload THEN "ABORT" ELSE "DELETE", s, 0)
    /\ UNCHANGED <<order, deliveries, sessions, removing, storage, overtaken>>

\* Mutant of CleanStorage: the object is deleted before the multipart upload is aborted.
DeleteThenAbort(w) ==
    LET s == jobs[w].key
    IN  /\ \/ /\ At(w, "ABORT")
              /\ objects' = objects \ {s}
              /\ UNCHANGED multipart
              /\ Continue(w, "DELETE")
           \/ /\ At(w, "DELETE")
              /\ multipart' = [multipart EXCEPT ![s] = IF @ = "NONE" THEN @ ELSE "GONE"]
              /\ UNCHANGED objects
              /\ Continue(w, "CLEAN")
        /\ UNCHANGED <<order, deliveries, sessions, removing, overtaken>>

\* abortMultipartUpload, which a finished upload does not fail, then the deletion.
CleanStorage(w) ==
    LET s == jobs[w].key
    IN  /\ \/ /\ At(w, "ABORT")
              /\ multipart' = [multipart EXCEPT ![s] = "GONE"]
              /\ UNCHANGED objects
              /\ Continue(w, "DELETE")
           \/ /\ At(w, "DELETE")
              /\ objects' = objects \ {s}
              /\ UNCHANGED multipart
              /\ Continue(w, "CLEAN")
        /\ UNCHANGED <<order, deliveries, sessions, removing, overtaken>>

\* The row is left alone when its status is no longer the one that was read: a terminal
\* status changes only when a worker that was overtaken makes the session READY.
MarkCleaned(w) ==
    LET s == jobs[w].key
    IN  /\ At(w, "CLEAN")
        /\ SetRow(s, [sessions[s] EXCEPT !.cleaned = @ \/ sessions[s].status \in Terminal])
        /\ Stop(w)
        /\ UNCHANGED <<order, deliveries, removing, storage, overtaken>>

-----------------------------------------------------------------------------
(* putOrderDelivery and removeOrderDelivery.                                  *)

PrepareOrder(u) ==
    /\ At(u, "IDLE")
    /\ u \notin deliveries \cup removing \cup objects
    /\ OrderFree /\ Accepts /\ HasRoom
    /\ Job(u, "WRITE", u, 0)
    /\ UNCHANGED <<order, deliveries, sessions, removing, storage, overtaken>>

WriteObject(u) ==
    /\ At(u, "WRITE")
    /\ objects' = objects \cup {u}
    /\ Continue(u, "PERSIST")
    /\ UNCHANGED <<order, deliveries, sessions, removing, multipart, overtaken>>

\* Mutant of PersistDelivery: the room found by prepareOrder is taken for granted.
PersistUnchecked(u) ==
    /\ At(u, "PERSIST")
    /\ OrderFree /\ Accepts
    /\ deliveries' = deliveries \cup {u}
    /\ Stop(u)
    /\ UNCHANGED <<order, sessions, removing, storage, overtaken>>

\* Sessions are not looked at.  The answer to the commit may be lost.
PersistDelivery(u) ==
    /\ At(u, "PERSIST")
    /\ OrderFree /\ Accepts /\ HasRoom
    /\ deliveries' = deliveries \cup {u}
    /\ Stop(u) \/ Continue(u, "COMPENSATE")
    /\ UNCHANGED <<order, sessions, removing, storage, overtaken>>

PersistFails(u) ==
    /\ At(u, "PERSIST")
    /\ Continue(u, "COMPENSATE")
    /\ UNCHANGED <<order, deliveries, sessions, removing, storage, overtaken>>

Compensate(u) ==
    /\ At(u, "COMPENSATE")
    /\ objects' = objects \ {u}
    /\ Stop(u)
    /\ UNCHANGED <<order, deliveries, sessions, removing, multipart, overtaken>>

\* Mutant of DetachDelivery: the status of the order is not read.
DetachPublished(k) ==
    /\ OrderFree
    /\ k \in deliveries
    /\ deliveries' = deliveries \ {k}
    /\ removing' = removing \cup {k}
    /\ UNCHANGED <<order, sessions, jobs, storage, overtaken>>

DetachDelivery(k) ==
    /\ OrderFree /\ Accepts
    /\ k \in deliveries
    /\ deliveries' = deliveries \ {k}
    /\ removing' = removing \cup {k}
    /\ UNCHANGED <<order, sessions, jobs, storage, overtaken>>

\* The deletion may fail, and leaves an object that no row refers to.
DeleteDetached(k) ==
    /\ k \in removing
    /\ removing' = removing \ {k}
    /\ objects' = objects \ {k} \/ UNCHANGED objects
    /\ UNCHANGED <<order, deliveries, sessions, jobs, multipart, overtaken>>

-----------------------------------------------------------------------------
(* The rest of the order, crashes, the clock and the browser.                 *)

\* transitionOrderStatus to DELIVERED.
Publish ==
    /\ OrderFree /\ Accepts
    /\ deliveries # {} /\ Cardinality(deliveries) <= MaxDeliveries
    /\ order' = "DELIVERED"
    /\ UNCHANGED <<deliveries, sessions, jobs, removing, storage, overtaken>>

\* A refund begins, fails or closes the order; the administrator cancels it.
MoveOrder(to) ==
    /\ OrderFree
    /\ \/ order = "MAKING" /\ to \in {"HELD", "CLOSED"}
       \/ order = "HELD" /\ to \in {"MAKING", "CLOSED"}
    /\ order' = to
    /\ UNCHANGED <<deliveries, sessions, jobs, removing, storage, overtaken>>

\* A process dies, or gives up without another statement.
Crash(p) ==
    /\ ~At(p, "IDLE")
    /\ Stop(p)
    /\ UNCHANGED <<order, deliveries, sessions, removing, storage, overtaken>>

PassDeadline(s) ==
    /\ sessions[s].status \in Expirable /\ ~sessions[s].overdue
    /\ SetRow(s, [sessions[s] EXCEPT !.overdue = TRUE])
    /\ UNCHANGED <<order, deliveries, jobs, removing, storage, overtaken>>

ExpireLease(s) ==
    /\ sessions[s].lease
    /\ SetRow(s, [sessions[s] EXCEPT !.lease = FALSE])
    /\ UNCHANGED <<order, deliveries, jobs, removing, storage, overtaken>>

\* The browser sends every part, with URLs signed while the session was uploading.  One
\* whose request failed has no token and sends nothing: the model lets it.
SendParts(s) ==
    /\ sessions[s].upload
    /\ multipart[s] = "OPEN"
    /\ multipart' = [multipart EXCEPT ![s] = "FULL"]
    /\ UNCHANGED <<order, deliveries, sessions, jobs, removing, objects, overtaken>>

-----------------------------------------------------------------------------
Recovery(p) == Verify(p) \/ CompleteMultipart(p) \/ MarkCompleted(p) \/ RecoveryFails(p)

SessionStep(s) ==
    \/ ReserveUpload(s) \/ CreateMultipart(s) \/ CreateFails(s) \/ StoreUpload(s)
    \/ UndoCreate(s) \/ RefuseUpload(s) \/ ClaimCompletion(s) \/ Recovery(s)
    \/ AbortUpload(s) \/ ExpireSession(s)

WorkerStep(w) ==
    \/ \E s \in Sessions : ClaimRecovery(w, s) \/ ClaimValidation(w, s) \/ StartCleaning(w, s)
    \/ Recovery(w) \/ RenewLease(w) \/ BeginAttach(w) \/ CommitAttach(w) \/ AbandonAttach(w)
    \/ EndValidation(w) \/ CleanStorage(w) \/ MarkCleaned(w)

UploadStep(u) ==
    PrepareOrder(u) \/ WriteObject(u) \/ PersistDelivery(u) \/ PersistFails(u) \/ Compensate(u)

OrderStep ==
    \/ \E k \in Keys : DetachDelivery(k) \/ DeleteDetached(k)
    \/ Publish
    \/ \E to \in OrderStates : MoveOrder(to)

Environment ==
    \/ \E p \in Processes : Crash(p)
    \/ \E s \in Sessions : PassDeadline(s) \/ ExpireLease(s) \/ SendParts(s)

Next ==
    \/ \E s \in Sessions : SessionStep(s)
    \/ \E w \in Workers : WorkerStep(w)
    \/ \E u \in Uploads : UploadStep(u)
    \/ OrderStep
    \/ Environment

Spec == Init /\ [][Next]_vars

\* The clock runs and the workers poll.  A worker may die at any step, but not at every
\* one of its tries: what can be begun, continued or ended again and again is.  The
\* status of a session lets a recovery, a validation or a clean-up begin, never two of them,
\* so one condition serves the three.  A validation ends: its download is given five minutes
\* and ffmpeg has a time-out of its own, as has the transaction that attaches the file.
Begins(w, s) == ClaimRecovery(w, s) \/ ClaimValidation(w, s) \/ StartCleaning(w, s)
GoesOn(w) == Verify(w) \/ (At(w, "ABORT") /\ CleanStorage(w))
Stores(w) == CompleteMultipart(w) \/ (At(w, "DELETE") /\ CleanStorage(w))
Ends(w, s) == MarkCompleted(w) \/ (Holds(w, s) /\ EndValidation(w)) \/ MarkCleaned(w)

FairSpec ==
    /\ Spec
    /\ \A s \in Sessions :
        /\ WF_vars(PassDeadline(s)) /\ WF_vars(ExpireSession(s)) /\ WF_vars(ExpireLease(s))
        /\ SF_vars(\E w \in Workers : Begins(w, s))
        /\ SF_vars(\E w \in Workers : GoesOn(w) /\ jobs[w].key = s)
        /\ SF_vars(\E w \in Workers : Stores(w) /\ jobs[w].key = s)
        /\ SF_vars(\E w \in Workers : Ends(w, s) /\ jobs[w].key = s)
    \* Every call to the storage, every validation and every transaction has a time limit.
    /\ \A w \in Workers :
        /\ WF_vars(RecoveryFails(w) \/ EndValidation(w))
        /\ WF_vars(CommitAttach(w) \/ AbandonAttach(w))

-----------------------------------------------------------------------------
\* docs/order-delivery-direct-r2.md: "READY objects are never targeted by this cleanup."
\* The code does not keep to it: README.md, section 6.
FileBehindDelivery == deliveries \cap Sessions \subseteq objects

\* A deliverable that a worker has attached keeps its file: no cleanup of an aborted,
\* expired or rejected session, no stale token and no late removal deletes it.  The lease
\* is what it rests on, so it holds but for the one session whose lease ran out, and which
\* another worker claimed, between the check of the worker that attached it and its commit.
FileLostOnlyIfOvertaken == deliveries \cap Sessions \subseteq objects \cup overtaken

\* A session that has been cleaned leaves nothing behind: no recovery that was under way
\* brings its object back, and no part of it remains.
CleanedIsGone ==
    \A s \in Sessions : sessions[s].cleaned =>
        /\ s \notin objects
        /\ sessions[s].upload => multipart[s] = "GONE"

\* An order never has more deliverables than the limit, whichever way they came, although
\* the room is looked for long before the file is attached.
WithinLimit == Cardinality(deliveries) <= MaxDeliveries

\* docs/DELIVERY.md: a published delivery is immutable.  Its deliverables are those the
\* administrator saw: no upload still under way joins them and none is taken away.
PublishedStands == [][order = "DELIVERED" => deliveries' = deliveries]_vars

\* Every session ends: its file is attached or its storage is cleaned, even when the
\* browser leaves, answers are lost and workers die.
SessionsEnd ==
    \A s \in Sessions :
        sessions[s].status # "NONE" ~> sessions[s].status = "READY" \/ sessions[s].cleaned

\* docs/order-delivery-direct-r2.md: "eight attached/reserved deliveries per order".
\* The code does not keep to it: README.md, section 6.
AttachedAndReserved == Cardinality(deliveries) + Cardinality(Reserved) <= MaxDeliveries
=============================================================================

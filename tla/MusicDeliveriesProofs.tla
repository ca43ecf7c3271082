------------------------ MODULE MusicDeliveriesProofs ------------------------
(***************************************************************************)
(* Proofs about MusicDeliveries, for any sets of sessions, uploads and       *)
(* workers and any limit of deliverables.                                    *)
(***************************************************************************)
EXTENDS MusicDeliveries, FiniteSetTheorems, TLAPS

(* A worker has a session in hand; a request works for its own. *)
KeysAgree ==
    /\ \A w \in Workers : ~At(w, "IDLE") => jobs[w].key \in Sessions
    /\ \A s \in Sessions : ~At(s, "IDLE") => jobs[s].key = s

(* One worker at most is between its check and its commit, so the order and its room stay *)
(* as it found them; the session stays its own, or was claimed by another worker.         *)
LockAgrees ==
    /\ \A w \in Workers : At(w, "ATTACH") =>
        /\ Accepts /\ HasRoom
        /\ sessions[jobs[w].key].status # "READY"
        /\ Holds(w, jobs[w].key) \/ jobs[w].key \in overtaken
    /\ \A v, w \in Workers : At(v, "ATTACH") /\ At(w, "ATTACH") => v = w

(* Only a READY session, which no step leaves, has a deliverable or had one.  *)
AttachedAgree ==
    /\ \A s \in Sessions : s \in deliveries \cup removing => sessions[s].status = "READY"
    /\ deliveries \cap removing \cap Sessions = {}

(* A file that waits for its validation is stored, and so is one that a       *)
(* recovery has verified, unless the session has ended meanwhile.             *)
StoredAgree ==
    /\ \A s \in Sessions : sessions[s].status \in {"QUARANTINE", "VALIDATING"} => s \in objects
    /\ \A p \in Sessions \cup Workers : At(p, "MARK") =>
        jobs[p].key \in objects \/ sessions[jobs[p].key].status \in Terminal \cup {"READY"}

(* What is cleaned is terminal, or was until a worker that was overtaken made it READY,   *)
(* and has lost its upload, then its object.                                              *)
CleaningAgrees ==
    \A w \in Workers :
        LET s == jobs[w].key
        IN  /\ jobs[w].step \in {"ABORT", "DELETE", "CLEAN"} =>
                \/ sessions[s].status \in Terminal
                \/ sessions[s].status = "READY" /\ s \in overtaken
            /\ jobs[w].step \in {"DELETE", "CLEAN"} /\ sessions[s].upload => multipart[s] = "GONE"
            /\ At(w, "CLEAN") => s \notin objects

(* A recovery can complete only what was stored before the session ended.     *)
UploadsAgree ==
    \A s \in Sessions :
        /\ sessions[s].status = "NONE" => ~sessions[s].upload
        /\ multipart[s] = "FULL" => sessions[s].upload
        /\ jobs[s].step \in {"CREATE", "STORE"} => ~sessions[s].upload
        /\ sessions[s].cleaned => sessions[s].status \in Terminal

FilesAgree ==
    /\ KeysAgree /\ LockAgrees /\ AttachedAgree /\ StoredAgree /\ CleaningAgrees /\ UploadsAgree
    /\ FileLostOnlyIfOvertaken /\ CleanedIsGone

(* FilesAgree is inductive among typed states; neither half of it is without  *)
(* the other, since an object is deleted by a worker that has read a terminal *)
(* status before, and attached by one that has read VALIDATING.               *)
FilesInv == DeliveriesTypeOK /\ FilesAgree

-----------------------------------------------------------------------------
(* Type correctness.                                                          *)

LEMMA InitType == Init => DeliveriesTypeOK
BY DEF Init, DeliveriesTypeOK, OrderStates, SessionRows, NoRow, Statuses

LEMMA RowType ==
    ASSUME DeliveriesTypeOK, NEW s \in Sessions, NEW row \in SessionRows, SetRow(s, row)
    PROVE  sessions' \in [Sessions -> SessionRows]
BY DEF DeliveriesTypeOK, SetRow

LEMMA JobType ==
    ASSUME DeliveriesTypeOK, NEW p \in Processes
    PROVE  /\ \A step \in Steps, key \in Keys, tries \in 0..2 :
                Job(p, step, key, tries) => jobs' \in [Processes -> [step : {"IDLE"}] \cup Jobs]
           /\ \A step \in Steps :
                ~At(p, "IDLE") /\ Continue(p, step) => jobs' \in [Processes -> [step : {"IDLE"}] \cup Jobs]
           /\ Stop(p) => jobs' \in [Processes -> [step : {"IDLE"}] \cup Jobs]
           /\ ~At(p, "IDLE") => jobs[p] \in Jobs
BY DEF DeliveriesTypeOK, Job, Continue, Stop, At, Jobs

LEMMA RowUpdates ==
    ASSUME NEW row \in SessionRows
    PROVE  /\ \A status \in Statuses : [row EXCEPT !.status = status] \in SessionRows
           /\ \A token \in Workers \cup {NoWorker} : [row EXCEPT !.token = token] \in SessionRows
           /\ \A tries \in 0..2 : [row EXCEPT !.tries = tries] \in SessionRows
           /\ \A b \in BOOLEAN :
                /\ [row EXCEPT !.upload = b] \in SessionRows
                /\ [row EXCEPT !.overdue = b] \in SessionRows
                /\ [row EXCEPT !.lease = b] \in SessionRows
                /\ [row EXCEPT !.cleaned = b] \in SessionRows
BY DEF SessionRows

LEMMA NewRow == NoRow \in SessionRows /\ [NoRow EXCEPT !.status = "PREPARING"] \in SessionRows
<1>1. NoRow \in SessionRows
  BY DEF NoRow, SessionRows, Statuses
<1>2. "PREPARING" \in Statuses
  BY DEF Statuses, Expirable
<1> QED
  BY <1>1, <1>2, RowUpdates

LEMMA RowsInUse ==
    ASSUME NEW row \in SessionRows, NEW status \in Statuses, NEW token \in Workers \cup {NoWorker}
    PROVE  /\ [row EXCEPT !.status = status, !.upload = TRUE] \in SessionRows
           /\ [row EXCEPT !.status = status, !.lease = TRUE] \in SessionRows
           /\ [row EXCEPT !.status = status, !.lease = FALSE] \in SessionRows
           /\ [row EXCEPT !.lease = TRUE, !.tries = OneMore(@)] \in SessionRows
           /\ [row EXCEPT !.status = status, !.token = token, !.lease = TRUE, !.tries = OneMore(@)]
                    \in SessionRows
           /\ [row EXCEPT !.status = status, !.token = token, !.lease = FALSE] \in SessionRows
           /\ [row EXCEPT !.status = status, !.token = token, !.lease = FALSE, !.cleaned = FALSE]
                    \in SessionRows
<1>1. OneMore(row.tries) \in 0..2
  BY DEF OneMore, SessionRows
<1> DEFINE changed == [row EXCEPT !.status = status]
           taken == [changed EXCEPT !.token = token]
           leased == [taken EXCEPT !.lease = TRUE]
           extended == [row EXCEPT !.lease = TRUE]
<1>2. changed \in SessionRows /\ extended \in SessionRows
  BY RowUpdates
<1>3. taken \in SessionRows
  BY <1>2, RowUpdates
<1>4. /\ leased \in SessionRows /\ [taken EXCEPT !.lease = FALSE] \in SessionRows
      /\ [[taken EXCEPT !.lease = FALSE] EXCEPT !.cleaned = FALSE] \in SessionRows
  BY <1>3, RowUpdates
<1>5. extended.tries = row.tries /\ leased.tries = row.tries
  BY DEF SessionRows
<1>6. [extended EXCEPT !.tries = OneMore(@)] \in SessionRows /\ [leased EXCEPT !.tries = OneMore(@)] \in SessionRows
  BY <1>1, <1>2, <1>4, <1>5, RowUpdates
<1>7. /\ [changed EXCEPT !.upload = TRUE] \in SessionRows
      /\ [changed EXCEPT !.lease = TRUE] \in SessionRows
      /\ [changed EXCEPT !.lease = FALSE] \in SessionRows
  BY <1>2, RowUpdates
<1> QED
  BY <1>4, <1>6, <1>7

LEMMA RequestType ==
    ASSUME DeliveriesTypeOK, NEW s \in Sessions
    PROVE  /\ ReserveUpload(s) => DeliveriesTypeOK'
           /\ CreateMultipart(s) => DeliveriesTypeOK'
           /\ CreateFails(s) => DeliveriesTypeOK'
           /\ StoreUpload(s) => DeliveriesTypeOK'
           /\ UndoCreate(s) => DeliveriesTypeOK'
           /\ RefuseUpload(s) => DeliveriesTypeOK'
           /\ ClaimCompletion(s) => DeliveriesTypeOK'
           /\ AbortUpload(s) => DeliveriesTypeOK'
           /\ ExpireSession(s) => DeliveriesTypeOK'
<1>1. ASSUME ReserveUpload(s) PROVE DeliveriesTypeOK'
  <2>1. sessions[s] \in SessionRows
    BY DEF DeliveriesTypeOK
  <2>3. sessions' \in [Sessions -> SessionRows]
    BY <1>1, <2>1, NewRow, RowType DEF ReserveUpload
  <2>4. jobs' \in [Processes -> [step : {"IDLE"}] \cup Jobs]
    BY <1>1, <2>1 DEF ReserveUpload, DeliveriesTypeOK, Job, Stop, Continue, At, Processes, Keys, Jobs, Steps, SessionRows
  <2> QED
    BY <1>1, <2>3, <2>4 DEF ReserveUpload, DeliveriesTypeOK, storage
<1>2. ASSUME CreateMultipart(s) PROVE DeliveriesTypeOK'
  BY <1>2, JobType DEF CreateMultipart, DeliveriesTypeOK, At, Steps, Processes, Keys, storage
<1>3. ASSUME CreateFails(s) PROVE DeliveriesTypeOK'
  BY <1>3, JobType DEF CreateFails, DeliveriesTypeOK, At, Steps, Processes, Keys, storage
<1>4. ASSUME StoreUpload(s) PROVE DeliveriesTypeOK'
  <2>1. sessions[s] \in SessionRows
    BY DEF DeliveriesTypeOK
  <2>2. "UPLOADING" \in Statuses
    BY DEF Statuses, Expirable, Terminal
  <2>3. sessions' \in [Sessions -> SessionRows]
    <3>1. CASE UNCHANGED sessions
      BY <3>1 DEF DeliveriesTypeOK
    <3>2. CASE SetRow(s, [sessions[s] EXCEPT !.status = "UPLOADING", !.upload = TRUE])
      BY <3>2, <2>1, <2>2, RowsInUse, RowType
    <3> QED
      BY <1>4, <3>1, <3>2 DEF StoreUpload
  <2>4. jobs' \in [Processes -> [step : {"IDLE"}] \cup Jobs]
    BY <1>4, <2>1 DEF StoreUpload, DeliveriesTypeOK, Job, Stop, Continue, At, Processes, Keys, Jobs, Steps, SessionRows
  <2> QED
    BY <1>4, <2>3, <2>4 DEF StoreUpload, DeliveriesTypeOK, storage
<1>5. ASSUME UndoCreate(s) PROVE DeliveriesTypeOK'
  BY <1>5, JobType DEF UndoCreate, DeliveriesTypeOK, At, Steps, Processes, Keys, storage
<1>6. ASSUME RefuseUpload(s) PROVE DeliveriesTypeOK'
  <2>1. sessions' \in [Sessions -> SessionRows]
    BY <1>6 DEF RefuseUpload, DeliveriesTypeOK, SetRow, SessionRows, Statuses, Expirable, Terminal, At
  <2>2. jobs' \in [Processes -> [step : {"IDLE"}] \cup Jobs]
    BY <1>6, JobType DEF RefuseUpload, Processes, Keys, Steps, DeliveriesTypeOK, SessionRows, At
  <2> QED
    BY <1>6, <2>1, <2>2 DEF RefuseUpload, DeliveriesTypeOK, storage
<1>7. ASSUME ClaimCompletion(s) PROVE DeliveriesTypeOK'
  <2>1. sessions[s] \in SessionRows
    BY DEF DeliveriesTypeOK
  <2>2. "COMPLETING" \in Statuses
    BY DEF Statuses, Expirable, Terminal
  <2>3. sessions' \in [Sessions -> SessionRows]
    BY <1>7, <2>1, <2>2, RowsInUse, RowUpdates, RowType DEF ClaimCompletion
  <2>4. jobs' \in [Processes -> [step : {"IDLE"}] \cup Jobs]
    BY <1>7, <2>1 DEF ClaimCompletion, DeliveriesTypeOK, Job, Stop, Continue, At, Processes, Keys, Jobs, Steps, SessionRows
  <2> QED
    BY <1>7, <2>3, <2>4 DEF ClaimCompletion, DeliveriesTypeOK, storage
<1>8. ASSUME AbortUpload(s) PROVE DeliveriesTypeOK'
  BY <1>8 DEF AbortUpload, DeliveriesTypeOK, SetRow, Job, Continue, Stop, At, Jobs, Steps, Statuses, Expirable,
     Terminal, Processes, Keys, SessionRows, OrderStates, storage
<1>9. ASSUME ExpireSession(s) PROVE DeliveriesTypeOK'
  BY <1>9 DEF ExpireSession, DeliveriesTypeOK, SetRow, Job, Continue, Stop, At, Jobs, Steps, Statuses, Expirable,
     Terminal, Processes, Keys, SessionRows, OrderStates, storage
<1> QED
  BY <1>1, <1>2, <1>3, <1>4, <1>5, <1>6, <1>7, <1>8, <1>9

LEMMA RecoveryType ==
    ASSUME DeliveriesTypeOK, KeysAgree, NEW p \in Sessions \cup Workers
    PROVE  /\ Verify(p) => DeliveriesTypeOK'
           /\ CompleteMultipart(p) => DeliveriesTypeOK'
           /\ MarkCompleted(p) => DeliveriesTypeOK'
           /\ RecoveryFails(p) => DeliveriesTypeOK'
<1>1. ASSUME Verify(p) PROVE DeliveriesTypeOK'
  BY <1>1, JobType DEF Verify, DeliveriesTypeOK, At, Steps, Processes, Keys, storage
<1>2. ASSUME CompleteMultipart(p) PROVE DeliveriesTypeOK'
  BY <1>2 DEF CompleteMultipart, KeysAgree, DeliveriesTypeOK, SetRow, Job, Continue, Stop, At, Jobs, Steps, Statuses, Expirable,
     Terminal, Processes, Keys, SessionRows, OrderStates, storage
<1>3. ASSUME MarkCompleted(p) PROVE DeliveriesTypeOK'
  <2> DEFINE s == jobs[p].key
  <2>1. s \in Sessions /\ sessions[s] \in SessionRows
    BY <1>3 DEF KeysAgree, DeliveriesTypeOK, At, MarkCompleted
  <2>2. "QUARANTINE" \in Statuses
    BY DEF Statuses, Expirable, Terminal
  <2> HIDE DEF s
  <2>3. sessions' \in [Sessions -> SessionRows]
    BY <1>3, <2>1, <2>2, RowsInUse, RowUpdates DEF MarkCompleted, s, SetRow, DeliveriesTypeOK
  <2>4. jobs' \in [Processes -> [step : {"IDLE"}] \cup Jobs]
    BY <1>3 DEF MarkCompleted, DeliveriesTypeOK, Stop, Processes
  <2> QED
    BY <1>3, <2>3, <2>4 DEF MarkCompleted, DeliveriesTypeOK, storage
<1>4. ASSUME RecoveryFails(p) PROVE DeliveriesTypeOK'
  <2> DEFINE s == jobs[p].key
  <2>1. s \in Sessions /\ sessions[s] \in SessionRows
    BY <1>4 DEF KeysAgree, DeliveriesTypeOK, At, RecoveryFails
  <2>2. "REJECTED" \in Statuses
    BY DEF Statuses, Expirable, Terminal
  <2> HIDE DEF s
  <2>3. sessions' \in [Sessions -> SessionRows]
    BY <1>4, <2>1, <2>2, RowsInUse, RowUpdates DEF RecoveryFails, s, SetRow, DeliveriesTypeOK
  <2>4. jobs' \in [Processes -> [step : {"IDLE"}] \cup Jobs]
    BY <1>4 DEF RecoveryFails, DeliveriesTypeOK, Stop, Processes
  <2> QED
    BY <1>4, <2>3, <2>4 DEF RecoveryFails, DeliveriesTypeOK, storage
<1> QED
  BY <1>1, <1>2, <1>3, <1>4

LEMMA WorkerType ==
    ASSUME DeliveriesTypeOK, KeysAgree, NEW w \in Workers
    PROVE  /\ RenewLease(w) => DeliveriesTypeOK'
           /\ BeginAttach(w) => DeliveriesTypeOK'
           /\ CommitAttach(w) => DeliveriesTypeOK'
           /\ AbandonAttach(w) => DeliveriesTypeOK'
           /\ EndValidation(w) => DeliveriesTypeOK'
           /\ CleanStorage(w) => DeliveriesTypeOK'
           /\ MarkCleaned(w) => DeliveriesTypeOK'
<1>1. ASSUME RenewLease(w) PROVE DeliveriesTypeOK'
  <2> DEFINE s == jobs[w].key
  <2>1. s \in Sessions /\ sessions[s] \in SessionRows
    BY <1>1 DEF KeysAgree, DeliveriesTypeOK, At, RenewLease
  <2> HIDE DEF s
  <2>3. sessions' \in [Sessions -> SessionRows]
    BY <1>1, <2>1, RowsInUse, RowUpdates DEF RenewLease, s, SetRow, DeliveriesTypeOK
  <2> QED
    BY <1>1, <2>3 DEF RenewLease, DeliveriesTypeOK, storage
<1>2. ASSUME CommitAttach(w) PROVE DeliveriesTypeOK'
  <2> DEFINE s == jobs[w].key
  <2>1. s \in Sessions /\ sessions[s] \in SessionRows
    BY <1>2 DEF KeysAgree, DeliveriesTypeOK, At, CommitAttach
  <2>2. "READY" \in Statuses
    BY DEF Statuses, Expirable, Terminal
  <2> HIDE DEF s
  <2>3. sessions' \in [Sessions -> SessionRows]
    BY <1>2, <2>1, <2>2, RowsInUse, RowUpdates DEF CommitAttach, s, SetRow, DeliveriesTypeOK
  <2>4. jobs' \in [Processes -> [step : {"IDLE"}] \cup Jobs]
    BY <1>2, JobType DEF CommitAttach, At, Steps, Processes
  <2>5. deliveries' \subseteq Keys
    BY <1>2, <2>1 DEF CommitAttach, s, DeliveriesTypeOK, Keys
  <2> QED
    BY <1>2, <2>3, <2>4, <2>5 DEF CommitAttach, DeliveriesTypeOK, storage
<1>6. ASSUME BeginAttach(w) PROVE DeliveriesTypeOK'
  BY <1>6, JobType DEF BeginAttach, DeliveriesTypeOK, At, Steps, Processes, storage
<1>7. ASSUME AbandonAttach(w) PROVE DeliveriesTypeOK'
  BY <1>7, JobType DEF AbandonAttach, DeliveriesTypeOK, At, Steps, Processes, storage
<1>3. ASSUME EndValidation(w) PROVE DeliveriesTypeOK'
  <2> DEFINE s == jobs[w].key
  <2>1. s \in Sessions /\ sessions[s] \in SessionRows
    BY <1>3 DEF KeysAgree, DeliveriesTypeOK, At, EndValidation
  <2>2. PICK status \in {"REJECTED", "QUARANTINE"} :
            SetRow(s, IF Holds(w, s)
                      THEN [sessions[s] EXCEPT !.status = status, !.token = NoWorker, !.lease = FALSE]
                      ELSE sessions[s])
    BY <1>3 DEF EndValidation
  <2>3. status \in Statuses
    BY DEF Statuses, Terminal
  <2> HIDE DEF s
  <2>4. [sessions[s] EXCEPT !.status = status, !.token = NoWorker, !.lease = FALSE] \in SessionRows
    BY <2>1, <2>3, RowsInUse
  <2>5. sessions' \in [Sessions -> SessionRows]
    BY <2>1, <2>2, <2>4, RowType
  <2>6. jobs' \in [Processes -> [step : {"IDLE"}] \cup Jobs]
    BY <1>3 DEF EndValidation, DeliveriesTypeOK, Stop, Processes
  <2> QED
    BY <1>3, <2>5, <2>6 DEF EndValidation, DeliveriesTypeOK, storage
<1>4. ASSUME CleanStorage(w) PROVE DeliveriesTypeOK'
  BY <1>4 DEF CleanStorage, KeysAgree, DeliveriesTypeOK, SetRow, Job, Continue, Stop, At, Jobs, Steps, Statuses, Expirable,
     Terminal, Processes, Keys, SessionRows, OrderStates, storage
<1>5. ASSUME MarkCleaned(w) PROVE DeliveriesTypeOK'
  <2> DEFINE s == jobs[w].key
  <2>1. s \in Sessions /\ sessions[s] \in SessionRows
    BY <1>5 DEF KeysAgree, DeliveriesTypeOK, At, MarkCleaned
  <2>2. (sessions[s].cleaned \/ sessions[s].status \in Terminal) \in BOOLEAN
    BY <2>1 DEF SessionRows
  <2> HIDE DEF s
  <2>3. sessions' \in [Sessions -> SessionRows]
    BY <1>5, <2>1, <2>2, RowUpdates DEF MarkCleaned, s, SetRow, DeliveriesTypeOK
  <2>4. jobs' \in [Processes -> [step : {"IDLE"}] \cup Jobs]
    BY <1>5 DEF MarkCleaned, DeliveriesTypeOK, Stop, Processes
  <2> QED
    BY <1>5, <2>3, <2>4 DEF MarkCleaned, DeliveriesTypeOK, storage
<1> QED
  BY <1>1, <1>2, <1>3, <1>4, <1>5, <1>6, <1>7

LEMMA ClaimType ==
    ASSUME DeliveriesTypeOK, NEW w \in Workers, NEW s \in Sessions
    PROVE  /\ ClaimRecovery(w, s) => DeliveriesTypeOK'
           /\ ClaimValidation(w, s) => DeliveriesTypeOK'
           /\ StartCleaning(w, s) => DeliveriesTypeOK'
<1>1. ASSUME ClaimRecovery(w, s) PROVE DeliveriesTypeOK'
  <2>1. sessions[s] \in SessionRows
    BY DEF DeliveriesTypeOK
  <2>2. "COMPLETING" \in Statuses
    BY DEF Statuses, Expirable, Terminal
  <2>3. sessions' \in [Sessions -> SessionRows]
    BY <1>1, <2>1, <2>2, RowsInUse, RowUpdates, RowType DEF ClaimRecovery
  <2>4. jobs' \in [Processes -> [step : {"IDLE"}] \cup Jobs]
    BY <1>1, <2>1 DEF ClaimRecovery, DeliveriesTypeOK, Job, Stop, Continue, At, Processes, Keys, Jobs, Steps, SessionRows
  <2> QED
    BY <1>1, <2>3, <2>4 DEF ClaimRecovery, DeliveriesTypeOK, storage
<1>2. ASSUME ClaimValidation(w, s) PROVE DeliveriesTypeOK'
  <2>1. sessions[s] \in SessionRows
    BY DEF DeliveriesTypeOK
  <2>2. "VALIDATING" \in Statuses
    BY DEF Statuses, Expirable, Terminal
  <2>3. sessions' \in [Sessions -> SessionRows]
    BY <1>2, <2>1, <2>2, RowsInUse, RowUpdates, RowType DEF ClaimValidation
  <2>4. jobs' \in [Processes -> [step : {"IDLE"}] \cup Jobs]
    BY <1>2, <2>1 DEF ClaimValidation, DeliveriesTypeOK, Job, Stop, Continue, At, Processes, Keys, Jobs, Steps, SessionRows
  <2> QED
    BY <1>2, <2>3, <2>4 DEF ClaimValidation, DeliveriesTypeOK, storage
<1>3. ASSUME StartCleaning(w, s) PROVE DeliveriesTypeOK'
  BY <1>3 DEF StartCleaning, DeliveriesTypeOK, SetRow, Job, Continue, Stop, At, Jobs, Steps, Statuses, Expirable,
     Terminal, Processes, Keys, SessionRows, OrderStates, storage
<1> QED
  BY <1>1, <1>2, <1>3

LEMMA UploadType ==
    ASSUME DeliveriesTypeOK, NEW u \in Uploads
    PROVE  /\ PrepareOrder(u) => DeliveriesTypeOK'
           /\ WriteObject(u) => DeliveriesTypeOK'
           /\ PersistDelivery(u) => DeliveriesTypeOK'
           /\ PersistFails(u) => DeliveriesTypeOK'
           /\ Compensate(u) => DeliveriesTypeOK'
<1>1. ASSUME PrepareOrder(u) PROVE DeliveriesTypeOK'
  BY <1>1 DEF PrepareOrder, DeliveriesTypeOK, SetRow, Job, Continue, Stop, At, Jobs, Steps, Statuses, Expirable,
     Terminal, Processes, Keys, SessionRows, OrderStates, storage
<1>2. ASSUME WriteObject(u) PROVE DeliveriesTypeOK'
  BY <1>2 DEF WriteObject, DeliveriesTypeOK, SetRow, Job, Continue, Stop, At, Jobs, Steps, Statuses, Expirable,
     Terminal, Processes, Keys, SessionRows, OrderStates, storage
<1>3. ASSUME PersistDelivery(u) PROVE DeliveriesTypeOK'
  BY <1>3 DEF PersistDelivery, DeliveriesTypeOK, SetRow, Job, Continue, Stop, At, Jobs, Steps, Statuses, Expirable,
     Terminal, Processes, Keys, SessionRows, OrderStates, storage
<1>4. ASSUME PersistFails(u) PROVE DeliveriesTypeOK'
  BY <1>4 DEF PersistFails, DeliveriesTypeOK, SetRow, Job, Continue, Stop, At, Jobs, Steps, Statuses, Expirable,
     Terminal, Processes, Keys, SessionRows, OrderStates, storage
<1>5. ASSUME Compensate(u) PROVE DeliveriesTypeOK'
  BY <1>5 DEF Compensate, DeliveriesTypeOK, SetRow, Job, Continue, Stop, At, Jobs, Steps, Statuses, Expirable,
     Terminal, Processes, Keys, SessionRows, OrderStates, storage
<1> QED
  BY <1>1, <1>2, <1>3, <1>4, <1>5

LEMMA OrderType ==
    ASSUME DeliveriesTypeOK, OrderStep
    PROVE  DeliveriesTypeOK'
BY DEF OrderStep, DetachDelivery, DeleteDetached, Publish, MoveOrder, DeliveriesTypeOK, OrderStates, storage

LEMMA EnvironmentType ==
    ASSUME DeliveriesTypeOK, Environment
    PROVE  DeliveriesTypeOK'
<1>1. ASSUME NEW p \in Processes, Crash(p) PROVE DeliveriesTypeOK'
  BY <1>1, JobType DEF Crash, DeliveriesTypeOK, storage
<1>2. ASSUME NEW s \in Sessions, PassDeadline(s) PROVE DeliveriesTypeOK'
  BY <1>2, RowUpdates, RowType DEF PassDeadline, DeliveriesTypeOK, storage
<1>3. ASSUME NEW s \in Sessions, ExpireLease(s) PROVE DeliveriesTypeOK'
  BY <1>3, RowUpdates, RowType DEF ExpireLease, DeliveriesTypeOK, storage
<1>4. ASSUME NEW s \in Sessions, SendParts(s) PROVE DeliveriesTypeOK'
  BY <1>4 DEF SendParts, DeliveriesTypeOK
<1> QED
  BY <1>1, <1>2, <1>3, <1>4 DEF Environment

LEMMA TypeStep == DeliveriesTypeOK /\ KeysAgree /\ [Next]_vars => DeliveriesTypeOK'
<1> SUFFICES ASSUME DeliveriesTypeOK, KeysAgree, [Next]_vars PROVE DeliveriesTypeOK'
  OBVIOUS
<1>1. ASSUME NEW s \in Sessions, SessionStep(s) PROVE DeliveriesTypeOK'
  BY <1>1, RequestType, RecoveryType DEF SessionStep, Recovery
<1>2. ASSUME NEW w \in Workers, WorkerStep(w) PROVE DeliveriesTypeOK'
  BY <1>2, ClaimType, WorkerType, RecoveryType DEF WorkerStep, Recovery
<1>3. ASSUME NEW u \in Uploads, UploadStep(u) PROVE DeliveriesTypeOK'
  BY <1>3, UploadType DEF UploadStep
<1>4. CASE OrderStep
  BY <1>4, OrderType
<1>5. CASE Environment
  BY <1>5, EnvironmentType
<1>6. CASE UNCHANGED vars
  BY <1>6 DEF vars, storage, DeliveriesTypeOK
<1> QED
  BY <1>1, <1>2, <1>3, <1>4, <1>5, <1>6 DEF Next

-----------------------------------------------------------------------------
(* The files of sessions.                                                     *)

LEMMA RequestFiles ==
    ASSUME FilesInv, NEW s \in Sessions
    PROVE  /\ ReserveUpload(s) => FilesAgree'
           /\ CreateMultipart(s) => FilesAgree'
           /\ CreateFails(s) => FilesAgree'
           /\ StoreUpload(s) => FilesAgree'
           /\ UndoCreate(s) => FilesAgree'
           /\ RefuseUpload(s) => FilesAgree'
           /\ ClaimCompletion(s) => FilesAgree'
           /\ AbortUpload(s) => FilesAgree'
           /\ ExpireSession(s) => FilesAgree'
<1> USE DeliveriesAssumption
     DEF FilesInv, FilesAgree, KeysAgree, LockAgrees, AttachedAgree, StoredAgree, CleaningAgrees, UploadsAgree,
         FileLostOnlyIfOvertaken, CleanedIsGone, DeliveriesTypeOK, SetRow, Job, Continue, Stop, At, Terminal,
         Processes, Keys, storage, OrderFree, Holds, Accepts, HasRoom
<1>1. ASSUME ReserveUpload(s) PROVE FilesAgree'
  <2>1. KeysAgree' /\ AttachedAgree' /\ StoredAgree'
    BY <1>1 DEF ReserveUpload, NoRow
  <2>2. LockAgrees'
    BY <1>1 DEF ReserveUpload, NoRow
  <2>3. CleaningAgrees' /\ UploadsAgree'
    BY <1>1 DEF ReserveUpload, NoRow
  <2>4. FileLostOnlyIfOvertaken' /\ CleanedIsGone'
    BY <1>1 DEF ReserveUpload, NoRow
  <2> QED
    BY <2>1, <2>2, <2>3, <2>4
<1>2. ASSUME CreateMultipart(s) PROVE FilesAgree'
  <2>1. KeysAgree' /\ AttachedAgree' /\ StoredAgree'
    BY <1>2 DEF CreateMultipart
  <2>2. LockAgrees'
    BY <1>2 DEF CreateMultipart
  <2>3. CleaningAgrees' /\ UploadsAgree'
    BY <1>2 DEF CreateMultipart
  <2>4. FileLostOnlyIfOvertaken' /\ CleanedIsGone'
    BY <1>2 DEF CreateMultipart
  <2> QED
    BY <2>1, <2>2, <2>3, <2>4
<1>3. ASSUME CreateFails(s) PROVE FilesAgree'
  <2>1. KeysAgree' /\ AttachedAgree' /\ StoredAgree'
    BY <1>3 DEF CreateFails
  <2>2. LockAgrees'
    BY <1>3 DEF CreateFails
  <2>3. CleaningAgrees' /\ UploadsAgree'
    BY <1>3 DEF CreateFails
  <2>4. FileLostOnlyIfOvertaken' /\ CleanedIsGone'
    BY <1>3 DEF CreateFails
  <2> QED
    BY <2>1, <2>2, <2>3, <2>4
<1>4. ASSUME StoreUpload(s) PROVE FilesAgree'
  <2>1. /\ \E step \in {"IDLE", "UNDO"} :
            jobs'[s].step = step /\ (step = "IDLE" \/ jobs'[s].key = jobs[s].key)
        /\ \A p \in Processes \ {s} : jobs'[p] = jobs[p]
        /\ UNCHANGED <<order, deliveries, removing, multipart, objects, overtaken>>
        /\ ~At(s, "IDLE") /\ s \notin Workers
    <3>1. /\ ~At(s, "IDLE") /\ s \in Processes \ Workers
          /\ UNCHANGED <<order, deliveries, removing, multipart, objects, overtaken>>
      BY <1>4 DEF StoreUpload
    <3>2. CASE Stop(s)
      BY <3>1, <3>2
    <3>3. CASE Continue(s, "UNDO")
      BY <3>1, <3>3, JobType DEF Jobs
    <3> QED
      BY <1>4, <3>1, <3>2, <3>3 DEF StoreUpload
  <2>2. CASE UNCHANGED sessions
    <3>1. KeysAgree' /\ AttachedAgree' /\ StoredAgree'
      BY <2>1, <2>2
    <3>2. LockAgrees'
      BY <2>1, <2>2
    <3>3. CleaningAgrees' /\ UploadsAgree'
      BY <2>1, <2>2
    <3>4. FileLostOnlyIfOvertaken' /\ CleanedIsGone'
      BY <2>1, <2>2
    <3> QED
      BY <3>1, <3>2, <3>3, <3>4
  <2>3. CASE /\ sessions[s].status = "PREPARING"
             /\ sessions' = [sessions EXCEPT ![s] = [sessions[s] EXCEPT !.status = "UPLOADING",
                                                                      !.upload = TRUE]]
    <3>1. /\ sessions'[s].status = "UPLOADING" /\ sessions'[s].upload
          /\ sessions'[s].cleaned = sessions[s].cleaned
          /\ \A x \in Sessions \ {s} : sessions'[x] = sessions[x]
      <4>1. sessions[s] \in SessionRows /\ DOMAIN sessions = Sessions
        OBVIOUS
      <4> DEFINE started == [sessions[s] EXCEPT !.status = "UPLOADING"]
      <4>2. /\ started.cleaned = sessions[s].cleaned /\ started.status = "UPLOADING"
            /\ DOMAIN started = DOMAIN sessions[s]
        BY <4>1 DEF SessionRows
      <4>3. sessions'[s] = [started EXCEPT !.upload = TRUE]
        BY <2>3, <4>1
      <4>4. {"status", "upload", "cleaned"} \subseteq DOMAIN sessions[s]
        BY <4>1 DEF SessionRows
      <4> HIDE DEF started
      <4>5. /\ sessions'[s].status = "UPLOADING" /\ sessions'[s].upload
            /\ sessions'[s].cleaned = sessions[s].cleaned
        BY <4>2, <4>3, <4>4
      <4> QED
        BY <2>3, <4>1, <4>5
    <3>2. KeysAgree' /\ AttachedAgree' /\ StoredAgree'
      BY <2>1, <2>3, <3>1
    <3>3. LockAgrees'
      BY <2>1, <2>3, <3>1
    <3>4. CleaningAgrees' /\ UploadsAgree'
      BY <2>1, <2>3, <3>1
    <3>5. FileLostOnlyIfOvertaken' /\ CleanedIsGone'
      BY <2>1, <2>3, <3>1
    <3> QED
      BY <3>2, <3>3, <3>4, <3>5
  <2> QED
    BY <1>4, <2>2, <2>3 DEF StoreUpload
<1>5. ASSUME UndoCreate(s) PROVE FilesAgree'
  <2>1. KeysAgree' /\ AttachedAgree' /\ StoredAgree'
    BY <1>5 DEF UndoCreate
  <2>2. LockAgrees'
    BY <1>5 DEF UndoCreate
  <2>3. CleaningAgrees' /\ UploadsAgree'
    BY <1>5 DEF UndoCreate
  <2>4. FileLostOnlyIfOvertaken' /\ CleanedIsGone'
    BY <1>5 DEF UndoCreate
  <2> QED
    BY <2>1, <2>2, <2>3, <2>4
<1>6. ASSUME RefuseUpload(s) PROVE FilesAgree'
  <2>1. KeysAgree' /\ AttachedAgree' /\ StoredAgree'
    BY <1>6 DEF RefuseUpload, SessionRows
  <2>2. LockAgrees'
    BY <1>6 DEF RefuseUpload, SessionRows
  <2>3. CleaningAgrees' /\ UploadsAgree'
    BY <1>6 DEF RefuseUpload, SessionRows
  <2>4. FileLostOnlyIfOvertaken' /\ CleanedIsGone'
    BY <1>6 DEF RefuseUpload, SessionRows
  <2> QED
    BY <2>1, <2>2, <2>3, <2>4
<1>7. ASSUME ClaimCompletion(s) PROVE FilesAgree'
  <2>1. KeysAgree' /\ AttachedAgree' /\ StoredAgree'
    BY <1>7 DEF ClaimCompletion, SessionRows
  <2>2. LockAgrees'
    BY <1>7 DEF ClaimCompletion, SessionRows
  <2>3. CleaningAgrees' /\ UploadsAgree'
    BY <1>7 DEF ClaimCompletion, SessionRows
  <2>4. FileLostOnlyIfOvertaken' /\ CleanedIsGone'
    BY <1>7 DEF ClaimCompletion, SessionRows
  <2> QED
    BY <2>1, <2>2, <2>3, <2>4
<1>8. ASSUME AbortUpload(s) PROVE FilesAgree'
  <2>1. KeysAgree' /\ AttachedAgree' /\ StoredAgree'
    BY <1>8 DEF AbortUpload, SessionRows, Expirable
  <2>2. LockAgrees'
    BY <1>8 DEF AbortUpload, SessionRows, Expirable
  <2>3. CleaningAgrees' /\ UploadsAgree'
    BY <1>8 DEF AbortUpload, SessionRows, Expirable
  <2>4. FileLostOnlyIfOvertaken' /\ CleanedIsGone'
    BY <1>8 DEF AbortUpload, SessionRows, Expirable
  <2> QED
    BY <2>1, <2>2, <2>3, <2>4
<1>9. ASSUME ExpireSession(s) PROVE FilesAgree'
  <2>1. KeysAgree' /\ AttachedAgree' /\ StoredAgree'
    BY <1>9 DEF ExpireSession, SessionRows, Expirable
  <2>2. LockAgrees'
    BY <1>9 DEF ExpireSession, SessionRows, Expirable
  <2>3. CleaningAgrees' /\ UploadsAgree'
    BY <1>9 DEF ExpireSession, SessionRows, Expirable
  <2>4. FileLostOnlyIfOvertaken' /\ CleanedIsGone'
    BY <1>9 DEF ExpireSession, SessionRows, Expirable
  <2> QED
    BY <2>1, <2>2, <2>3, <2>4
<1> QED
  BY <1>1, <1>2, <1>3, <1>4, <1>5, <1>6, <1>7, <1>8, <1>9

LEMMA RecoveryFiles ==
    ASSUME FilesInv, NEW p \in Sessions \cup Workers
    PROVE  /\ Verify(p) => FilesAgree'
           /\ CompleteMultipart(p) => FilesAgree'
           /\ MarkCompleted(p) => FilesAgree'
           /\ RecoveryFails(p) => FilesAgree'
<1> USE DeliveriesAssumption
     DEF FilesInv, FilesAgree, KeysAgree, LockAgrees, AttachedAgree, StoredAgree, CleaningAgrees, UploadsAgree,
         FileLostOnlyIfOvertaken, CleanedIsGone, DeliveriesTypeOK, SetRow, Job, Continue, Stop, At, Terminal,
         Processes, Keys, storage, OrderFree, Holds, Accepts, HasRoom
<1>1. ASSUME Verify(p) PROVE FilesAgree'
  <2>1. KeysAgree' /\ AttachedAgree' /\ StoredAgree'
    BY <1>1 DEF Verify
  <2>2. LockAgrees'
    BY <1>1 DEF Verify
  <2>3. CleaningAgrees' /\ UploadsAgree'
    BY <1>1 DEF Verify
  <2>4. FileLostOnlyIfOvertaken' /\ CleanedIsGone'
    BY <1>1 DEF Verify
  <2> QED
    BY <2>1, <2>2, <2>3, <2>4
<1>2. ASSUME CompleteMultipart(p) PROVE FilesAgree'
  <2>1. KeysAgree' /\ AttachedAgree' /\ StoredAgree'
    BY <1>2 DEF CompleteMultipart
  <2>2. LockAgrees'
    BY <1>2 DEF CompleteMultipart
  <2>3. CleaningAgrees' /\ UploadsAgree'
    BY <1>2 DEF CompleteMultipart
  <2>4. FileLostOnlyIfOvertaken' /\ CleanedIsGone'
    BY <1>2 DEF CompleteMultipart
  <2> QED
    BY <2>1, <2>2, <2>3, <2>4
<1>3. ASSUME MarkCompleted(p) PROVE FilesAgree'
  <2>1. KeysAgree' /\ AttachedAgree' /\ StoredAgree'
    BY <1>3 DEF MarkCompleted, SessionRows
  <2>2. LockAgrees'
    BY <1>3 DEF MarkCompleted, SessionRows
  <2>3. CleaningAgrees' /\ UploadsAgree'
    BY <1>3 DEF MarkCompleted, SessionRows
  <2>4. FileLostOnlyIfOvertaken' /\ CleanedIsGone'
    BY <1>3 DEF MarkCompleted, SessionRows
  <2> QED
    BY <2>1, <2>2, <2>3, <2>4
<1>4. ASSUME RecoveryFails(p) PROVE FilesAgree'
  <2>1. KeysAgree' /\ AttachedAgree' /\ StoredAgree'
    BY <1>4 DEF RecoveryFails, SessionRows
  <2>2. LockAgrees'
    BY <1>4 DEF RecoveryFails, SessionRows
  <2>3. CleaningAgrees' /\ UploadsAgree'
    BY <1>4 DEF RecoveryFails, SessionRows
  <2>4. FileLostOnlyIfOvertaken' /\ CleanedIsGone'
    BY <1>4 DEF RecoveryFails, SessionRows
  <2> QED
    BY <2>1, <2>2, <2>3, <2>4
<1> QED
  BY <1>1, <1>2, <1>3, <1>4

LEMMA ClaimFiles ==
    ASSUME FilesInv, NEW w \in Workers, NEW s \in Sessions
    PROVE  /\ ClaimRecovery(w, s) => FilesAgree'
           /\ ClaimValidation(w, s) => FilesAgree'
           /\ StartCleaning(w, s) => FilesAgree'
<1> USE DeliveriesAssumption
     DEF FilesInv, FilesAgree, KeysAgree, LockAgrees, AttachedAgree, StoredAgree, CleaningAgrees, UploadsAgree,
         FileLostOnlyIfOvertaken, CleanedIsGone, DeliveriesTypeOK, SetRow, Job, Continue, Stop, At, Terminal,
         Processes, Keys, storage, OrderFree, Holds, Accepts, HasRoom
<1>1. ASSUME ClaimRecovery(w, s) PROVE FilesAgree'
  <2>1. KeysAgree' /\ AttachedAgree' /\ StoredAgree'
    BY <1>1 DEF ClaimRecovery, SessionRows
  <2>2. LockAgrees'
    BY <1>1 DEF ClaimRecovery, SessionRows
  <2>3. CleaningAgrees' /\ UploadsAgree'
    BY <1>1 DEF ClaimRecovery, SessionRows
  <2>4. FileLostOnlyIfOvertaken' /\ CleanedIsGone'
    BY <1>1 DEF ClaimRecovery, SessionRows
  <2> QED
    BY <2>1, <2>2, <2>3, <2>4
<1>2. ASSUME ClaimValidation(w, s) PROVE FilesAgree'
  <2>1. KeysAgree' /\ AttachedAgree' /\ StoredAgree'
    BY <1>2 DEF ClaimValidation, SessionRows, Attaching
  <2>2. LockAgrees'
    BY <1>2 DEF ClaimValidation, SessionRows, Attaching
  <2>3. CleaningAgrees' /\ UploadsAgree'
    BY <1>2 DEF ClaimValidation, SessionRows, Attaching
  <2>4. FileLostOnlyIfOvertaken' /\ CleanedIsGone'
    BY <1>2 DEF ClaimValidation, SessionRows, Attaching
  <2> QED
    BY <2>1, <2>2, <2>3, <2>4
<1>3. ASSUME StartCleaning(w, s) PROVE FilesAgree'
  <2>1. KeysAgree' /\ AttachedAgree' /\ StoredAgree'
    BY <1>3 DEF StartCleaning
  <2>2. LockAgrees'
    BY <1>3 DEF StartCleaning
  <2>3. CleaningAgrees' /\ UploadsAgree'
    BY <1>3 DEF StartCleaning
  <2>4. FileLostOnlyIfOvertaken' /\ CleanedIsGone'
    BY <1>3 DEF StartCleaning
  <2> QED
    BY <2>1, <2>2, <2>3, <2>4
<1> QED
  BY <1>1, <1>2, <1>3

LEMMA WorkerFiles ==
    ASSUME FilesInv, NEW w \in Workers
    PROVE  /\ RenewLease(w) => FilesAgree'
           /\ BeginAttach(w) => FilesAgree'
           /\ CommitAttach(w) => FilesAgree'
           /\ AbandonAttach(w) => FilesAgree'
           /\ EndValidation(w) => FilesAgree'
           /\ CleanStorage(w) => FilesAgree'
           /\ MarkCleaned(w) => FilesAgree'
<1> USE DeliveriesAssumption
     DEF FilesInv, FilesAgree, KeysAgree, LockAgrees, AttachedAgree, StoredAgree, CleaningAgrees, UploadsAgree,
         FileLostOnlyIfOvertaken, CleanedIsGone, DeliveriesTypeOK, SetRow, Job, Continue, Stop, At, Terminal,
         Processes, Keys, storage, OrderFree, Holds, Accepts, HasRoom
<1>1. ASSUME RenewLease(w) PROVE FilesAgree'
  <2>1. KeysAgree' /\ AttachedAgree' /\ StoredAgree'
    BY <1>1 DEF RenewLease, SessionRows
  <2>2. LockAgrees'
    BY <1>1 DEF RenewLease, SessionRows
  <2>3. CleaningAgrees' /\ UploadsAgree'
    BY <1>1 DEF RenewLease, SessionRows
  <2>4. FileLostOnlyIfOvertaken' /\ CleanedIsGone'
    BY <1>1 DEF RenewLease, SessionRows
  <2> QED
    BY <2>1, <2>2, <2>3, <2>4
<1>2. ASSUME BeginAttach(w) PROVE FilesAgree'
  <2>1. KeysAgree' /\ AttachedAgree' /\ StoredAgree'
    BY <1>2 DEF BeginAttach, Owned
  <2>2. LockAgrees'
    BY <1>2 DEF BeginAttach, Owned
  <2>3. CleaningAgrees' /\ UploadsAgree'
    BY <1>2 DEF BeginAttach, Owned
  <2>4. FileLostOnlyIfOvertaken' /\ CleanedIsGone'
    BY <1>2 DEF BeginAttach, Owned
  <2> QED
    BY <2>1, <2>2, <2>3, <2>4
<1>3. ASSUME CommitAttach(w) PROVE FilesAgree'
  <2>1. KeysAgree' /\ AttachedAgree' /\ StoredAgree'
    BY <1>3 DEF CommitAttach, SessionRows
  <2>2. LockAgrees'
    BY <1>3 DEF CommitAttach, SessionRows
  <2>3. CleaningAgrees' /\ UploadsAgree'
    BY <1>3 DEF CommitAttach, SessionRows
  <2>4. FileLostOnlyIfOvertaken' /\ CleanedIsGone'
    BY <1>3 DEF CommitAttach, SessionRows
  <2> QED
    BY <2>1, <2>2, <2>3, <2>4
<1>4. ASSUME AbandonAttach(w) PROVE FilesAgree'
  <2>1. KeysAgree' /\ AttachedAgree' /\ StoredAgree'
    BY <1>4 DEF AbandonAttach
  <2>2. LockAgrees'
    BY <1>4 DEF AbandonAttach
  <2>3. CleaningAgrees' /\ UploadsAgree'
    BY <1>4 DEF AbandonAttach
  <2>4. FileLostOnlyIfOvertaken' /\ CleanedIsGone'
    BY <1>4 DEF AbandonAttach
  <2> QED
    BY <2>1, <2>2, <2>3, <2>4
<1>5. ASSUME EndValidation(w) PROVE FilesAgree'
  <2>1. KeysAgree' /\ AttachedAgree' /\ StoredAgree'
    BY <1>5 DEF EndValidation, SessionRows
  <2>2. LockAgrees'
    BY <1>5 DEF EndValidation, SessionRows
  <2>3. CleaningAgrees' /\ UploadsAgree'
    BY <1>5 DEF EndValidation, SessionRows
  <2>4. FileLostOnlyIfOvertaken' /\ CleanedIsGone'
    BY <1>5 DEF EndValidation, SessionRows
  <2> QED
    BY <2>1, <2>2, <2>3, <2>4
<1>6. ASSUME CleanStorage(w) PROVE FilesAgree'
  <2> DEFINE key == jobs[w].key
  <2>1. CASE At(w, "ABORT")
    <3>1. /\ key \in Sessions
          /\ multipart' = [multipart EXCEPT ![key] = "GONE"]
          /\ jobs' = [jobs EXCEPT ![w].step = "DELETE"]
          /\ UNCHANGED <<order, deliveries, sessions, removing, objects, overtaken>>
      BY <1>6, <2>1 DEF CleanStorage
    <3>2. KeysAgree' /\ AttachedAgree' /\ StoredAgree'
      BY <3>1, <2>1
    <3>3. LockAgrees'
      BY <3>1, <2>1
    <3>4. CleaningAgrees' /\ UploadsAgree'
      BY <3>1, <2>1
    <3>5. FileLostOnlyIfOvertaken' /\ CleanedIsGone'
      BY <3>1
    <3> QED
      BY <3>2, <3>3, <3>4, <3>5
  <2>2. CASE At(w, "DELETE")
    <3>1. /\ key \in Sessions
          /\ objects' = objects \ {key}
          /\ jobs' = [jobs EXCEPT ![w].step = "CLEAN"]
          /\ UNCHANGED <<order, deliveries, sessions, removing, multipart, overtaken>>
      BY <1>6, <2>2 DEF CleanStorage
    <3>2. KeysAgree' /\ AttachedAgree'
      BY <3>1, <2>2
    <3>3. StoredAgree'
      BY <3>1, <2>2
    <3>4. LockAgrees'
      BY <3>1, <2>2
    <3>5. CleaningAgrees' /\ UploadsAgree'
      BY <3>1, <2>2
    <3>6. FileLostOnlyIfOvertaken' /\ CleanedIsGone'
      BY <3>1, <2>2
    <3> QED
      BY <3>2, <3>3, <3>4, <3>5, <3>6
  <2> QED
    BY <1>6, <2>1, <2>2 DEF CleanStorage
<1>7. ASSUME MarkCleaned(w) PROVE FilesAgree'
  <2>1. KeysAgree' /\ AttachedAgree' /\ StoredAgree'
    BY <1>7 DEF MarkCleaned, SessionRows
  <2>2. LockAgrees'
    BY <1>7 DEF MarkCleaned, SessionRows
  <2>3. CleaningAgrees' /\ UploadsAgree'
    BY <1>7 DEF MarkCleaned, SessionRows
  <2>4. FileLostOnlyIfOvertaken' /\ CleanedIsGone'
    BY <1>7 DEF MarkCleaned, SessionRows
  <2> QED
    BY <2>1, <2>2, <2>3, <2>4
<1> QED
  BY <1>1, <1>2, <1>3, <1>4, <1>5, <1>6, <1>7

LEMMA UploadFiles ==
    ASSUME FilesInv, NEW u \in Uploads
    PROVE  /\ PrepareOrder(u) => FilesAgree'
           /\ WriteObject(u) => FilesAgree'
           /\ PersistDelivery(u) => FilesAgree'
           /\ PersistFails(u) => FilesAgree'
           /\ Compensate(u) => FilesAgree'
<1> USE DeliveriesAssumption
     DEF FilesInv, FilesAgree, KeysAgree, LockAgrees, AttachedAgree, StoredAgree, CleaningAgrees, UploadsAgree,
         FileLostOnlyIfOvertaken, CleanedIsGone, DeliveriesTypeOK, SetRow, Job, Continue, Stop, At, Terminal,
         Processes, Keys, storage, OrderFree, Holds, Accepts, HasRoom
<1>1. ASSUME PrepareOrder(u) PROVE FilesAgree'
  BY <1>1 DEF PrepareOrder
<1>2. ASSUME WriteObject(u) PROVE FilesAgree'
  BY <1>2 DEF WriteObject
<1>3. ASSUME PersistDelivery(u) PROVE FilesAgree'
  BY <1>3 DEF PersistDelivery
<1>4. ASSUME PersistFails(u) PROVE FilesAgree'
  BY <1>4 DEF PersistFails
<1>5. ASSUME Compensate(u) PROVE FilesAgree'
  BY <1>5 DEF Compensate
<1> QED
  BY <1>1, <1>2, <1>3, <1>4, <1>5

LEMMA OrderFiles ==
    ASSUME FilesInv, OrderStep
    PROVE  FilesAgree'
<1> USE DeliveriesAssumption
     DEF FilesInv, FilesAgree, KeysAgree, LockAgrees, AttachedAgree, StoredAgree, CleaningAgrees, UploadsAgree,
         FileLostOnlyIfOvertaken, CleanedIsGone, DeliveriesTypeOK, SetRow, Job, Continue, Stop, At, Terminal,
         Processes, Keys, storage, OrderFree, Holds, Accepts, HasRoom
<1>1. ASSUME NEW k \in Keys, DetachDelivery(k) PROVE FilesAgree'
  BY <1>1 DEF DetachDelivery
<1>2. ASSUME NEW k \in Keys, DeleteDetached(k) PROVE FilesAgree'
  BY <1>2 DEF DeleteDetached
<1>3. CASE Publish
  BY <1>3 DEF Publish
<1>4. ASSUME NEW to \in OrderStates, MoveOrder(to) PROVE FilesAgree'
  BY <1>4 DEF MoveOrder
<1> QED
  BY <1>1, <1>2, <1>3, <1>4 DEF OrderStep

LEMMA EnvironmentFiles ==
    ASSUME FilesInv, Environment
    PROVE  FilesAgree'
<1> USE DeliveriesAssumption
     DEF FilesInv, FilesAgree, KeysAgree, LockAgrees, AttachedAgree, StoredAgree, CleaningAgrees, UploadsAgree,
         FileLostOnlyIfOvertaken, CleanedIsGone, DeliveriesTypeOK, SetRow, Job, Continue, Stop, At, Terminal,
         Processes, Keys, storage, OrderFree, Holds, Accepts, HasRoom
<1>1. ASSUME NEW p \in Processes, Crash(p) PROVE FilesAgree'
  BY <1>1 DEF Crash
<1>2. ASSUME NEW s \in Sessions, PassDeadline(s) PROVE FilesAgree'
  BY <1>2 DEF PassDeadline, SessionRows, Expirable
<1>3. ASSUME NEW s \in Sessions, ExpireLease(s) PROVE FilesAgree'
  BY <1>3 DEF ExpireLease, SessionRows
<1>4. ASSUME NEW s \in Sessions, SendParts(s) PROVE FilesAgree'
  BY <1>4 DEF SendParts
<1> QED
  BY <1>1, <1>2, <1>3, <1>4 DEF Environment

LEMMA FilesStep == FilesInv /\ [Next]_vars => FilesInv'
<1> SUFFICES ASSUME FilesInv, [Next]_vars PROVE FilesAgree'
  BY TypeStep DEF FilesInv, FilesAgree
<1>1. ASSUME NEW s \in Sessions, SessionStep(s) PROVE FilesAgree'
  BY <1>1, RequestFiles, RecoveryFiles DEF SessionStep, Recovery
<1>2. ASSUME NEW w \in Workers, WorkerStep(w) PROVE FilesAgree'
  BY <1>2, ClaimFiles, WorkerFiles, RecoveryFiles DEF WorkerStep, Recovery
<1>3. ASSUME NEW u \in Uploads, UploadStep(u) PROVE FilesAgree'
  BY <1>3, UploadFiles DEF UploadStep
<1>4. CASE OrderStep
  BY <1>4, OrderFiles
<1>5. CASE Environment
  BY <1>5, EnvironmentFiles
<1>6. CASE UNCHANGED vars
  BY <1>6 DEF vars, FilesInv, FilesAgree, KeysAgree, LockAgrees, AttachedAgree, StoredAgree, CleaningAgrees,
              UploadsAgree, FileLostOnlyIfOvertaken, CleanedIsGone, At, Holds, Accepts, HasRoom
<1> QED
  BY <1>1, <1>2, <1>3, <1>4, <1>5, <1>6 DEF Next

LEMMA FilesInit == Init => FilesInv
<1> SUFFICES ASSUME Init PROVE FilesAgree
  BY InitType DEF FilesInv
<1> QED
  BY DEF Init, FilesAgree, KeysAgree, LockAgrees, AttachedAgree, StoredAgree, CleaningAgrees, UploadsAgree,
         FileLostOnlyIfOvertaken, CleanedIsGone, At, Processes, NoRow

LEMMA FilesInvariant == Spec => []FilesInv
BY FilesInit, FilesStep, PTL DEF Spec

(* Every reachable state of the uploads of an order is well typed: no worker works for  *)
(* a session that does not exist, no row takes a status the code does not know.         *)
THEOREM DeliveriesTypeCorrect == Spec => []DeliveriesTypeOK
<1>1. FilesInv => DeliveriesTypeOK
  BY DEF FilesInv
<1> QED
  BY <1>1, FilesInvariant, PTL

(* The file behind a deliverable that a worker attached is in the storage, whatever     *)
(* workers die, hang or overlap, unless the lease of that session ran out and another   *)
(* worker claimed it after the check of delivery-direct-worker.ts:55 and before the     *)
(* commit of the same transaction, which tests nothing again.                           *)
THEOREM FilesStayBehindDeliveries == Spec => []FileLostOnlyIfOvertaken
<1>1. FilesInv => FileLostOnlyIfOvertaken
  BY DEF FilesInv, FilesAgree
<1> QED
  BY <1>1, FilesInvariant, PTL

(* Nothing comes back to a session that was cleaned (cleanupDeliveryUploadSessions).    *)
THEOREM CleanedStaysGone == Spec => []CleanedIsGone
<1>1. FilesInv => CleanedIsGone
  BY DEF FilesInv, FilesAgree
<1> QED
  BY <1>1, FilesInvariant, PTL

-----------------------------------------------------------------------------
(* The number of deliverables, and what is published.                         *)

Counted == IsFiniteSet(deliveries) /\ WithinLimit

LEMMA OneMoreDelivery ==
    ASSUME Counted, HasRoom, NEW k, deliveries' = deliveries \cup {k}
    PROVE  Counted'
<1>1. Cardinality(deliveries) \in Nat
  BY FS_CardinalityType DEF Counted
<1>2. /\ IsFiniteSet(deliveries \cup {k})
      /\ Cardinality(deliveries \cup {k}) \in {Cardinality(deliveries), Cardinality(deliveries) + 1}
  BY FS_AddElement DEF Counted
<1> QED
  BY <1>1, <1>2, DeliveriesAssumption DEF Counted, HasRoom, WithinLimit

LEMMA OneDeliveryLess ==
    ASSUME Counted, NEW k, deliveries' = deliveries \ {k}
    PROVE  Counted'
<1>1. Cardinality(deliveries) \in Nat
  BY FS_CardinalityType DEF Counted
<1>2. /\ IsFiniteSet(deliveries \ {k})
      /\ Cardinality(deliveries \ {k}) \in {Cardinality(deliveries), Cardinality(deliveries) - 1}
  BY FS_RemoveElement DEF Counted
<1> QED
  BY <1>1, <1>2, DeliveriesAssumption DEF Counted, WithinLimit

(* What a step may do to the deliverables of an order.                        *)
LEMMA DeliverySteps ==
    ASSUME FilesInv, [Next]_vars
    PROVE  \/ UNCHANGED deliveries
           \/ Accepts /\ HasRoom /\ \E k : deliveries' = deliveries \cup {k}
           \/ Accepts /\ \E k : deliveries' = deliveries \ {k}
<1> USE DEF vars, storage
<1>1. ASSUME NEW s \in Sessions, SessionStep(s) PROVE UNCHANGED deliveries
  BY <1>1 DEF SessionStep, ReserveUpload, CreateMultipart, CreateFails, StoreUpload, UndoCreate, RefuseUpload,
              ClaimCompletion, Recovery, Verify, CompleteMultipart, MarkCompleted, RecoveryFails, AbortUpload,
              ExpireSession
<1>2. ASSUME NEW w \in Workers, WorkerStep(w), ~CommitAttach(w) PROVE UNCHANGED deliveries
  BY <1>2 DEF WorkerStep, ClaimRecovery, ClaimValidation, StartCleaning, Recovery, Verify, CompleteMultipart,
              MarkCompleted, RecoveryFails, RenewLease, BeginAttach, AbandonAttach, EndValidation, CleanStorage,
              MarkCleaned
<1>3. ASSUME NEW w \in Workers, CommitAttach(w)
      PROVE  Accepts /\ HasRoom /\ \E k : deliveries' = deliveries \cup {k}
  BY <1>3 DEF CommitAttach, FilesInv, FilesAgree, LockAgrees
<1>4. ASSUME NEW u \in Uploads, UploadStep(u), ~PersistDelivery(u) PROVE UNCHANGED deliveries
  BY <1>4 DEF UploadStep, PrepareOrder, WriteObject, PersistFails, Compensate
<1>5. ASSUME NEW u \in Uploads, PersistDelivery(u)
      PROVE  Accepts /\ HasRoom /\ \E k : deliveries' = deliveries \cup {k}
  BY <1>5 DEF PersistDelivery
<1>6. CASE OrderStep
  BY <1>6 DEF OrderStep, DetachDelivery, DeleteDetached, Publish, MoveOrder
<1>7. CASE Environment
  BY <1>7 DEF Environment, Crash, PassDeadline, ExpireLease, SendParts
<1> QED
  BY <1>1, <1>2, <1>3, <1>4, <1>5, <1>6, <1>7 DEF Next

(* However many uploads of both kinds race for the last place, an order never has more  *)
(* deliverables than MAXIMUM_ORDER_DELIVERIES.                                          *)
THEOREM LimitKept == Spec => []WithinLimit
<1>1. Init => Counted
  BY FS_EmptySet, DeliveriesAssumption DEF Init, Counted, WithinLimit
<1>2. FilesInv /\ Counted /\ [Next]_vars => Counted'
  <2> SUFFICES ASSUME FilesInv, Counted, [Next]_vars PROVE Counted'
    OBVIOUS
  <2>1. CASE UNCHANGED deliveries
    BY <2>1 DEF Counted, WithinLimit
  <2> QED
    BY <2>1, DeliverySteps, OneMoreDelivery, OneDeliveryLess
<1>3. Counted => WithinLimit
  BY DEF Counted
<1> QED
  BY <1>1, <1>2, <1>3, FilesInvariant, PTL DEF Spec

(* The deliverables of a published order never change, although uploads and removals    *)
(* may be under way when transitionOrderStatus publishes it.                            *)
THEOREM PublishedDeliveriesStand == Spec => PublishedStands
<1>1. FilesInv /\ [Next]_vars => [order = "DELIVERED" => deliveries' = deliveries]_vars
  BY DeliverySteps DEF Accepts
<1> QED
  BY <1>1, FilesInvariant, PTL DEF Spec, PublishedStands
=============================================================================

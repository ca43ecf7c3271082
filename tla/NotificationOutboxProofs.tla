----------------------- MODULE NotificationOutboxProofs -----------------------
(***************************************************************************)
(* Proofs about NotificationOutbox, for every set of rows, addresses and    *)
(* workers and every bound.                                                 *)
(***************************************************************************)
EXTENDS NotificationOutbox, WellFoundedInduction, TLAPS

Columns == {"status", "attempts", "lease", "due", "known", "deliveredAt", "failedAt", "soft"}

(* The part of the type invariant that most of the proofs below need. *)
Shape ==
    /\ DOMAIN rows = Notices
    /\ \A n \in Notices : DOMAIN rows[n] = Columns /\ rows[n].attempts \in Nat
    /\ suppressed \in [Recipients -> [active : BOOLEAN, manual : BOOLEAN, at : Nat]]
    /\ DOMAIN batch = Workers
    /\ workers \in [Workers -> [notice : SUBSET Notices, phase : {"IDLE", "CLAIMED", "SENT", "RETRY", "FINAL"}]]
    /\ age \in [Notices -> {"NONE", "SAFE", "UNSAFE"}]
    /\ clock \in Nat \ {0}
    /\ mails \in [Notices -> Nat]
    /\ kept \subseteq Notices
    /\ emitted \subseteq Events

(* AtMostOneMail is not inductive.  A second mail needs a provider that forgot the    *)
(* key and a worker that still sends; the first means that the first claim is old,    *)
(* and an old claim is refused.                                                       *)
MailAgrees ==
    /\ \A n \in Notices :
        /\ mails[n] <= 1
        /\ age[n] = "NONE" <=> rows[n].attempts = 0
        /\ n \in kept => mails[n] = 1
        /\ mails[n] = 1 => age[n] # "NONE"
        /\ mails[n] = 1 /\ n \notin kept =>
            age[n] = "UNSAFE" /\ \A w \in Workers : ~Holds(w, n, "CLAIMED")
    /\ \A w \in Workers, n \in Notices : Holds(w, n, "CLAIMED") => age[n] # "NONE"

MailInv == Shape /\ MailAgrees

-----------------------------------------------------------------------------
(* Shape, operation by operation.                                             *)

(* What an event leaves alone. *)
Same(new, row) == DOMAIN new = DOMAIN row /\ new.attempts = row.attempts /\ new.known = row.known

LEMMA MovedShape ==
    ASSUME NEW row, DOMAIN row = Columns
    PROVE  \A status, d, f, s : Same(Moved(row, status, d, f, s), row)
BY DEF Moved, Columns, Same

LEMMA AppliedShape ==
    ASSUME NEW row, DOMAIN row = Columns, NEW e, e.kind \in MailEvents
    PROVE  Same(Applied(row, e), row)
<1>0. Same(row, row)
  BY DEF Same
<1>1. Same(Sent(row), row)
  BY <1>0 DEF Sent, Columns, Same
<1>2. Same(Delivered(row, e.at), row)
  BY <1>0, MovedShape, Zenon DEF Delivered
<1>3. Same(Bounced(row, e.at, TRUE), row) /\ Same(Bounced(row, e.at, FALSE), row)
  BY <1>0, MovedShape, Zenon DEF Bounced
<1>4. Same(Complained(row, e.at), row)
  BY <1>0, MovedShape, Zenon DEF Complained
<1>5. Same(Failed(row, e.at), row)
  BY <1>0, MovedShape, Zenon DEF Failed
<1>6. Same(SuppressedBy(row, e.at), row)
  BY <1>0, MovedShape, Zenon DEF SuppressedBy
<1> QED
  BY <1>1, <1>2, <1>3, <1>4, <1>5, <1>6 DEF Applied, MailEvents

LEMMA WithdrawnShape ==
    ASSUME Shape, NEW r, NEW at
    PROVE  /\ DOMAIN Withdrawn(r, at) = Notices
           /\ \A n \in Notices :
                /\ DOMAIN Withdrawn(r, at)[n] = Columns
                /\ Withdrawn(r, at)[n].attempts = rows[n].attempts
                /\ Withdrawn(r, at)[n].known = rows[n].known
BY DEF Shape, Withdrawn, Columns

LEMMA WebhookRows ==
    ASSUME Shape, NEW e, Webhook(e)
    PROVE  /\ DOMAIN rows' = Notices
           /\ \A n \in Notices :
                DOMAIN rows'[n] = Columns /\ rows'[n].attempts = rows[n].attempts /\ rows'[n].known = rows[n].known
<1> DEFINE Good(new) ==
        /\ DOMAIN new = Notices
        /\ \A n \in Notices :
            DOMAIN new[n] = Columns /\ new[n].attempts = rows[n].attempts /\ new[n].known = rows[n].known
<1>1. Good(rows)
  BY DEF Shape
<1>2. \A r : Good(WithdrawnBy(r, e))
  BY <1>1, WithdrawnShape DEF WithdrawnBy
<1>3. CASE AddressEvent(e)
  BY <1>2, <1>3 DEF AddressEvent
<1>4. CASE MailEvent(e)
  <2>1. e.about \in Notices /\ e.kind \in MailEvents
    BY <1>4 DEF Webhook, MailEvent, Events, MailEvents, Shape
  <2> DEFINE after == IF e.kind \in Suppressing THEN WithdrawnBy(To[e.about], e) ELSE rows
  <2>2. Good(after)
    BY <1>1, <1>2
  <2>3. Same(Applied(after[e.about], e), after[e.about])
    BY <2>1, <2>2, AppliedShape
  <2>4. Good([after EXCEPT ![e.about] = Applied(@, e)])
    BY <2>1, <2>2, <2>3 DEF Same
  <2>5. rows' = after \/ rows' = [after EXCEPT ![e.about] = Applied(@, e)]
    BY <1>4 DEF MailEvent
  <2> HIDE DEF after
  <2> QED
    BY <2>2, <2>4, <2>5
<1> QED
  BY <1>3, <1>4 DEF Webhook

-----------------------------------------------------------------------------
(* Type correctness, and that rows move forward.                               *)

TypeInv == TypeOK /\ \A e \in unmatched : e.kind \in MailEvents

LEMMA ShapeIs == TypeInv => Shape
<1> SUFFICES ASSUME TypeInv
             PROVE  Shape
  OBVIOUS
<1> USE DEF TypeInv, TypeOK
<1>1. \A row \in Rows : DOMAIN row = Columns /\ row.attempts \in Nat
  BY OutboxAssumption DEF Rows, Columns
<1>2. Instants \subseteq Nat
  BY OutboxAssumption DEF Instants
<1>3. suppressed \in [Recipients -> [active : BOOLEAN, manual : BOOLEAN, at : Nat]]
  BY <1>2
<1>4. clock \in Nat \ {0}
  BY OutboxAssumption
<1> QED
  BY <1>1, <1>3, <1>4 DEF Shape

(* Where a row may go. *)
Forward(new, row) == new \in Rows /\ Rank[new.status] >= Rank[row.status]

LEMMA RankIs == \A s \in Statuses : Rank[s] \in 0..5
BY DEF Rank, Statuses, Queued, Ended

LEMMA ForwardSame == \A row \in Rows : Forward(row, row)
BY RankIs DEF Forward, Rows

LEMMA ForwardChain ==
    ASSUME NEW a \in Rows, NEW b, NEW c, Forward(b, a), Forward(c, b)
    PROVE  Forward(c, a)
<1>1. b \in Rows /\ c \in Rows
  BY DEF Forward
<1>2. Rank[a.status] \in 0..5 /\ Rank[b.status] \in 0..5 /\ Rank[c.status] \in 0..5
  BY <1>1, RankIs DEF Rows
<1> QED
  BY <1>1, <1>2 DEF Forward

LEMMA MovedForward ==
    ASSUME NEW row \in Rows, NEW status \in Statuses, NEW d \in Instants, NEW f \in Instants, NEW s \in BOOLEAN,
           Rank[status] >= Rank[row.status]
    PROVE  Forward(Moved(row, status, d, f, s), row)
<1>1. Moved(row, status, d, f, s) \in Rows
  BY DEF Moved, Rows
<1>2. Moved(row, status, d, f, s).status = status
  BY DEF Moved, Rows
<1> QED
  BY <1>1, <1>2 DEF Forward

(* Whatever event is applied, and whenever. *)
LEMMA AppliedForward ==
    ASSUME NEW row \in Rows, NEW e, e.kind \in MailEvents, e.at \in Instants
    PROVE  Forward(Applied(row, e), row)
<1> DEFINE at == e.at
<1>0. 0 \in Instants /\ TRUE \in BOOLEAN /\ FALSE \in BOOLEAN /\ row.deliveredAt \in Instants
  BY OutboxAssumption DEF Instants, Rows
<1>s. \A status \in {"SENT", "DELIVERED", "BOUNCED", "COMPLAINED", "FAILED_FINAL", "SUPPRESSED"} : status \in Statuses
  BY DEF Statuses, Ended
<1>1. Forward(Sent(row), row)
  <2>1. CASE row.status = "PROCESSING"
    <3>1. [row EXCEPT !.status = "SENT", !.lease = "NONE"] \in Rows
      BY <1>s DEF Rows
    <3>2. [row EXCEPT !.status = "SENT", !.lease = "NONE"].status = "SENT"
      BY DEF Rows
    <3>3. Rank["SENT"] >= Rank["PROCESSING"]
      BY DEF Rank
    <3> QED
      BY <2>1, <3>1, <3>2, <3>3, Zenon DEF Sent, Forward
  <2>2. CASE row.status # "PROCESSING"
    BY <2>2, ForwardSame DEF Sent
  <2> QED
    BY <2>1, <2>2
<1>2. Forward(Delivered(row, at), row)
  <2>1. CASE row.status \in {"PROCESSING", "SENT", "BOUNCED"}
    <3>1. Rank["DELIVERED"] >= Rank[row.status]
      BY <2>1 DEF Rank
    <3>2. Forward(Moved(row, "DELIVERED", at, 0, FALSE), row)
      BY <1>0, <1>s, <3>1, MovedForward
    <3> QED
      BY <3>2, ForwardSame DEF Delivered
  <2>2. CASE row.status \notin {"PROCESSING", "SENT", "BOUNCED"}
    BY <2>2, ForwardSame DEF Delivered
  <2> QED
    BY <2>1, <2>2
<1>3. ASSUME NEW soft \in BOOLEAN
      PROVE  Forward(Bounced(row, at, soft), row)
  <2>1. CASE row.status \in {"PROCESSING", "SENT", "FAILED_RETRYABLE"}
    <3>1. Rank["BOUNCED"] >= Rank[row.status]
      BY <2>1 DEF Rank
    <3>2. Forward(Moved(row, "BOUNCED", 0, at, soft), row)
      BY <1>0, <1>s, <3>1, MovedForward
    <3> QED
      BY <2>1, <3>2 DEF Bounced
  <2>2. CASE row.status \notin {"PROCESSING", "SENT", "FAILED_RETRYABLE"}
    BY <2>2, ForwardSame DEF Bounced
  <2> QED
    BY <2>1, <2>2
<1>4. Forward(Complained(row, at), row)
  <2>1. Rank["COMPLAINED"] >= Rank[row.status]
    <3>1. row.status \in Statuses
      BY DEF Rows
    <3> QED
      BY <3>1 DEF Rank, Statuses, Queued, Ended
  <2>2. Forward(Moved(row, "COMPLAINED", IF row.deliveredAt = 0 THEN at ELSE row.deliveredAt, at, FALSE), row)
    BY <1>0, <1>s, <2>1, MovedForward
  <2> QED
    BY <2>2, ForwardSame DEF Complained
<1>5. Forward(Failed(row, at), row)
  <2>1. CASE row.status \in {"PROCESSING", "SENT", "FAILED_RETRYABLE"}
    <3>1. Rank["FAILED_FINAL"] >= Rank[row.status]
      BY <2>1 DEF Rank
    <3>2. Forward(Moved(row, "FAILED_FINAL", 0, at, FALSE), row)
      BY <1>0, <1>s, <3>1, MovedForward
    <3> QED
      BY <2>1, <3>2 DEF Failed
  <2>2. CASE row.status \notin {"PROCESSING", "SENT", "FAILED_RETRYABLE"}
    BY <2>2, ForwardSame DEF Failed
  <2> QED
    BY <2>1, <2>2
<1>6. Forward(SuppressedBy(row, at), row)
  <2>1. CASE row.status \in {"PROCESSING", "SENT", "BOUNCED", "FAILED_RETRYABLE", "FAILED_FINAL"}
    <3>1. Rank["SUPPRESSED"] >= Rank[row.status]
      BY <2>1 DEF Rank
    <3>2. Forward(Moved(row, "SUPPRESSED", 0, at, FALSE), row)
      BY <1>0, <1>s, <3>1, MovedForward
    <3> QED
      BY <3>2, ForwardSame DEF SuppressedBy
  <2>2. CASE row.status \notin {"PROCESSING", "SENT", "BOUNCED", "FAILED_RETRYABLE", "FAILED_FINAL"}
    BY <2>2, ForwardSame DEF SuppressedBy
  <2> QED
    BY <2>1, <2>2
<1> QED
  BY <1>0, <1>1, <1>2, <1>3, <1>4, <1>5, <1>6 DEF Applied, MailEvents

(* A least number stands in for an induction: take the first date at which a claim     *)
(* fails, and look at the date before.                                                 *)
Below == {pair \in Nat \X Nat : pair[1] < pair[2]}

LEMMA LeastNumber ==
    ASSUME NEW T \in SUBSET Nat, T # {}
    PROVE  \E m \in T : \A k \in T : m <= k
<1>1. IsWellFoundedOn(Below, Nat)
  BY NatLessThanWellFounded, Zenon DEF OpToRel, Below
<1>2. T \subseteq Nat
  OBVIOUS
<1>3. PICK m \in T : \A k \in T : ~(<<k, m>> \in Below)
  BY <1>1, <1>2, WFMin, Zenon
<1>4. \A j, k \in Nat : j < k => <<j, k>> \in Below
  BY DEF Below
<1>5. \A k \in T : ~(k < m)
  BY <1>3, <1>4
<1> QED
  BY <1>5

(* The rows that Reconciled goes through up to a date. *)
Passed(f, n, last) ==
    f = [at \in 0..last |-> IF at = 0 THEN rows[n] ELSE AppliedAt(n, f[at - 1], at)]

LEMMA PassedExists == \A n : \A last \in Nat : \E f : Passed(f, n, last)
<1> SUFFICES ASSUME NEW n
             PROVE  \A last \in Nat : \E f : Passed(f, n, last)
  OBVIOUS
<1> DEFINE T == {last \in Nat : ~\E f : Passed(f, n, last)}
<1> SUFFICES ASSUME T # {}
             PROVE  FALSE
  OBVIOUS
<1>1. PICK m \in T : \A k \in T : m <= k
  BY LeastNumber, Zenon
<1>2. m \in Nat /\ m # 0
  <2>1. Passed([at \in 0..0 |-> rows[n]], n, 0)
    BY DEF Passed
  <2> QED
    BY <2>1
<1>3. PICK g : Passed(g, n, m - 1)
  BY <1>1, <1>2
<1> DEFINE f == [at \in 0..m |-> IF at = m THEN AppliedAt(n, g[m - 1], m) ELSE g[at]]
<1>4. \A at \in 0..m - 1 : f[at] = g[at]
  BY <1>2
<1>5. \A at \in 0..m - 1 : g[at] = IF at = 0 THEN rows[n] ELSE AppliedAt(n, g[at - 1], at)
  BY <1>2, <1>3 DEF Passed
<1>6. \A at \in 0..m : f[at] = IF at = 0 THEN rows[n] ELSE AppliedAt(n, f[at - 1], at)
  <2> TAKE at \in 0..m
  <2>1. CASE at = m
    <3>1. f[at] = AppliedAt(n, g[m - 1], m) /\ f[m - 1] = g[m - 1]
      BY <1>2, <1>4, <2>1
    <3> QED
      BY <1>2, <2>1, <3>1
  <2>2. CASE at # m
    <3>1. at \in 0..m - 1 /\ (at # 0 => at - 1 \in 0..m - 1)
      BY <1>2, <2>2
    <3> QED
      BY <1>4, <1>5, <3>1
  <2> QED
    BY <2>1, <2>2
<1>7. f = [at \in 0..m |-> f[at]]
  OBVIOUS
<1> HIDE DEF f
<1>8. Passed(f, n, m)
  BY <1>6, <1>7 DEF Passed
<1> QED
  BY <1>8

(* What learning its mail makes of a row. *)
LEMMA ReconciledForward ==
    ASSUME TypeInv, NEW n \in Notices
    PROVE  Forward(Reconciled(n), rows[n])
<1> DEFINE last == MaxEvents + 1
           row == CHOOSE f : Passed(f, n, last)
<1>1. last \in Nat /\ Instants = 0..last
  BY OutboxAssumption DEF Instants
<1>2. Passed(row, n, last)
  BY <1>1, PassedExists, Zenon
<1>3. Reconciled(n) = row[last]
  BY <1>1, Zenon DEF Reconciled, Passed
<1>4. \A at \in 0..last : row[at] = IF at = 0 THEN rows[n] ELSE AppliedAt(n, row[at - 1], at)
  BY <1>2 DEF Passed
<1> HIDE DEF row, last
<1>5. rows[n] \in Rows
  BY DEF TypeInv, TypeOK
<1>6. ASSUME NEW at \in Instants, NEW before, Forward(before, rows[n])
      PROVE  Forward(AppliedAt(n, before, at), rows[n])
  <2>1. CASE \E e \in Early(n) : e.at = at
    <3> DEFINE e == CHOOSE x \in Early(n) : x.at = at
    <3>1. e \in Early(n) /\ e.at = at
      BY <2>1
    <3>2. e.kind \in MailEvents
      BY <3>1 DEF Early, TypeInv
    <3>3. AppliedAt(n, before, at) = Applied(before, e)
      BY <2>1 DEF AppliedAt
    <3> HIDE DEF e
    <3>4. Forward(Applied(before, e), before)
      BY <1>6, <3>1, <3>2, AppliedForward DEF Forward
    <3> QED
      BY <1>5, <1>6, <3>3, <3>4, ForwardChain
  <2>2. CASE ~\E e \in Early(n) : e.at = at
    BY <1>6, <2>2 DEF AppliedAt
  <2> QED
    BY <2>1, <2>2
<1>7. \A at \in 0..last : Forward(row[at], rows[n])
  <2> DEFINE T == {at \in Nat : at \in 0..last /\ ~Forward(row[at], rows[n])}
  <2> SUFFICES ASSUME T # {}
               PROVE  FALSE
    BY <1>1
  <2>1. PICK m \in T : \A k \in T : m <= k
    BY LeastNumber, Zenon
  <2>2. m # 0
    BY <1>1, <1>4, <1>5, ForwardSame
  <2>3. m - 1 \in 0..last /\ m - 1 \notin T
    BY <1>1, <2>1, <2>2
  <2>4. Forward(row[m - 1], rows[n])
    BY <1>1, <2>3
  <2>5. Forward(AppliedAt(n, row[m - 1], m), rows[n])
    BY <1>1, <1>6, <2>4
  <2> QED
    BY <1>4, <2>2, <2>5
<1> QED
  BY <1>1, <1>3, <1>7

(* The rows after a step. *)
Moves == rows' \in [Notices -> Rows] /\ \A n \in Notices : Forward(rows'[n], rows[n])

LEMMA NoRowMoves == TypeInv /\ UNCHANGED rows => Moves
BY ForwardSame DEF TypeInv, TypeOK, Moves

LEMMA OneRowMoves ==
    ASSUME TypeInv, NEW n \in Notices, NEW row, Forward(row, rows[n]), rows' = [rows EXCEPT ![n] = row]
    PROVE  Moves
<1>1. rows \in [Notices -> Rows]
  BY DEF TypeInv, TypeOK
<1>2. row \in Rows
  BY DEF Forward
<1>3. \A m \in Notices : rows'[m] = IF m = n THEN row ELSE rows[m]
  BY <1>1
<1>4. rows' \in [Notices -> Rows]
  BY <1>1, <1>2
<1> QED
  BY <1>1, <1>3, <1>4, ForwardSame DEF Moves

LEMMA WithdrawnForward ==
    ASSUME TypeInv, NEW r, NEW at \in Instants
    PROVE  Withdrawn(r, at) \in [Notices -> Rows] /\ \A n \in Notices : Forward(Withdrawn(r, at)[n], rows[n])
<1>1. ASSUME NEW n \in Notices
      PROVE  Forward(Withdrawn(r, at)[n], rows[n])
  <2>1. rows[n] \in Rows
    BY DEF TypeInv, TypeOK
  <2>2. CASE To[n] = r /\ rows[n].status \in {"PENDING", "FAILED_RETRYABLE"}
    <3> DEFINE row == [rows[n] EXCEPT !.status = "SUPPRESSED", !.failedAt = at, !.soft = FALSE]
    <3>1. row \in Rows /\ row.status = "SUPPRESSED"
      BY <2>1 DEF Rows, Statuses, Ended
    <3>2. Rank["SUPPRESSED"] >= Rank[rows[n].status]
      BY <2>2 DEF Rank
    <3>3. Withdrawn(r, at)[n] = row
      BY <2>2 DEF Withdrawn
    <3> QED
      BY <3>1, <3>2, <3>3 DEF Forward
  <2>3. CASE ~(To[n] = r /\ rows[n].status \in {"PENDING", "FAILED_RETRYABLE"})
    <3>1. Withdrawn(r, at)[n] = rows[n]
      BY <2>3 DEF Withdrawn
    <3> QED
      BY <2>1, <3>1, ForwardSame
  <2> QED
    BY <2>2, <2>3
<1>2. Withdrawn(r, at) = [n \in Notices |-> Withdrawn(r, at)[n]]
  BY DEF Withdrawn
<1> QED
  BY <1>1, <1>2 DEF Forward

(* Ending a claim, with or without a retry. *)
LEMMA StoppedForward ==
    ASSUME TypeInv, NEW n \in Notices, rows[n].status \in Queued, NEW status \in {"FAILED_FINAL", "SUPPRESSED"}
    PROVE  /\ Forward(Stopped(rows[n], status), rows[n])
           /\ Forward([Stopped(rows[n], status) EXCEPT !.due = TRUE], rows[n])
<1>1. rows[n] \in Rows /\ clock \in Instants
  BY OutboxAssumption DEF TypeInv, TypeOK, Instants
<1>2. Rank[status] >= Rank[rows[n].status]
  BY DEF Rank, Queued
<1>3. Stopped(rows[n], status) \in Rows /\ Stopped(rows[n], status).status = status
  BY <1>1 DEF Stopped, Rows, Statuses, Ended
<1>4. [Stopped(rows[n], status) EXCEPT !.due = TRUE] \in Rows
  BY <1>3 DEF Rows
<1>5. [Stopped(rows[n], status) EXCEPT !.due = TRUE].status = status
  BY <1>3 DEF Rows
<1> QED
  BY <1>2, <1>3, <1>4, <1>5 DEF Forward

LEMMA WebhookMoves ==
    ASSUME TypeInv, NEW e \in emitted, Webhook(e)
    PROVE  Moves
<1>1. e \in Events /\ e.at \in Instants
  BY DEF TypeInv, TypeOK, Events
<1> DEFINE Good(new) == new \in [Notices -> Rows] /\ \A n \in Notices : Forward(new[n], rows[n])
<1>2. Good(rows)
  BY ForwardSame DEF TypeInv, TypeOK
<1>3. \A r : Good(WithdrawnBy(r, e))
  BY <1>1, <1>2, WithdrawnForward DEF WithdrawnBy
<1>4. CASE AddressEvent(e)
  BY <1>3, <1>4 DEF AddressEvent, Moves
<1>5. CASE MailEvent(e)
  <2> DEFINE n == e.about
             after == IF e.kind \in Suppressing THEN WithdrawnBy(To[n], e) ELSE rows
             new == [after EXCEPT ![n] = Applied(@, e)]
  <2>1. n \in Notices /\ e.kind \in MailEvents
    BY <1>1, <1>5 DEF MailEvent, Events, MailEvents
  <2>2. Good(after)
    BY <1>2, <1>3
  <2>3. rows' = after \/ rows' = new
    BY <1>5 DEF MailEvent
  <2>4. rows[n] \in Rows
    BY <2>1 DEF TypeInv, TypeOK
  <2> HIDE DEF after
  <2>5. Forward(Applied(after[n], e), after[n])
    BY <1>1, <2>1, <2>2, AppliedForward
  <2>6. Forward(Applied(after[n], e), rows[n])
    BY <2>1, <2>2, <2>4, <2>5, ForwardChain
  <2>7. Good(new)
    <3>1. \A m \in Notices : new[m] = IF m = n THEN Applied(after[n], e) ELSE after[m]
      BY <2>2
    <3>2. new \in [Notices -> Rows]
      BY <2>2, <2>6 DEF Forward
    <3> HIDE DEF new
    <3> QED
      BY <2>1, <2>2, <2>6, <3>1, <3>2
  <2> QED
    BY <2>2, <2>3, <2>7 DEF Moves
<1> QED
  BY <1>4, <1>5 DEF Webhook

LEMMA RowsMove == TypeInv /\ [Next]_vars => Moves
<1> SUFFICES ASSUME TypeInv, [Next]_vars
             PROVE  Moves
  OBVIOUS
<1> USE DEF outbox, processes, provider, time
<1>0. /\ rows \in [Notices -> Rows] /\ clock \in Instants
      /\ 0 \in Instants /\ TRUE \in BOOLEAN /\ FALSE \in BOOLEAN
  BY OutboxAssumption DEF TypeInv, TypeOK, Instants
<1>1. ASSUME NEW n \in Notices, Enqueue(n)
      PROVE  Moves
  <2> DEFINE row == [rows[n] EXCEPT !.status = "PENDING", !.due = TRUE]
  <2>1. row \in Rows /\ row.status = "PENDING"
    BY <1>0 DEF Rows, Statuses, Queued
  <2>2. rows' = [rows EXCEPT ![n] = row]
    BY <1>0, <1>1 DEF Enqueue, Rows
  <2>3. Rank["PENDING"] >= Rank[rows[n].status]
    BY <1>1 DEF Enqueue, Rank
  <2> HIDE DEF row
  <2> QED
    BY <2>1, <2>2, <2>3, OneRowMoves DEF Forward
<1>2. ASSUME NEW n \in Notices, RetryManually(n)
      PROVE  Moves
  <2> DEFINE row == [rows[n] EXCEPT !.status = "PENDING", !.due = TRUE, !.lease = "NONE", !.failedAt = 0, !.soft = FALSE]
  <2>1. row \in Rows /\ row.status = "PENDING"
    BY <1>0 DEF Rows, Statuses, Queued
  <2>2. rows' = [rows EXCEPT ![n] = row]
    BY <1>0, <1>2 DEF RetryManually, Rows
  <2>3. Rank["PENDING"] >= Rank[rows[n].status]
    BY <1>2 DEF RetryManually, Rank
  <2> HIDE DEF row
  <2> QED
    BY <2>1, <2>2, <2>3, OneRowMoves DEF Forward
<1>3. ASSUME NEW n \in Notices, ExpireLease(n) \/ BecomeDue(n)
      PROVE  Moves
  <2>1. PICK row \in Rows : row.status = rows[n].status /\ rows' = [rows EXCEPT ![n] = row]
    <3>1. CASE ExpireLease(n)
      <4>1. [rows[n] EXCEPT !.lease = "EXPIRED"] \in Rows
        BY <1>0 DEF Rows
      <4>2. [rows[n] EXCEPT !.lease = "EXPIRED"].status = rows[n].status
        BY <1>0 DEF Rows
      <4> QED
        BY <1>0, <3>1, <4>1, <4>2 DEF ExpireLease
    <3>2. CASE BecomeDue(n)
      <4>1. [rows[n] EXCEPT !.due = TRUE] \in Rows
        BY <1>0 DEF Rows
      <4>2. [rows[n] EXCEPT !.due = TRUE].status = rows[n].status
        BY <1>0 DEF Rows
      <4> QED
        BY <1>0, <3>2, <4>1, <4>2 DEF BecomeDue
    <3> QED
      BY <1>3, <3>1, <3>2
  <2>2. Forward(row, rows[n])
    BY <1>0, <2>1, RankIs DEF Forward, Rows
  <2> QED
    BY <2>1, <2>2, OneRowMoves
<1>4. ASSUME NEW n \in Notices, SuppressManually(n)
      PROVE  Moves
  BY <1>0, <1>4, WithdrawnForward DEF SuppressManually, Moves
<1>5. ASSUME NEW w \in Workers, NEW n \in Notices, Claim(w, n)
      PROVE  Moves
  <2>1. CASE UNCHANGED rows
    BY <2>1, NoRowMoves
  <2>2. CASE Claimable(rows[n]) /\ Refusal(n) # "NONE" /\ rows' = [rows EXCEPT ![n] = Stopped(@, Refusal(n))]
    <3>1. rows[n].status \in Queued /\ Refusal(n) \in {"FAILED_FINAL", "SUPPRESSED"}
      BY <2>2 DEF Claimable, Queued, Refusal
    <3> QED
      BY <2>2, <3>1, StoppedForward, OneRowMoves
  <2>3. CASE /\ Claimable(rows[n]) /\ Refusal(n) = "NONE"
             /\ rows' = [rows EXCEPT ![n].status = "PROCESSING", ![n].attempts = @ + 1, ![n].lease = "HELD",
                                    ![n].failedAt = 0, ![n].soft = FALSE]
    <3> DEFINE row == [rows[n] EXCEPT !.status = "PROCESSING", !.attempts = @ + 1, !.lease = "HELD",
                                      !.failedAt = 0, !.soft = FALSE]
    <3>1. rows[n].attempts + 1 \in 0..MaxAttempts
      BY <1>0, <2>3, OutboxAssumption DEF Refusal, Rows
    <3>2. row \in Rows /\ row.status = "PROCESSING"
      BY <1>0, <3>1 DEF Rows, Statuses, Queued
    <3>3. rows' = [rows EXCEPT ![n] = row]
      BY <1>0, <2>3 DEF Rows
    <3>4. Rank["PROCESSING"] >= Rank[rows[n].status]
      BY <2>3 DEF Claimable, Rank
    <3> HIDE DEF row
    <3> QED
      BY <3>2, <3>3, <3>4, OneRowMoves DEF Forward
  <2> QED
    BY <1>5, <2>1, <2>2, <2>3 DEF Claim
<1>6. ASSUME NEW w \in Workers, NEW n \in Notices, MarkSent(w, n)
      PROVE  Moves
  <2>1. CASE UNCHANGED rows
    BY <2>1, NoRowMoves
  <2>2. CASE rows[n].status = "PROCESSING" /\ rows' = [rows EXCEPT ![n] = Recorded(@, Reconciled(n))]
    <3> DEFINE moved == Reconciled(n)
               row == Recorded(rows[n], moved)
    <3>1. Forward(moved, rows[n])
      BY ReconciledForward
    <3>2. moved \in Rows
      BY <3>1 DEF Forward
    <3> HIDE DEF moved
    <3>3. row \in Rows
      BY <1>0, <3>2 DEF Recorded, Rows, Statuses, Ended
    <3>4. row.status = IF moved.status = "PROCESSING" THEN "SENT" ELSE moved.status
      BY <1>0 DEF Recorded, Rows
    <3>5. Rank["SENT"] >= Rank["PROCESSING"]
      BY DEF Rank
    <3>6. Forward(row, rows[n])
      BY <2>2, <3>1, <3>3, <3>4, <3>5, Zenon DEF Forward
    <3>7. rows' = [rows EXCEPT ![n] = row]
      BY <2>2 DEF moved
    <3> HIDE DEF row
    <3> QED
      BY <3>6, <3>7, OneRowMoves
  <2> QED
    BY <1>6, <2>1, <2>2 DEF MarkSent
<1>7. ASSUME NEW w \in Workers, NEW n \in Notices, MarkFailed(w, n)
      PROVE  Moves
  <2>1. CASE UNCHANGED rows
    BY <2>1, NoRowMoves
  <2>2. CASE rows[n].status = "PROCESSING" /\ rows' = [rows EXCEPT ![n] = Retried(@)]
    <3>1. Retried(rows[n]) \in Rows
      BY <1>0 DEF Retried, Rows, Statuses, Queued
    <3>2. Retried(rows[n]).status = "FAILED_RETRYABLE"
      BY <1>0 DEF Retried, Rows
    <3>3. Rank["FAILED_RETRYABLE"] >= Rank["PROCESSING"]
      BY DEF Rank
    <3>4. Forward(Retried(rows[n]), rows[n])
      BY <2>2, <3>1, <3>2, <3>3, Zenon DEF Forward
    <3> QED
      BY <2>2, <3>4, OneRowMoves
  <2>3. CASE /\ rows[n].status = "PROCESSING"
             /\ rows' = [rows EXCEPT ![n] = [Stopped(@, "FAILED_FINAL") EXCEPT !.due = TRUE]]
    <3>1. Forward([Stopped(rows[n], "FAILED_FINAL") EXCEPT !.due = TRUE], rows[n])
      BY <2>3, StoppedForward DEF Queued
    <3> QED
      BY <2>3, <3>1, OneRowMoves
  <2> QED
    BY <1>7, <2>1, <2>2, <2>3 DEF MarkFailed
<1>8. ASSUME NEW e \in emitted, Webhook(e)
      PROVE  Moves
  BY <1>8, WebhookMoves
<1>9. ASSUME NEW n \in Notices, GrowOld(n) \/ Forget(n)
      PROVE  Moves
  BY <1>9, NoRowMoves DEF GrowOld, Forget
<1>10. ASSUME NEW e, Emit(e)
       PROVE  Moves
  BY <1>10, NoRowMoves DEF Emit
<1>11. ASSUME NEW w \in Workers, NEW n \in Notices, Select(w) \/ WorkerDies(w) \/ Send(w, n) \/ SendFails(w, n)
       PROVE  Moves
  BY <1>11, NoRowMoves DEF Select, WorkerDies, Send, SendFails
<1>12. ASSUME NEW w \in Workers, Select(w) \/ WorkerDies(w)
       PROVE  Moves
  BY <1>12, NoRowMoves DEF Select, WorkerDies
<1>13. CASE UNCHANGED vars
  BY <1>13, NoRowMoves DEF vars
<1> QED
  BY <1>1, <1>2, <1>3, <1>4, <1>5, <1>6, <1>7, <1>8, <1>9, <1>10, <1>11, <1>12, <1>13
  DEF Next, ReportMail, ReportAddress

LEMMA SuppressionType ==
    ASSUME TypeInv, NEW e \in emitted, Webhook(e)
    PROVE  suppressed' \in [Recipients -> [active : BOOLEAN, manual : BOOLEAN, at : Instants]]
<1>1. e.at \in Instants
  BY DEF TypeInv, TypeOK, Events
<1>2. suppressed \in [Recipients -> [active : BOOLEAN, manual : BOOLEAN, at : Instants]]
  BY DEF TypeInv, TypeOK
<1>3. \A r : ApplySuppression(r, e) => suppressed' \in [Recipients -> [active : BOOLEAN, manual : BOOLEAN, at : Instants]]
  <2> SUFFICES ASSUME NEW r, ApplySuppression(r, e), ~Stale(r, e)
               PROVE  suppressed' \in [Recipients -> [active : BOOLEAN, manual : BOOLEAN, at : Instants]]
    BY <1>2 DEF ApplySuppression
  <2> DEFINE new == [active |-> e.kind # "removed", manual |-> FALSE, at |-> e.at]
  <2>1. (e.kind # "removed") \in BOOLEAN
    OBVIOUS
  <2>2. new \in [active : BOOLEAN, manual : BOOLEAN, at : Instants]
    BY <1>1, <2>1
  <2>3. suppressed' = [suppressed EXCEPT ![r] = new]
    BY DEF ApplySuppression
  <2> HIDE DEF new
  <2> QED
    BY <1>2, <2>2, <2>3
<1>4. ApplySuppression(e.about, e) \/ ApplySuppression(To[e.about], e) \/ UNCHANGED suppressed
  BY DEF Webhook, AddressEvent, MailEvent
<1> QED
  BY <1>2, <1>3, <1>4

LEMMA TypeInit == Init => TypeInv
<1> SUFFICES ASSUME Init
             PROVE  TypeInv
  OBVIOUS
<1>1. 0 \in Instants /\ 1 \in 1..MaxEvents + 1 /\ 0 \in 0..MaxAttempts
  BY OutboxAssumption DEF Instants
<1>2. AbsentRow \in Rows
  BY <1>1 DEF AbsentRow, Rows, Statuses
<1> QED
  BY <1>1, <1>2 DEF Init, TypeInv, TypeOK, Idle

LEMMA TypeStep == TypeInv /\ [Next]_vars => TypeInv'
<1> SUFFICES ASSUME TypeInv, [Next]_vars
             PROVE  TypeInv'
  OBVIOUS
<1> USE DEF TypeInv, TypeOK, outbox, processes, provider, time
<1>0. rows' \in [Notices -> Rows]
  BY RowsMove DEF Moves
<1>1. ASSUME NEW n \in Notices,
             Enqueue(n) \/ RetryManually(n) \/ ExpireLease(n) \/ BecomeDue(n)
      PROVE  TypeInv'
  BY <1>0, <1>1 DEF Enqueue, RetryManually, ExpireLease, BecomeDue
<1>2. ASSUME NEW n \in Notices, SuppressManually(n)
      PROVE  TypeInv'
  <2>1. clock \in Instants
    BY OutboxAssumption DEF Instants
  <2> QED
    BY <1>0, <1>2, <2>1 DEF SuppressManually
<1>3. ASSUME NEW n \in Notices, GrowOld(n) \/ Forget(n)
      PROVE  TypeInv'
  BY <1>0, <1>3 DEF GrowOld, Forget
<1>4. ASSUME NEW e, Emit(e),
             \/ \E n \in Notices, kind \in MailEvents : e = [kind |-> kind, about |-> n, at |-> clock]
             \/ \E r \in Recipients, kind \in {"added", "removed"} : e = [kind |-> kind, about |-> r, at |-> clock]
      PROVE  TypeInv'
  <2>1. clock \in Instants /\ clock + 1 \in 1..MaxEvents + 1
    BY <1>4, OutboxAssumption DEF Emit, Instants
  <2>2. e \in Events
    BY <1>4, <2>1 DEF Events
  <2> QED
    BY <1>0, <1>4, <2>1, <2>2 DEF Emit
<1>5. ASSUME NEW w \in Workers, Select(w) \/ WorkerDies(w)
      PROVE  TypeInv'
  BY <1>0, <1>5 DEF Select, WorkerDies, Idle
<1>6. ASSUME NEW w \in Workers, NEW n \in Notices, Claim(w, n)
      PROVE  TypeInv'
  <2>1. workers' \in [Workers -> [notice : SUBSET Notices, phase : {"IDLE", "CLAIMED", "SENT", "RETRY", "FINAL"}]]
    BY <1>6 DEF Claim
  <2>2. age' \in [Notices -> {"NONE", "SAFE", "UNSAFE"}]
    BY <1>6 DEF Claim
  <2>3. batch' \in [Workers -> SUBSET Notices]
    BY <1>6 DEF Claim, Skip
  <2> QED
    BY <1>0, <1>6, <2>1, <2>2, <2>3 DEF Claim
<1>7. ASSUME NEW w \in Workers, NEW n \in Notices, Send(w, n) \/ SendFails(w, n)
      PROVE  TypeInv'
  <2>1. PICK phase \in {"SENT", "RETRY", "FINAL"} : workers' = [workers EXCEPT ![w].phase = phase]
    BY <1>7 DEF Send, SendFails
  <2>2. workers' \in [Workers -> [notice : SUBSET Notices, phase : {"IDLE", "CLAIMED", "SENT", "RETRY", "FINAL"}]]
    BY <2>1
  <2>3. mails' \in [Notices -> Nat] /\ kept' \subseteq Notices
    BY <1>7 DEF Send, SendFails
  <2> QED
    BY <1>0, <1>7, <2>2, <2>3 DEF Send, SendFails
<1>8. ASSUME NEW w \in Workers, NEW n \in Notices, MarkSent(w, n) \/ MarkFailed(w, n)
      PROVE  TypeInv'
  <2>1. workers' \in [Workers -> [notice : SUBSET Notices, phase : {"IDLE", "CLAIMED", "SENT", "RETRY", "FINAL"}]]
    BY <1>8 DEF MarkSent, MarkFailed, Idle
  <2>2. batch' \in [Workers -> SUBSET Notices]
    BY <1>8 DEF MarkSent, MarkFailed
  <2>3. handled' \subseteq Events /\ unmatched' \subseteq unmatched
    BY <1>8 DEF MarkSent, MarkFailed, Early
  <2> QED
    BY <1>0, <1>8, <2>1, <2>2, <2>3 DEF MarkSent, MarkFailed
<1>9. ASSUME NEW e \in emitted, Webhook(e)
      PROVE  TypeInv'
  <2>1. suppressed' \in [Recipients -> [active : BOOLEAN, manual : BOOLEAN, at : Instants]]
    BY <1>9, SuppressionType
  <2>2. handled' \subseteq Events /\ unmatched' \subseteq Events /\ \A f \in unmatched' : f.kind \in MailEvents
    <3>1. e \in Events
      OBVIOUS
    <3>2. \/ handled' = handled \cup {e} /\ (UNCHANGED unmatched \/ unmatched' = unmatched \ {e})
          \/ e.kind \in MailEvents /\ unmatched' = unmatched \cup {e} /\ UNCHANGED handled
      BY <1>9, Zenon DEF Webhook, AddressEvent, MailEvent
    <3> QED
      BY <3>1, <3>2
  <2> QED
    BY <1>0, <1>9, <2>1, <2>2 DEF Webhook
<1>10. CASE UNCHANGED vars
  BY <1>10 DEF vars
<1> QED
  BY <1>1, <1>2, <1>3, <1>4, <1>5, <1>6, <1>7, <1>8, <1>9, <1>10 DEF Next, ReportMail, ReportAddress

LEMMA TypeInvariant == Spec => []TypeInv
BY TypeInit, TypeStep, PTL DEF Spec

(* The variables keep their types; what learning its mail makes of a row, which takes   *)
(* in every event that came before, is a row (markSent).                               *)
THEOREM OutboxTypeCorrect == Spec => []TypeOK
<1>1. TypeInv => TypeOK
  BY DEF TypeInv
<1> QED
  BY <1>1, TypeInvariant, PTL

(* A row only moves forward: no late worker, early event or webhook out of order sends  *)
(* it back (resendWebhookNotificationUpdate, markSent, markFailed).                    *)
THEOREM RowsMoveForward == Spec => MovesForward
<1>1. TypeInv /\ [Next]_vars => [\A n \in Notices : Rank[rows'[n].status] >= Rank[rows[n].status]]_vars
  BY RowsMove DEF Moves, Forward
<1> QED
  BY <1>1, TypeInvariant, PTL DEF Spec, MovesForward

LEMMA ShapeInvariant == Spec => []Shape
BY TypeInvariant, ShapeIs, PTL

-----------------------------------------------------------------------------
(* At most one mail.                                                           *)

LEMMA MailInit == Init => MailAgrees
BY DEF Init, MailAgrees, AbsentRow, Idle, Holds

LEMMA MailStep == MailInv /\ [Next]_vars => MailAgrees'
<1> SUFFICES ASSUME MailInv, [Next]_vars
             PROVE  MailAgrees'
  OBVIOUS
<1> USE DEF MailInv, outbox, processes, provider, time
<1>0. ASSUME UNCHANGED <<workers, age, mails, kept>>,
             \A n \in Notices : rows'[n].attempts = rows[n].attempts
      PROVE  MailAgrees'
  BY <1>0 DEF MailAgrees, Holds
<1>1. ASSUME NEW n \in Notices,
             Enqueue(n) \/ RetryManually(n) \/ ExpireLease(n) \/ BecomeDue(n)
      PROVE  MailAgrees'
  BY <1>0, <1>1 DEF Shape, Enqueue, RetryManually, ExpireLease, BecomeDue, Columns
<1>2. ASSUME NEW n \in Notices, SuppressManually(n)
      PROVE  MailAgrees'
  BY <1>0, <1>2, WithdrawnShape DEF SuppressManually
<1>3. ASSUME NEW n \in Notices, GrowOld(n)
      PROVE  MailAgrees'
  BY <1>3 DEF Shape, MailAgrees, GrowOld, Holds
<1>4. ASSUME NEW n \in Notices, Forget(n)
      PROVE  MailAgrees'
  BY <1>4 DEF Shape, MailAgrees, Forget, Holds
<1>5. ASSUME NEW w \in Workers, Select(w) \/ WorkerDies(w)
      PROVE  MailAgrees'
  BY <1>5 DEF Shape, MailAgrees, Select, WorkerDies, Idle, Holds
<1>6. ASSUME NEW w \in Workers, NEW n \in Notices, Claim(w, n)
      PROVE  MailAgrees'
  <2>1. CASE UNCHANGED <<rows, workers, age>>
    BY <1>0, <1>6, <2>1 DEF Claim
  <2>2. CASE rows' = [rows EXCEPT ![n] = Stopped(@, Refusal(n))] /\ UNCHANGED <<workers, age>>
    BY <1>0, <1>6, <2>2 DEF Shape, Claim, Stopped, Columns
  <2>3. CASE /\ Refusal(n) = "NONE"
             /\ rows' = [rows EXCEPT ![n].status = "PROCESSING", ![n].attempts = @ + 1, ![n].lease = "HELD",
                                    ![n].failedAt = 0, ![n].soft = FALSE]
             /\ workers' = [workers EXCEPT ![w] = [notice |-> {n}, phase |-> "CLAIMED"]]
             /\ age' = [age EXCEPT ![n] = IF @ = "NONE" THEN "SAFE" ELSE @]
    \* The first claim is recent, so what the provider took it still knows.
    <3>1. age[n] # "UNSAFE"
      BY <2>3 DEF Refusal, MailAgrees, Shape
    <3>2. rows'[n].attempts = rows[n].attempts + 1 /\ \A m \in Notices \ {n} : rows'[m] = rows[m]
      BY <2>3 DEF Shape, Columns
    <3>3. UNCHANGED <<mails, kept>>
      BY <1>6 DEF Claim
    <3>4. \A m \in Notices : mails[m] = 1 /\ m \notin kept => m # n
      BY <3>1 DEF MailAgrees
    <3>5. \A v \in Workers, m \in Notices : Holds(v, m, "CLAIMED")' => m = n \/ Holds(v, m, "CLAIMED")
      BY <2>3 DEF Shape, Holds
    <3>6. age' \in [Notices -> {"NONE", "SAFE", "UNSAFE"}] /\ age'[n] = "SAFE" /\ \A m \in Notices \ {n} : age'[m] = age[m]
      BY <2>3, <3>1 DEF Shape
    <3> QED
      BY <3>2, <3>3, <3>4, <3>5, <3>6 DEF MailAgrees, Shape
  <2> QED
    BY <1>6, <2>1, <2>2, <2>3 DEF Claim
<1>7. ASSUME NEW w \in Workers, NEW n \in Notices, Send(w, n)
      PROVE  MailAgrees'
  <2>1. \A v \in Workers, m \in Notices : Holds(v, m, "CLAIMED")' => Holds(v, m, "CLAIMED")
    BY <1>7 DEF Shape, Send, Holds
  <2>2. n \notin kept => mails[n] = 0
    <3>1. Holds(w, n, "CLAIMED")
      BY <1>7 DEF Send
    <3>2. n \notin kept => mails[n] # 1
      BY <3>1 DEF MailAgrees
    <3>3. mails[n] <= 1
      BY DEF MailAgrees
    <3>4. mails[n] \in Nat
      BY DEF Shape
    <3> QED
      BY <3>2, <3>3, <3>4
  <2>3. mails'[n] = 1 /\ n \in kept'
    <3>1. n \in kept'
      BY <1>7 DEF Send
    <3>2. CASE n \in kept
      BY <1>7, <3>2 DEF MailAgrees, Send
    <3>3. CASE n \notin kept
      <4>1. mails' = [mails EXCEPT ![n] = @ + 1]
        BY <1>7, <3>3 DEF Send
      <4> QED
        BY <2>2, <3>1, <3>3, <4>1 DEF Shape
    <3> QED
      BY <3>1, <3>2, <3>3
  <2>4. \A m \in Notices \ {n} : mails'[m] = mails[m] /\ (m \in kept' <=> m \in kept)
    BY <1>7 DEF Shape, Send
  <2> QED
    BY <1>7, <2>1, <2>3, <2>4 DEF Shape, MailAgrees, Send
<1>8. ASSUME NEW w \in Workers, NEW n \in Notices, SendFails(w, n)
      PROVE  MailAgrees'
  <2>1. \A v \in Workers, m \in Notices : Holds(v, m, "CLAIMED")' => Holds(v, m, "CLAIMED")
    BY <1>8 DEF Shape, SendFails, Holds
  <2> QED
    BY <1>8, <2>1 DEF MailAgrees, SendFails
<1>9. ASSUME NEW w \in Workers, NEW n \in Notices, MarkSent(w, n) \/ MarkFailed(w, n)
      PROVE  MailAgrees'
  <2>1. \A v \in Workers, m \in Notices : Holds(v, m, "CLAIMED")' => Holds(v, m, "CLAIMED")
    BY <1>9 DEF Shape, MarkSent, MarkFailed, Holds, Idle
  <2>2. \A m \in Notices : rows'[m].attempts = rows[m].attempts
    <3>1. \A moved : Recorded(rows[n], moved).attempts = rows[n].attempts
      BY DEF Shape, Recorded, Columns
    <3>2. Retried(rows[n]).attempts = rows[n].attempts
      BY DEF Shape, Retried, Columns
    <3>3. [Stopped(rows[n], "FAILED_FINAL") EXCEPT !.due = TRUE].attempts = rows[n].attempts
      BY DEF Shape, Stopped, Columns
    <3>4. \/ UNCHANGED rows
          \/ rows' = [rows EXCEPT ![n] = Recorded(@, Reconciled(n))]
          \/ rows' = [rows EXCEPT ![n] = Retried(@)]
          \/ rows' = [rows EXCEPT ![n] = [Stopped(@, "FAILED_FINAL") EXCEPT !.due = TRUE]]
      BY <1>9 DEF MarkSent, MarkFailed
    <3>5. \A row : row.attempts = rows[n].attempts /\ rows' = [rows EXCEPT ![n] = row] =>
            \A m \in Notices : rows'[m].attempts = rows[m].attempts
      BY DEF Shape
    <3> QED
      BY <3>1, <3>2, <3>3, <3>4, <3>5
  <2> QED
    BY <1>9, <2>1, <2>2 DEF MailAgrees, MarkSent, MarkFailed
<1>10. ASSUME NEW e \in emitted, Webhook(e)
       PROVE  MailAgrees'
  BY <1>0, <1>10, WebhookRows DEF Webhook
<1>11. ASSUME NEW e, Emit(e)
       PROVE  MailAgrees'
  BY <1>0, <1>11 DEF Emit
<1>12. CASE UNCHANGED vars
  BY <1>0, <1>12 DEF vars
<1> QED
  BY <1>1, <1>2, <1>3, <1>4, <1>5, <1>6, <1>7, <1>8, <1>9, <1>10, <1>11, <1>12
  DEF Next, ReportMail, ReportAddress

LEMMA MailInvariant == Spec => []MailInv
<1>1. Shape /\ MailAgrees /\ [Next]_vars => MailAgrees'
  BY MailStep DEF MailInv
<1>2. MailInv <=> Shape /\ MailAgrees
  BY DEF MailInv
<1> QED
  BY <1>1, <1>2, MailInit, ShapeInvariant, PTL DEF Spec

(* Nobody gets the mail of a row twice: the dispatcher gives a row up before the      *)
(* provider can have forgotten its key (automaticNotificationRetryIsSafe).            *)
THEOREM MailSentOnce == Spec => []AtMostOneMail
<1>1. MailInv => AtMostOneMail
  BY DEF MailInv, MailAgrees, AtMostOneMail
<1> QED
  BY <1>1, MailInvariant, PTL

-----------------------------------------------------------------------------
(* Events that came too early.                                                 *)

EarlyAgrees == \A e \in unmatched : e.about \in Notices /\ ~rows[e.about].known

LEMMA EarlyStep == Shape /\ EarlyAgrees /\ [Next]_vars => EarlyAgrees'
<1> SUFFICES ASSUME Shape, EarlyAgrees, [Next]_vars
             PROVE  EarlyAgrees'
  OBVIOUS
<1> USE DEF outbox, processes, provider, time
<1>0. ASSUME UNCHANGED unmatched, \A n \in Notices : rows'[n].known = rows[n].known
      PROVE  EarlyAgrees'
  BY <1>0 DEF EarlyAgrees
<1>1. ASSUME NEW n \in Notices,
             Enqueue(n) \/ RetryManually(n) \/ ExpireLease(n) \/ BecomeDue(n)
      PROVE  EarlyAgrees'
  BY <1>0, <1>1 DEF Shape, Enqueue, RetryManually, ExpireLease, BecomeDue, Columns
<1>2. ASSUME NEW n \in Notices, SuppressManually(n)
      PROVE  EarlyAgrees'
  BY <1>0, <1>2, WithdrawnShape DEF SuppressManually
<1>3. ASSUME NEW n \in Notices, GrowOld(n) \/ Forget(n)
      PROVE  EarlyAgrees'
  BY <1>0, <1>3 DEF GrowOld, Forget
<1>4. ASSUME NEW e, Emit(e)
      PROVE  EarlyAgrees'
  BY <1>0, <1>4 DEF Emit
<1>5. ASSUME NEW w \in Workers, Select(w) \/ WorkerDies(w)
      PROVE  EarlyAgrees'
  BY <1>0, <1>5 DEF Select, WorkerDies
<1>6. ASSUME NEW w \in Workers, NEW n \in Notices, Claim(w, n)
      PROVE  EarlyAgrees'
  <2>1. \A status : Stopped(rows[n], status).known = rows[n].known
    BY DEF Shape, Stopped, Columns
  <2>2. PICK row :
            row.known = rows[n].known /\ (UNCHANGED rows \/ rows' = [rows EXCEPT ![n] = row])
    <3>1. [rows[n] EXCEPT !.status = "PROCESSING", !.attempts = @ + 1, !.lease = "HELD",
                          !.failedAt = 0, !.soft = FALSE].known = rows[n].known
      BY DEF Shape, Columns
    <3>2. CASE UNCHANGED rows
      BY <3>2
    <3>3. CASE rows' = [rows EXCEPT ![n] = Stopped(@, Refusal(n))]
      BY <2>1, <3>3
    <3>4. CASE rows' = [rows EXCEPT ![n].status = "PROCESSING", ![n].attempts = @ + 1, ![n].lease = "HELD",
                                    ![n].failedAt = 0, ![n].soft = FALSE]
      <4>1. rows' = [rows EXCEPT ![n] = [rows[n] EXCEPT !.status = "PROCESSING", !.attempts = @ + 1,
                                                !.lease = "HELD", !.failedAt = 0, !.soft = FALSE]]
        BY <3>4 DEF Shape, Columns
      <4> QED
        BY <3>1, <4>1
    <3> QED
      BY <1>6, <3>2, <3>3, <3>4 DEF Claim
  <2> QED
    BY <1>0, <1>6, <2>2 DEF Shape, Claim
<1>7. ASSUME NEW w \in Workers, NEW n \in Notices, Send(w, n) \/ SendFails(w, n)
      PROVE  EarlyAgrees'
  BY <1>0, <1>7 DEF Send, SendFails
<1>8. ASSUME NEW w \in Workers, NEW n \in Notices, MarkSent(w, n)
      PROVE  EarlyAgrees'
  <2>1. CASE UNCHANGED <<rows, handled, unmatched>>
    BY <1>0, <2>1
  <2>2. CASE /\ rows' = [rows EXCEPT ![n] = Recorded(@, Reconciled(n))]
             /\ unmatched' = unmatched \ Early(n)
    <3>1. \A m \in Notices \ {n} : rows'[m] = rows[m]
      BY <2>2 DEF Shape
    <3>2. \A e \in unmatched' : e.about # n
      BY <2>2 DEF Early
    <3> QED
      BY <2>2, <3>1, <3>2 DEF EarlyAgrees
  <2> QED
    BY <1>8, <2>1, <2>2 DEF MarkSent
<1>9. ASSUME NEW w \in Workers, NEW n \in Notices, MarkFailed(w, n)
      PROVE  EarlyAgrees'
  <2>1. Retried(rows[n]).known = rows[n].known
    BY DEF Shape, Retried, Columns
  <2>2. [Stopped(rows[n], "FAILED_FINAL") EXCEPT !.due = TRUE].known = rows[n].known
    BY DEF Shape, Stopped, Columns
  <2>3. PICK row :
            row.known = rows[n].known /\ (UNCHANGED rows \/ rows' = [rows EXCEPT ![n] = row])
    BY <1>9, <2>1, <2>2 DEF MarkFailed
  <2> QED
    BY <1>0, <1>9, <2>3 DEF Shape, MarkFailed
<1>10. ASSUME NEW e \in emitted, Webhook(e)
       PROVE  EarlyAgrees'
  <2>1. CASE AddressEvent(e)
    BY <1>0, <1>10, <2>1, WebhookRows DEF AddressEvent
  <2>2. CASE MailEvent(e)
    <3>1. e.about \in Notices
      BY <1>10, <2>2 DEF Shape, MailEvent, Events, MailEvents
    <3>2. \A f \in unmatched' : f \in unmatched \/ (f = e /\ ~rows[e.about].known)
      BY <2>2 DEF MailEvent
    <3> QED
      BY <1>10, <3>1, <3>2, WebhookRows DEF EarlyAgrees
  <2> QED
    BY <1>10, <2>1, <2>2 DEF Webhook
<1>11. CASE UNCHANGED vars
  BY <1>0, <1>11 DEF vars
<1> QED
  BY <1>1, <1>2, <1>3, <1>4, <1>5, <1>6, <1>7, <1>8, <1>9, <1>10, <1>11
  DEF Next, ReportMail, ReportAddress

(* An event that overtook the answer of the call that sent its mail is applied when    *)
(* the row learns the mail; none stays behind (markSent).                              *)
THEOREM EarlyEventsApplied == Spec => []NoneLeftBehind
<1>1. Init => EarlyAgrees
  BY DEF Init, EarlyAgrees
<1>2. EarlyAgrees => NoneLeftBehind
  BY DEF EarlyAgrees, NoneLeftBehind
<1> QED
  BY <1>1, <1>2, EarlyStep, ShapeInvariant, PTL DEF Spec

-----------------------------------------------------------------------------
(* Suppressions.                                                               *)

Noted == handled \cup unmatched

(* Events carry the date at which they happen, so no two have the same.           *)
DatesAgree ==
    /\ Noted \subseteq emitted
    /\ \A e \in emitted : e.at \in Nat \ {0} /\ e.at < clock
    /\ \A e, f \in emitted : e.at = f.at => e = f

(* A suppression is as new as the newest event that asks for one, and what is lifted   *)
(* was lifted by the event whose date it bears.                                        *)
SuppressionsAgree ==
    /\ \A e \in Noted : e.kind \in Suppressing =>
        e.about \in Notices /\ suppressed[To[e.about]].at >= e.at
    /\ \A r \in Recipients :
        ~suppressed[r].active /\ suppressed[r].at > 0 =>
            \E f \in handled : f.kind = "removed" /\ f.about = r /\ f.at = suppressed[r].at

SuppressionInv == Shape /\ DatesAgree /\ SuppressionsAgree

LEMMA WebhookNotes ==
    ASSUME SuppressionInv, NEW e \in emitted, Webhook(e)
    PROVE  SuppressionsAgree'
<1> USE DEF SuppressionInv
<1>1. e \in Events /\ e.at \in Nat \ {0}
  BY DEF Shape, DatesAgree
<1>2. handled \subseteq handled' /\ Noted' = Noted \cup {e}
  BY DEF Webhook, AddressEvent, MailEvent, Noted
<1>3. ASSUME UNCHANGED suppressed, e.kind \notin Suppressing
      PROVE  SuppressionsAgree'
  BY <1>2, <1>3 DEF SuppressionsAgree
<1>4. ASSUME UNCHANGED suppressed, e.about \in Notices, suppressed[To[e.about]].at >= e.at
      PROVE  SuppressionsAgree'
  BY <1>2, <1>4 DEF SuppressionsAgree
<1>5. ASSUME NEW r \in Recipients, suppressed[r].at < e.at,
             suppressed' = [suppressed EXCEPT ![r] = [active |-> e.kind # "removed", manual |-> FALSE, at |-> e.at]],
             e.kind \in Suppressing => e.about \in Notices /\ r = To[e.about],
             e.kind = "removed" => e.about = r /\ e \in handled'
      PROVE  SuppressionsAgree'
  <2>1. suppressed'[r].at = e.at /\ (suppressed'[r].active <=> e.kind # "removed")
    BY <1>5 DEF Shape
  <2>2. \A q \in Recipients \ {r} : suppressed'[q] = suppressed[q]
    BY <1>5 DEF Shape
  <2>3. \A n \in Notices : To[n] \in Recipients
    BY OutboxAssumption
  <2>4. \A q \in Recipients : suppressed[q].at \in Nat
    BY DEF Shape
  <2>5. \A q \in Recipients : suppressed'[q].at >= suppressed[q].at
    BY <1>1, <1>5, <2>1, <2>2, <2>4
  <2>6. \A f \in Noted : f.at \in Nat
    BY DEF DatesAgree
  <2>7. ASSUME NEW f \in Noted', f.kind \in Suppressing
        PROVE  f.about \in Notices /\ suppressed'[To[f.about]].at >= f.at
    <3>1. CASE f = e
      BY <1>1, <1>5, <2>1, <2>7, <3>1
    <3>2. CASE f \in Noted
      <4>1. f.about \in Notices /\ suppressed[To[f.about]].at >= f.at
        BY <2>7, <3>2 DEF SuppressionsAgree
      <4>2. /\ suppressed'[To[f.about]].at >= suppressed[To[f.about]].at
            /\ suppressed[To[f.about]].at \in Nat
            /\ suppressed'[To[f.about]].at \in Nat
        BY <1>1, <2>1, <2>2, <2>3, <2>4, <2>5, <4>1
      <4> QED
        BY <2>6, <3>2, <4>1, <4>2
    <3> QED
      BY <1>2, <3>1, <3>2
  <2>8. ASSUME NEW q \in Recipients, ~suppressed'[q].active, suppressed'[q].at > 0
        PROVE  \E f \in handled' : f.kind = "removed" /\ f.about = q /\ f.at = suppressed'[q].at
    <3>1. CASE q = r
      BY <1>5, <2>1, <2>8, <3>1
    <3>2. CASE q # r
      BY <1>2, <2>2, <2>8, <3>2 DEF SuppressionsAgree
    <3> QED
      BY <3>1, <3>2
  <2> QED
    BY <2>7, <2>8 DEF SuppressionsAgree
<1>6. CASE AddressEvent(e)
  <2>1. e.about \in Recipients /\ e.kind \notin Suppressing /\ e \in handled'
    BY <1>1, <1>6 DEF AddressEvent, Events, MailEvents, Suppressing
  <2>2. CASE Stale(e.about, e)
    BY <1>3, <1>6, <2>1, <2>2 DEF AddressEvent, ApplySuppression
  <2>3. CASE ~Stale(e.about, e)
    <3>1. suppressed[e.about].at < e.at
      BY <1>1, <2>1, <2>3 DEF Stale, Shape
    <3> QED
      BY <1>5, <1>6, <2>1, <2>3, <3>1 DEF AddressEvent, ApplySuppression
  <2> QED
    BY <2>2, <2>3
<1>7. CASE MailEvent(e)
  <2>1. e.about \in Notices /\ To[e.about] \in Recipients /\ e.kind # "removed"
    BY <1>1, <1>7, OutboxAssumption DEF MailEvent, Events, MailEvents
  <2>2. CASE e.kind \notin Suppressing
    BY <1>3, <1>7, <2>2 DEF MailEvent
  <2>3. CASE e.kind \in Suppressing /\ Stale(To[e.about], e)
    BY <1>4, <1>7, <2>1, <2>3 DEF MailEvent, ApplySuppression, Stale
  <2>4. CASE e.kind \in Suppressing /\ ~Stale(To[e.about], e)
    <3>1. suppressed[To[e.about]].at < e.at
      BY <1>1, <2>1, <2>4 DEF Stale, Shape
    <3> QED
      BY <1>5, <1>7, <2>1, <2>4, <3>1 DEF MailEvent, ApplySuppression
  <2> QED
    BY <2>2, <2>3, <2>4
<1> QED
  BY <1>6, <1>7 DEF Webhook

(* The other operations neither receive events nor suppress. *)
LEMMA OtherSteps ==
    ASSUME [Next]_vars,
           ~\E w \in Workers, n \in Notices : MarkSent(w, n),
           ~\E e \in emitted : Webhook(e),
           ~\E e : Emit(e),
           ~\E n \in Notices : SuppressManually(n)
    PROVE  UNCHANGED <<suppressed, handled, unmatched, emitted, clock>>
<1> USE DEF outbox, processes, provider, time
<1>1. ASSUME NEW n \in Notices,
             Enqueue(n) \/ RetryManually(n) \/ ExpireLease(n) \/ BecomeDue(n) \/ GrowOld(n) \/ Forget(n)
      PROVE  UNCHANGED <<suppressed, handled, unmatched, emitted, clock>>
  BY <1>1 DEF Enqueue, RetryManually, ExpireLease, BecomeDue, GrowOld, Forget
<1>2. ASSUME NEW w \in Workers, NEW n \in Notices,
             Select(w) \/ WorkerDies(w) \/ Claim(w, n) \/ Send(w, n) \/ SendFails(w, n) \/ MarkFailed(w, n)
      PROVE  UNCHANGED <<suppressed, handled, unmatched, emitted, clock>>
  BY <1>2 DEF Select, WorkerDies, Claim, Send, SendFails, MarkFailed
<1>3. ASSUME NEW w \in Workers, Select(w) \/ WorkerDies(w)
      PROVE  UNCHANGED <<suppressed, handled, unmatched, emitted, clock>>
  BY <1>3 DEF Select, WorkerDies
<1>4. CASE UNCHANGED vars
  BY <1>4 DEF vars
<1> QED
  BY <1>1, <1>2, <1>3, <1>4 DEF Next, ReportMail, ReportAddress

LEMMA DatesStep == Shape /\ DatesAgree /\ [Next]_vars => DatesAgree'
<1> SUFFICES ASSUME Shape, DatesAgree, [Next]_vars
             PROVE  DatesAgree'
  OBVIOUS
<1> USE DEF outbox, processes, provider, time
<1>1. ASSUME UNCHANGED <<emitted, clock>>, Noted' \subseteq emitted
      PROVE  DatesAgree'
  BY <1>1 DEF DatesAgree
<1>2. ASSUME NEW e, Emit(e)
      PROVE  DatesAgree'
  <2>1. clock' = clock + 1 /\ emitted' = emitted \cup {e} /\ e.at = clock /\ Noted' = Noted
    BY <1>2 DEF Emit, Noted
  <2> QED
    BY <2>1 DEF DatesAgree, Shape
<1>3. CASE UNCHANGED <<emitted, clock, handled, unmatched>>
  BY <1>1, <1>3 DEF DatesAgree, Noted
<1>4. ASSUME NEW w \in Workers, NEW n \in Notices, MarkSent(w, n)
      PROVE  DatesAgree'
  <2>1. UNCHANGED <<emitted, clock>>
    BY <1>4 DEF MarkSent
  <2>2. Noted' \subseteq Noted
    BY <1>4 DEF MarkSent, Noted, Early
  <2> QED
    BY <1>1, <2>1, <2>2 DEF DatesAgree
<1>5. ASSUME NEW e \in emitted, Webhook(e)
      PROVE  DatesAgree'
  <2>1. Noted' = Noted \cup {e}
    BY <1>5 DEF Webhook, AddressEvent, MailEvent, Noted
  <2> QED
    BY <1>1, <1>5, <2>1 DEF DatesAgree, Webhook
<1>6. ASSUME NEW n \in Notices, SuppressManually(n)
      PROVE  DatesAgree'
  BY <1>3, <1>6 DEF SuppressManually
<1> QED
  BY <1>2, <1>3, <1>4, <1>5, <1>6, OtherSteps

LEMMA SuppressionsStep == SuppressionInv /\ [Next]_vars => SuppressionsAgree'
<1> SUFFICES ASSUME SuppressionInv, [Next]_vars
             PROVE  SuppressionsAgree'
  OBVIOUS
<1> USE DEF SuppressionInv, outbox, processes, provider, time
<1>1. CASE UNCHANGED <<suppressed, handled, unmatched>>
  BY <1>1 DEF SuppressionsAgree, Noted
<1>2. ASSUME NEW n \in Notices, SuppressManually(n)
      PROVE  SuppressionsAgree'
  <2> DEFINE r == To[n]
  <2>1. r \in Recipients /\ \A m \in Notices : To[m] \in Recipients
    BY OutboxAssumption
  <2>2. suppressed' = [suppressed EXCEPT ![r] = [active |-> TRUE, manual |-> TRUE, at |-> clock]]
    BY <1>2 DEF SuppressManually
  <2>3. suppressed'[r].at = clock /\ suppressed'[r].active
    BY <2>1, <2>2 DEF Shape
  <2>4. \A q \in Recipients \ {r} : suppressed'[q] = suppressed[q]
    BY <2>2 DEF Shape
  <2>5. \A f \in Noted : clock >= f.at
    BY DEF DatesAgree, Shape
  <2>6. UNCHANGED <<handled, Noted>>
    BY <1>2 DEF SuppressManually, Noted
  <2> HIDE DEF r
  <2>7. \A f \in Noted : f.kind \in Suppressing =>
            f.about \in Notices /\ suppressed'[To[f.about]].at >= f.at
    BY <2>1, <2>3, <2>4, <2>5 DEF SuppressionsAgree
  <2>8. \A q \in Recipients :
            ~suppressed'[q].active /\ suppressed'[q].at > 0 =>
                \E f \in handled : f.kind = "removed" /\ f.about = q /\ f.at = suppressed'[q].at
    BY <2>3, <2>4 DEF SuppressionsAgree
  <2> QED
    BY <2>6, <2>7, <2>8 DEF SuppressionsAgree
<1>3. ASSUME NEW w \in Workers, NEW n \in Notices, MarkSent(w, n)
      PROVE  SuppressionsAgree'
  <2>1. UNCHANGED suppressed /\ handled \subseteq handled' /\ Noted' \subseteq Noted
    BY <1>3 DEF MarkSent, Noted, Early
  <2> QED
    BY <2>1 DEF SuppressionsAgree
<1>4. ASSUME NEW e \in emitted, Webhook(e)
      PROVE  SuppressionsAgree'
  BY <1>4, WebhookNotes
<1>5. ASSUME NEW e, Emit(e)
      PROVE  SuppressionsAgree'
  BY <1>1, <1>5 DEF Emit
<1> QED
  BY <1>1, <1>2, <1>3, <1>4, <1>5, OtherSteps

(* Whatever the order in which events arrive, an address that bounced or complained    *)
(* stays suppressed until something newer lifts it (applySuppression).                 *)
THEOREM SuppressionsStand == Spec => []SuppressionCurrent
<1>1. Init => DatesAgree /\ SuppressionsAgree
  BY DEF Init, DatesAgree, SuppressionsAgree, Noted
<1>2. /\ Shape /\ DatesAgree /\ [Next]_vars => DatesAgree'
      /\ Shape /\ DatesAgree /\ SuppressionsAgree /\ [Next]_vars => SuppressionsAgree'
      /\ SuppressionInv <=> Shape /\ DatesAgree /\ SuppressionsAgree
  BY DatesStep, SuppressionsStep DEF SuppressionInv
<1>3. SuppressionInv => SuppressionCurrent
  <2> SUFFICES ASSUME SuppressionInv, NEW e \in Noted, e.kind \in Suppressing, ~suppressed[To[e.about]].active
               PROVE  \E f \in handled : f.kind = "removed" /\ f.about = To[e.about] /\ f.at > e.at
    BY DEF SuppressionCurrent, Noted
  <2>1. e \in emitted /\ e.at \in Nat \ {0}
    BY DEF SuppressionInv, DatesAgree
  <2>2. To[e.about] \in Recipients /\ suppressed[To[e.about]].at >= e.at
    BY OutboxAssumption DEF SuppressionInv, SuppressionsAgree
  <2>3. suppressed[To[e.about]].at \in Nat
    BY <2>2 DEF SuppressionInv, Shape
  <2>4. PICK f \in handled :
            f.kind = "removed" /\ f.about = To[e.about] /\ f.at = suppressed[To[e.about]].at
    BY <2>1, <2>2, <2>3 DEF SuppressionInv, SuppressionsAgree
  <2>5. f \in emitted /\ f # e
    BY <2>4 DEF SuppressionInv, DatesAgree, Noted, Suppressing
  <2>6. f.at # e.at
    BY <2>1, <2>5 DEF SuppressionInv, DatesAgree
  <2> QED
    BY <2>1, <2>2, <2>3, <2>4, <2>6
<1> QED
  BY <1>1, <1>2, <1>3, ShapeInvariant, PTL DEF Spec
=============================================================================

-------------------------- MODULE NotificationOutbox --------------------------
(***************************************************************************)
(* The outbox of e-mails: rows written by the business transactions, the    *)
(* workers that claim and send them (notifications/service.ts) and the      *)
(* webhooks of the mail provider (notifications/resend-webhook.ts).         *)
(*                                                                          *)
(* Each claim, result and webhook is one transaction under the advisory     *)
(* lock of its row; the call of the provider runs between two of them, so   *)
(* that a worker may die or be overtaken there.  A worker selects its batch *)
(* long before it claims the last row of it.                                *)
(*                                                                          *)
(* Durations are abstracted to what they decide: a lease is held or         *)
(* expired, a row is due or not, the first claim is recent ("SAFE", less    *)
(* than twelve hours) or not.  Dates that are compared are ticks of a clock *)
(* that advances with the events of the provider.                           *)
(***************************************************************************)
EXTENDS Integers, FiniteSets

CONSTANTS
    Notices,      \* rows of the outbox
    Recipients,   \* addresses
    To,           \* the address of each row
    Workers,      \* dispatcher processes
    MaxAttempts,  \* MAXIMUM_NOTIFICATION_ATTEMPTS
    MaxEvents     \* bound: events the provider reports

ASSUME OutboxAssumption ==
    /\ IsFiniteSet(Notices)
    /\ To \in [Notices -> Recipients]
    /\ MaxAttempts \in Nat \ {0}
    /\ MaxEvents \in Nat

VARIABLES
    rows,        \* order_notifications
    suppressed,  \* notification_suppressions
    batch,       \* rows a worker selected and has not looked at yet
    workers,     \* the row a worker claimed, and what it knows of its mail
    handled,     \* notification_events with a final outcome
    unmatched,   \* notification_events that wait for a row to know their mail
    age,         \* of the first claim of each row
    clock,
    mails,       \* external: mails the provider sent for each row
    kept,        \* external: rows whose idempotency key the provider still knows
    emitted      \* external: events the provider reports until they are answered

outbox == <<rows, suppressed, handled, unmatched>>
processes == <<batch, workers>>
provider == <<mails, kept, emitted>>
time == <<age, clock>>
vars == <<outbox, processes, provider, time>>

-----------------------------------------------------------------------------
Queued == {"PENDING", "PROCESSING", "FAILED_RETRYABLE"}
Ended == {"SENT", "DELIVERED", "FAILED_FINAL", "BOUNCED", "COMPLAINED", "SUPPRESSED"}
Statuses == Queued \cup Ended \cup {"ABSENT"}

Instants == 0..MaxEvents + 1     \* 0 stands for null

Rows ==
    [status : Statuses, attempts : 0..MaxAttempts, lease : {"NONE", "HELD", "EXPIRED"}, due : BOOLEAN,
     known : BOOLEAN,            \* providerMessageId is stored
     deliveredAt : Instants, failedAt : Instants,
     soft : BOOLEAN]             \* lastErrorCode is BOUNCE_TRANSIENT or BOUNCE_UNDETERMINED

AbsentRow ==
    [status |-> "ABSENT", attempts |-> 0, lease |-> "NONE", due |-> FALSE, known |-> FALSE,
     deliveredAt |-> 0, failedAt |-> 0, soft |-> FALSE]

MailEvents == {"sent", "delivered", "soft_bounce", "hard_bounce", "complained", "failed", "suppressed"}

\* Events about the mail of a row, and about an address.
Events ==
    [kind : MailEvents, about : Notices, at : Instants]
    \cup [kind : {"added", "removed"}, about : Recipients, at : Instants]

Idle == [notice |-> {}, phase |-> "IDLE"]

TypeOK ==
    /\ rows \in [Notices -> Rows]
    /\ suppressed \in [Recipients -> [active : BOOLEAN, manual : BOOLEAN, at : Instants]]
    /\ batch \in [Workers -> SUBSET Notices]
    /\ workers \in [Workers -> [notice : SUBSET Notices, phase : {"IDLE", "CLAIMED", "SENT", "RETRY", "FINAL"}]]
    /\ handled \subseteq Events /\ unmatched \subseteq Events /\ emitted \subseteq Events
    /\ age \in [Notices -> {"NONE", "SAFE", "UNSAFE"}]
    /\ clock \in 1..MaxEvents + 1
    /\ mails \in [Notices -> Nat]
    /\ kept \subseteq Notices

Init ==
    /\ rows = [n \in Notices |-> AbsentRow]
    /\ suppressed = [r \in Recipients |-> [active |-> FALSE, manual |-> FALSE, at |-> 0]]
    /\ batch = [w \in Workers |-> {}]
    /\ workers = [w \in Workers |-> Idle]
    /\ handled = {} /\ unmatched = {} /\ emitted = {}
    /\ age = [n \in Notices |-> "NONE"]
    /\ clock = 1
    /\ mails = [n \in Notices |-> 0]
    /\ kept = {}

-----------------------------------------------------------------------------
(* Rows, and the dispatcher. *)

\* enqueueOrderNotification, enqueueShopOrderNotification: one row for each key.
Enqueue(n) ==
    /\ rows[n].status = "ABSENT"
    /\ rows' = [rows EXCEPT ![n].status = "PENDING", ![n].due = TRUE]
    /\ UNCHANGED <<suppressed, handled, unmatched, processes, provider, time>>

Claimable(row) ==
    /\ row.due
    /\ row.status \in {"PENDING", "FAILED_RETRYABLE"} \/ (row.status = "PROCESSING" /\ row.lease = "EXPIRED")

\* dispatchPendingOrderNotifications
Select(w) ==
    /\ batch[w] = {} /\ workers[w] = Idle
    /\ batch' = [batch EXCEPT ![w] = {n \in Notices : Claimable(rows[n]) /\ rows[n].attempts < MaxAttempts}]
    /\ batch'[w] # {}
    /\ UNCHANGED <<outbox, workers, provider, time>>

Stopped(row, status) ==
    [row EXCEPT !.status = status, !.lease = "NONE", !.failedAt = clock, !.soft = FALSE]

\* Mutant of Refusal: a row is retried however old its first claim is.
RefusalAtAnyAge(n) ==
    IF rows[n].attempts >= MaxAttempts THEN "FAILED_FINAL"
    ELSE IF suppressed[To[n]].active THEN "SUPPRESSED" ELSE "NONE"

\* Mutant of Refusal: the attempts are only looked at when the row is selected.
RefusalOfAge(n) ==
    IF rows[n].attempts > 0 /\ age[n] # "SAFE" THEN "FAILED_FINAL"
    ELSE IF suppressed[To[n]].active THEN "SUPPRESSED" ELSE "NONE"

\* Why a claim ends the row instead: the provider may have forgotten the key, the
\* attempts are used up, or the address is suppressed.
Refusal(n) ==
    IF rows[n].attempts > 0 /\ age[n] # "SAFE" THEN "FAILED_FINAL"
    ELSE IF rows[n].attempts >= MaxAttempts THEN "FAILED_FINAL"
    ELSE IF suppressed[To[n]].active THEN "SUPPRESSED" ELSE "NONE"

Skip(w, n) == batch' = [batch EXCEPT ![w] = @ \ {n}]

\* databaseNotificationDispatchRepository.claim
Claim(w, n) ==
    /\ workers[w] = Idle
    /\ n \in batch[w]
    /\ Skip(w, n)
    /\ IF ~Claimable(rows[n]) THEN UNCHANGED <<rows, workers, age>>
       ELSE IF Refusal(n) # "NONE" THEN
           /\ rows' = [rows EXCEPT ![n] = Stopped(@, Refusal(n))]
           /\ UNCHANGED <<workers, age>>
       ELSE
           /\ rows' = [rows EXCEPT ![n].status = "PROCESSING", ![n].attempts = @ + 1, ![n].lease = "HELD",
                                   ![n].failedAt = 0, ![n].soft = FALSE]
           /\ workers' = [workers EXCEPT ![w] = [notice |-> {n}, phase |-> "CLAIMED"]]
           /\ age' = [age EXCEPT ![n] = IF @ = "NONE" THEN "SAFE" ELSE @]
    /\ UNCHANGED <<suppressed, handled, unmatched, provider, clock>>

Holds(w, n, phase) == workers[w] = [notice |-> {n}, phase |-> phase]

\* sendEmail: the provider takes the mail, once for each key; the answer may be lost.
Send(w, n) ==
    /\ Holds(w, n, "CLAIMED")
    /\ mails' = IF n \in kept THEN mails ELSE [mails EXCEPT ![n] = @ + 1]
    /\ kept' = kept \cup {n}
    /\ \E phase \in {"SENT", "RETRY"} : workers' = [workers EXCEPT ![w].phase = phase]
    /\ UNCHANGED <<outbox, batch, emitted, time>>

\* classifyNotificationFailure, of a mail that the provider did not take
SendFails(w, n) ==
    /\ Holds(w, n, "CLAIMED")
    /\ \E phase \in {"RETRY", "FINAL"} : workers' = [workers EXCEPT ![w].phase = phase]
    /\ UNCHANGED <<outbox, batch, provider, time>>

WorkerDies(w) ==
    /\ workers[w] # Idle \/ batch[w] # {}
    /\ workers' = [workers EXCEPT ![w] = Idle]
    /\ batch' = [batch EXCEPT ![w] = {}]
    /\ UNCHANGED <<outbox, provider, time>>

-----------------------------------------------------------------------------
(* What an event says of a row: resendWebhookNotificationUpdate. *)

Moved(row, status, deliveredAt, failedAt, soft) ==
    [row EXCEPT !.status = status, !.lease = "NONE", !.deliveredAt = deliveredAt, !.failedAt = failedAt, !.soft = soft]

Sent(row) ==
    IF row.status = "PROCESSING" THEN [row EXCEPT !.status = "SENT", !.lease = "NONE"] ELSE row

\* Mutant of Delivered: the status of the row is not looked at.
DeliveredAnyway(row, at) == Moved(row, "DELIVERED", at, 0, FALSE)

Delivered(row, at) ==
    IF \/ row.status \in {"PROCESSING", "SENT"}
       \/ row.status = "BOUNCED" /\ row.soft /\ at >= row.failedAt
    THEN Moved(row, "DELIVERED", at, 0, FALSE) ELSE row

Bounced(row, at, soft) ==
    IF row.status \in {"PROCESSING", "SENT", "FAILED_RETRYABLE"}
    THEN Moved(row, "BOUNCED", 0, at, soft) ELSE row

Complained(row, at) ==
    IF /\ at >= row.deliveredAt /\ at >= row.failedAt
       /\ row.status \in {"PROCESSING", "SENT", "DELIVERED", "BOUNCED", "FAILED_RETRYABLE", "FAILED_FINAL"}
    THEN Moved(row, "COMPLAINED", IF row.deliveredAt = 0 THEN at ELSE row.deliveredAt, at, FALSE) ELSE row

Failed(row, at) ==
    IF row.status \in {"PROCESSING", "SENT", "FAILED_RETRYABLE"}
    THEN Moved(row, "FAILED_FINAL", 0, at, FALSE) ELSE row

SuppressedBy(row, at) ==
    IF /\ at >= row.failedAt
       /\ row.status \in {"PROCESSING", "SENT", "BOUNCED", "FAILED_RETRYABLE", "FAILED_FINAL"}
    THEN Moved(row, "SUPPRESSED", 0, at, FALSE) ELSE row

\* applyResendWebhookNotificationEvent
Applied(row, e) ==
    CASE e.kind = "sent" -> Sent(row)
      [] e.kind = "delivered" -> Delivered(row, e.at)
      [] e.kind = "soft_bounce" -> Bounced(row, e.at, TRUE)
      [] e.kind = "hard_bounce" -> Bounced(row, e.at, FALSE)
      [] e.kind = "complained" -> Complained(row, e.at)
      [] e.kind = "failed" -> Failed(row, e.at)
      [] e.kind = "suppressed" -> SuppressedBy(row, e.at)

-----------------------------------------------------------------------------
(* The result of the call. *)

Early(n) == {e \in unmatched : e.about = n}

\* What the event of that date makes of the row, if there is one: no two have the same.
AppliedAt(n, row, at) ==
    IF \E e \in Early(n) : e.at = at THEN Applied(row, CHOOSE e \in Early(n) : e.at = at) ELSE row

\* The events that came before the row knew its mail, in the order of their dates.
Reconciled(n) ==
    LET row[at \in Instants] == IF at = 0 THEN rows[n] ELSE AppliedAt(n, row[at - 1], at)
    IN  row[MaxEvents + 1]

\* The row learns its mail, and what these events made of it.
Recorded(row, moved) ==
    [row EXCEPT !.status = IF moved.status = "PROCESSING" THEN "SENT" ELSE moved.status,
                !.lease = "NONE", !.known = TRUE,
                !.deliveredAt = moved.deliveredAt, !.failedAt = moved.failedAt, !.soft = moved.soft]

\* Mutant of MarkSent: early events stay where they are.
MarkSentBlindly(w, n) ==
    /\ Holds(w, n, "SENT")
    /\ workers' = [workers EXCEPT ![w] = Idle]
    /\ IF rows[n].status = "PROCESSING"
       THEN rows' = [rows EXCEPT ![n] = Recorded(@, @)] /\ UNCHANGED batch
       ELSE batch' = [batch EXCEPT ![w] = {}] /\ UNCHANGED rows
    /\ UNCHANGED <<suppressed, handled, unmatched, provider, time>>

\* markSent; a claim that is no longer current throws, which ends the batch.
MarkSent(w, n) ==
    /\ Holds(w, n, "SENT")
    /\ workers' = [workers EXCEPT ![w] = Idle]
    /\ IF rows[n].status = "PROCESSING"
       THEN /\ rows' = [rows EXCEPT ![n] = Recorded(@, Reconciled(n))]
            /\ handled' = handled \cup Early(n)
            /\ unmatched' = unmatched \ Early(n)
            /\ UNCHANGED batch
       ELSE /\ batch' = [batch EXCEPT ![w] = {}]
            /\ UNCHANGED <<rows, handled, unmatched>>
    /\ UNCHANGED <<suppressed, provider, time>>

Retried(row) ==
    [row EXCEPT !.status = "FAILED_RETRYABLE", !.due = FALSE, !.lease = "NONE", !.failedAt = clock, !.soft = FALSE]

\* Mutant of MarkFailed: the last attempt is retried as well.
MarkFailedAgain(w, n) ==
    /\ Holds(w, n, "RETRY") \/ Holds(w, n, "FINAL")
    /\ workers' = [workers EXCEPT ![w] = Idle]
    /\ IF rows[n].status # "PROCESSING" THEN UNCHANGED rows
       ELSE rows' = [rows EXCEPT ![n] = Retried(@)]
    /\ UNCHANGED <<suppressed, handled, unmatched, batch, provider, time>>

\* markFailed; the claim it ends may be a later one than its own.
MarkFailed(w, n) ==
    /\ Holds(w, n, "RETRY") \/ Holds(w, n, "FINAL")
    /\ workers' = [workers EXCEPT ![w] = Idle]
    /\ IF rows[n].status # "PROCESSING" THEN UNCHANGED rows
       ELSE rows' = [rows EXCEPT ![n] =
                IF workers[w].phase = "RETRY" /\ rows[n].attempts < MaxAttempts
                THEN Retried(@) ELSE [Stopped(@, "FAILED_FINAL") EXCEPT !.due = TRUE]]
    /\ UNCHANGED <<suppressed, handled, unmatched, batch, provider, time>>

-----------------------------------------------------------------------------
(* Administrators. *)

\* retryNotificationManually
RetryManually(n) ==
    /\ rows[n].status = "FAILED_RETRYABLE"
    /\ rows[n].attempts < MaxAttempts
    /\ ~suppressed[To[n]].active
    /\ age[n] = "SAFE"
    /\ rows' = [rows EXCEPT ![n].status = "PENDING", ![n].due = TRUE, ![n].lease = "NONE",
                            ![n].failedAt = 0, ![n].soft = FALSE]
    /\ UNCHANGED <<suppressed, handled, unmatched, processes, provider, time>>

\* The rows of a suppressed address that wait for a claim.
Withdrawn(r, at) ==
    [n \in Notices |->
        IF To[n] = r /\ rows[n].status \in {"PENDING", "FAILED_RETRYABLE"}
        THEN [rows[n] EXCEPT !.status = "SUPPRESSED", !.failedAt = at, !.soft = FALSE] ELSE rows[n]]

\* suppressNotificationRecipientManually
SuppressManually(n) ==
    /\ rows[n].status # "ABSENT"
    /\ ~suppressed[To[n]].active
    /\ suppressed' = [suppressed EXCEPT ![To[n]] = [active |-> TRUE, manual |-> TRUE, at |-> clock]]
    /\ rows' = Withdrawn(To[n], clock)
    /\ UNCHANGED <<handled, unmatched, processes, provider, time>>

-----------------------------------------------------------------------------
(* Webhooks of the provider: processVerifiedResendWebhookEvent. *)

Suppressing == {"complained", "suppressed", "hard_bounce"}

\* Mutant of Stale: the order of the events is not looked at.
StaleManualOnly(r, e) == suppressed[r].active /\ suppressed[r].manual /\ e.kind = "removed"

\* applySuppression refuses an older event, and the provider's leave to write again to
\* an address that an administrator suppressed.
Stale(r, e) ==
    \/ suppressed[r].active /\ suppressed[r].manual /\ e.kind = "removed"
    \/ suppressed[r].at >= e.at

\* applySuppression
ApplySuppression(r, e) ==
    IF Stale(r, e) THEN UNCHANGED suppressed
    ELSE suppressed' = [suppressed EXCEPT ![r] =
             [active |-> e.kind # "removed", manual |-> FALSE, at |-> e.at]]

WithdrawnBy(r, e) == IF Stale(r, e) \/ e.kind = "removed" THEN rows ELSE Withdrawn(r, e.at)

AddressEvent(e) ==
    /\ e.kind \in {"added", "removed"}
    /\ ApplySuppression(e.about, e)
    /\ rows' = WithdrawnBy(e.about, e)
    /\ handled' = handled \cup {e}
    /\ UNCHANGED unmatched

\* The address of a bounce is suppressed whether or not a row knows the mail.
MailEvent(e) ==
    LET n == e.about
        after == IF e.kind \in Suppressing THEN WithdrawnBy(To[n], e) ELSE rows IN
    /\ e.kind \in MailEvents
    /\ IF e.kind \in Suppressing THEN ApplySuppression(To[n], e) ELSE UNCHANGED suppressed
    /\ IF rows[n].known
       THEN /\ rows' = [after EXCEPT ![n] = Applied(@, e)]
            /\ handled' = handled \cup {e}
            /\ unmatched' = unmatched \ {e}
       ELSE /\ rows' = after
            /\ unmatched' = unmatched \cup {e}
            /\ UNCHANGED handled

Webhook(e) ==
    /\ e \in emitted \ handled
    /\ AddressEvent(e) \/ MailEvent(e)
    /\ UNCHANGED <<processes, provider, time>>

-----------------------------------------------------------------------------
(* Time, and the provider. *)

ExpireLease(n) ==
    /\ rows[n].lease = "HELD"
    /\ rows' = [rows EXCEPT ![n].lease = "EXPIRED"]
    /\ UNCHANGED <<suppressed, handled, unmatched, processes, provider, time>>

\* notificationBackoffMs is over.
BecomeDue(n) ==
    /\ rows[n].status = "FAILED_RETRYABLE" /\ ~rows[n].due
    /\ rows' = [rows EXCEPT ![n].due = TRUE]
    /\ UNCHANGED <<suppressed, handled, unmatched, processes, provider, time>>

\* NOTIFICATION_PROVIDER_IDEMPOTENCY_SAFE_AGE_MS has passed since the first claim.
GrowOld(n) ==
    /\ age[n] = "SAFE"
    /\ age' = [age EXCEPT ![n] = "UNSAFE"]
    /\ UNCHANGED <<outbox, processes, provider, clock>>

\* Twelve hours later: no call lasts that long.
Forget(n) ==
    /\ age[n] = "UNSAFE" /\ n \in kept
    /\ \A w \in Workers : ~Holds(w, n, "CLAIMED")
    /\ kept' = kept \ {n}
    /\ UNCHANGED <<outbox, processes, mails, emitted, time>>

Emit(e) ==
    /\ clock <= MaxEvents
    /\ e.at = clock
    /\ clock' = clock + 1
    /\ emitted' = emitted \cup {e}
    /\ UNCHANGED <<outbox, processes, mails, kept, age>>

\* Something happens to a mail; a complaint is about a mail that was delivered.
ReportMail(n, kind) ==
    /\ mails[n] > 0
    /\ \A e \in emitted : e.about = n => e.kind # kind
    /\ kind = "complained" => \E e \in emitted : e.about = n /\ e.kind = "delivered"
    /\ Emit([kind |-> kind, about |-> n, at |-> clock])

ReportAddress(r, kind) == Emit([kind |-> kind, about |-> r, at |-> clock])

-----------------------------------------------------------------------------
Next ==
    \/ \E n \in Notices :
        \/ Enqueue(n) \/ RetryManually(n) \/ SuppressManually(n)
        \/ ExpireLease(n) \/ BecomeDue(n) \/ GrowOld(n) \/ Forget(n)
        \/ \E kind \in MailEvents : ReportMail(n, kind)
    \/ \E r \in Recipients, kind \in {"added", "removed"} : ReportAddress(r, kind)
    \/ \E w \in Workers :
        \/ Select(w) \/ WorkerDies(w)
        \/ \E n \in Notices :
            Claim(w, n) \/ Send(w, n) \/ SendFails(w, n) \/ MarkSent(w, n) \/ MarkFailed(w, n)
    \/ \E e \in emitted : Webhook(e)

Spec == Init /\ [][Next]_vars

\* The scheduler runs the dispatcher every five minutes, a worker goes on with what it
\* started unless it dies, and leases and delays run out.  Claims are strongly fair: the
\* workers do not all die, time after time, between selecting a row and claiming it.
Dispatching ==
    /\ \A w \in Workers :
        /\ WF_vars(Select(w))
        /\ \A n \in Notices :
            /\ SF_vars(Claim(w, n))
            /\ WF_vars(Send(w, n) \/ SendFails(w, n))
            /\ WF_vars(MarkSent(w, n) \/ MarkFailed(w, n))
    /\ \A n \in Notices : WF_vars(ExpireLease(n)) /\ WF_vars(BecomeDue(n))

FairSpec == Spec /\ Dispatching

-----------------------------------------------------------------------------
\* Nobody gets the mail of a row twice, although workers die after the provider took it
\* and others start again: retries stop while the provider still knows the key
\* (automaticNotificationRetryIsSafe).
AtMostOneMail == \A n \in Notices : mails[n] <= 1

\* An event that came before its row knew the mail is applied when the row learns it;
\* none is left behind, in whatever order both are recorded (markSent).
NoneLeftBehind == \A e \in unmatched : ~rows[e.about].known

\* An address that bounced or complained stays suppressed until the provider or an
\* administrator says something newer about it (applySuppression).
SuppressionCurrent ==
    \A e \in handled \cup unmatched :
        e.kind \in Suppressing =>
            \/ suppressed[To[e.about]].active
            \/ \E f \in handled : f.kind = "removed" /\ f.about = To[e.about] /\ f.at > e.at

Rank ==
    [ABSENT |-> 0, PENDING |-> 1, FAILED_RETRYABLE |-> 1, PROCESSING |-> 1, SENT |-> 2, FAILED_FINAL |-> 3,
     BOUNCED |-> 3, DELIVERED |-> 4, SUPPRESSED |-> 4, COMPLAINED |-> 5]

\* A row only moves forward: what left the queue never returns to it, and a late worker
\* or webhook does not undo what a newer one recorded
\* (docs/RESEND_WEBHOOKS.md: the transitions are monotone).
MovesForward == [][\A n \in Notices : Rank[rows'[n].status] >= Rank[rows[n].status]]_vars

Exhausted(row) == row.status = "PROCESSING" /\ row.attempts = MaxAttempts

\* A row that is due is settled, unless the worker of its last attempt dies.
SettledOrExhausted ==
    \A n \in Notices :
        rows[n].status = "PENDING" ~> rows[n].status \in Ended \/ []Exhausted(rows[n])
=============================================================================

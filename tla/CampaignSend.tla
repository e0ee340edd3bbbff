----------------------------- MODULE CampaignSend -----------------------------
(***************************************************************************)
(* One campaign from its draft to its last batch: services/campaigns.py    *)
(* snapshots the recipients and enqueues batches after the commit,         *)
(* services/campaign_sender.py sends a batch one recipient per             *)
(* transaction, services/api.py cancels, the operator's form edits, and    *)
(* provider events and unsubscribe links change a recipient afterwards.    *)
(*                                                                         *)
(* The transaction that sends to a recipient selects it FOR UPDATE joined  *)
(* with its campaign, so Postgres locks the recipient row and then the     *)
(* campaign row, and both stay locked during the call to SES.  Cancelling  *)
(* locks the campaign row and then updates the pending recipients.  The    *)
(* two orders can meet; Postgres then aborts one of the transactions.      *)
(*                                                                         *)
(* A recipient is named by its contact (unique per campaign).  last_error, *)
(* tokens of recorded copies, audit events and the engagement counters are *)
(* left out; so is the API's upsert, which under the campaign's lock       *)
(* changes the content of a draft and nothing that is modelled here.       *)
(***************************************************************************)
EXTENDS Integers, FiniteSets

CONSTANTS
    Contact,
    Worker,       \* threads of db_worker
    BatchSizes,   \* values of queue_campaign's batch_size
    NoContact,    \* "no recipient in hand"
    NoForm,       \* "no edit form open"
    MaxRounds,    \* bound: times the campaign is queued
    MaxCopies     \* bound: copies of one recipient's email SES accepts

ASSUME CampaignAssumption ==
    /\ NoContact \notin Contact
    /\ IsFiniteSet(Contact)
    /\ BatchSizes \subseteq Nat \ {0}
    /\ MaxRounds \in Nat
    /\ MaxCopies \in Nat

VARIABLES
    \* the Campaign row
    status,       \* Campaign.status; no code writes the four other values
    recipientCount, skippedCount, sentCount,
    completed,    \* sent_at is set
    \* the CampaignRecipient rows
    recipient,    \* CampaignRecipient.status, or "none"
    recorded,     \* recipients with a ses_message_id
    \* the contacts
    barred,       \* contacts _skip_reason has a reason for
    \* the task table
    round,        \* times the campaign was queued
    hooks,        \* on-commit enqueues that have not run
    batches,      \* READY send_campaign_email_batch tasks
    \* workers
    wpc, todo, cur,
    count, open,  \* what refresh_campaign_send_counts has read
    \* the operator's edit form and the cancelling request
    form, cancelling,
    \* SES, and history the code does not keep
    accepted,     \* copies SES took
    lost,         \* copies whose sending the database knows nothing of
    reopened      \* a stale form wrote "draft" over another status

campaignVars  == <<status, recipientCount, skippedCount, sentCount, completed>>
recipientVars == <<recipient, recorded>>
taskVars      == <<round, hooks, batches>>
workerVars    == <<wpc, todo, cur, count, open>>
sesVars       == <<accepted, lost>>
vars == <<status, recipientCount, skippedCount, sentCount, completed,
          recipient, recorded, barred, round, hooks, batches,
          wpc, todo, cur, count, open, form, cancelling,
          accepted, lost, reopened>>

CampaignStatus  == {"draft", "queued", "cancelled"}
RecipientStatus == {"none", "pending", "sent", "skipped", "failed",
                    "bounced", "complained", "unsubscribed"}

\* Phases that hold the campaign's row, and those that hold a recipient's:
\* "row" has its recipient locked and waits for the campaign.
Holding == {"ses", "taken"}
Locking == {"row"} \cup Holding
WorkerPhase == {"idle", "next", "failing", "checking", "writing"} \cup Locking

Batch == [round : 1..MaxRounds, members : SUBSET Contact]

\* What an open edit form keeps of the row it loaded.
FormData == [recipients : Nat, skipped : Nat, sent : Nat, completed : BOOLEAN]

TypeOK ==
    /\ status \in CampaignStatus
    /\ recipientCount \in Nat /\ skippedCount \in Nat /\ sentCount \in Nat
    /\ completed \in BOOLEAN
    /\ recipient \in [Contact -> RecipientStatus]
    /\ recorded \subseteq Contact
    /\ barred \subseteq Contact
    /\ round \in 0..MaxRounds
    /\ hooks \subseteq Batch
    /\ batches \subseteq Batch
    /\ wpc \in [Worker -> WorkerPhase]
    /\ todo \in [Worker -> SUBSET Contact]
    /\ cur \in [Worker -> Contact \cup {NoContact}]
    /\ count \in [Worker -> Nat]
    /\ open \in [Worker -> BOOLEAN]
    /\ form \in FormData \cup {NoForm}
    /\ cancelling \in BOOLEAN
    /\ accepted \in [Contact -> 0..MaxCopies]
    /\ lost \in [Contact -> Nat]
    /\ reopened \in BOOLEAN

Init ==
    /\ status = "draft"
    /\ recipientCount = 0 /\ skippedCount = 0 /\ sentCount = 0
    /\ completed = FALSE
    /\ recipient = [c \in Contact |-> "none"]
    /\ recorded = {}
    /\ barred \in SUBSET Contact
    /\ round = 0
    /\ hooks = {}
    /\ batches = {}
    /\ wpc = [w \in Worker |-> "idle"]
    /\ todo = [w \in Worker |-> {}]
    /\ cur = [w \in Worker |-> NoContact]
    /\ count = [w \in Worker |-> 0]
    /\ open = [w \in Worker |-> FALSE]
    /\ form = NoForm
    /\ cancelling = FALSE
    /\ accepted = [c \in Contact |-> 0]
    /\ lost = [c \in Contact |-> 0]
    /\ reopened = FALSE

-----------------------------------------------------------------------------
(* Row locks.                                                              *)

\* The campaign row can be locked or updated.
CampaignFree == ~cancelling /\ \A w \in Worker : wpc[w] \notin Holding

\* The recipient row can be locked or updated.
RowFree(c) == \A w \in Worker : wpc[w] \in Locking => cur[w] # c

-----------------------------------------------------------------------------
(* Queueing.                                                               *)

With(rows, statuses) == {c \in Contact : rows[c] \in statuses}

\* Mutant: recipients that failed count as sent.
AttemptedIn(rows) == Cardinality(With(rows, RecipientStatus \ {"none", "pending", "skipped"}))

\* Rows with status "sent".
SentIn(rows) == Cardinality(With(rows, {"sent"}))

\* get_or_create for every candidate contact: a known recipient keeps its row.
Snapshot(candidates) ==
    [c \in Contact |-> IF c \in candidates /\ recipient[c] = "none"
                       THEN IF c \in barred THEN "skipped" ELSE "pending"
                       ELSE recipient[c]]

\* _campaign_email_payloads: slices of one size, the last may be shorter.
Slicings(ids, size) ==
    {slices \in SUBSET SUBSET ids :
        /\ UNION slices = ids
        /\ \A s \in slices : s # {} /\ Cardinality(s) <= size
        /\ \A s, t \in slices : s # t => s \cap t = {}
        /\ \A s, t \in slices :
             Cardinality(s) < size /\ Cardinality(t) < size => s = t}

\* queue_campaign, under the campaign's lock; the enqueues wait for the commit.
QueueCampaign(candidates, size) ==
    LET rows == Snapshot(candidates)
    IN /\ CampaignFree
       /\ status = "draft"
       /\ round < MaxRounds
       /\ status' = "queued"
       /\ recipient' = rows
       /\ recipientCount' =
            Cardinality(With(rows, RecipientStatus \ {"none", "skipped"}))
       /\ skippedCount' = Cardinality(With(rows, {"skipped"}))
       /\ sentCount' = SentIn(rows)
       /\ round' = round + 1
       /\ \E slices \in Slicings(With(rows, {"pending"}), size) :
            hooks' = hooks \cup {[round |-> round + 1, members |-> s] : s \in slices}
       /\ UNCHANGED <<completed, recorded, barred, batches, workerVars, form,
                      cancelling, sesVars, reopened>>

\* One taskdeck.enqueue_on_commit callback.
EnqueueBatch(b) ==
    /\ b \in hooks
    /\ hooks' = hooks \ {b}
    /\ batches' = batches \cup {b}
    /\ UNCHANGED <<campaignVars, recipientVars, barred, round, workerVars, form,
                   cancelling, sesVars, reopened>>

\* A callback raises or the process dies: the callbacks behind it never run.
LoseHooks ==
    /\ hooks # {}
    /\ hooks' = {}
    /\ UNCHANGED <<campaignVars, recipientVars, barred, round, batches, workerVars,
                   form, cancelling, sesVars, reopened>>

-----------------------------------------------------------------------------
(* The operator's edit form.                                               *)

\* campaign_edit loads the row without a lock; the form accepts a draft.
OpenForm ==
    /\ form = NoForm
    /\ status = "draft"
    /\ form' = [recipients |-> recipientCount, skipped |-> skippedCount,
                sent |-> sentCount, completed |-> completed]
    /\ UNCHANGED <<campaignVars, recipientVars, barred, taskVars, workerVars,
                   cancelling, sesVars, reopened>>

\* campaign.save() without update_fields: every column as it was loaded.
SaveForm ==
    /\ form # NoForm
    /\ CampaignFree
    /\ status' = "draft"
    /\ recipientCount' = form.recipients
    /\ skippedCount' = form.skipped
    /\ sentCount' = form.sent
    /\ completed' = form.completed
    /\ reopened' = (reopened \/ status # "draft")
    /\ form' = NoForm
    /\ UNCHANGED <<recipientVars, barred, taskVars, workerVars, cancelling, sesVars>>

\* The form is rejected.
RejectForm ==
    /\ form # NoForm
    /\ form' = NoForm
    /\ UNCHANGED <<campaignVars, recipientVars, barred, taskVars, workerVars,
                   cancelling, sesVars, reopened>>

-----------------------------------------------------------------------------
(* Cancelling: cancel_campaign_for_client.                                 *)

CancelDraft ==
    /\ CampaignFree
    /\ status = "draft"
    /\ status' = "cancelled"
    /\ UNCHANGED <<recipientCount, skippedCount, sentCount, completed, recipientVars,
                   barred, taskVars, workerVars, form, cancelling, sesVars, reopened>>

\* The campaign row is locked and the conditions hold.
BeginCancel ==
    /\ CampaignFree
    /\ status = "queued"
    /\ sentCount = 0
    /\ SentIn(recipient) = 0
    /\ cancelling' = TRUE
    /\ UNCHANGED <<campaignVars, recipientVars, barred, taskVars, workerVars, form,
                   sesVars, reopened>>

\* Mutant: the rows that were skipped stay in recipient_count.
CountLeftAlone(n) == recipientCount

\* campaign.recipient_count = max(campaign.recipient_count - skipped, 0)
CountWithout(n) == IF n < recipientCount THEN recipientCount - n ELSE 0

\* The recipients the cancel's UPDATE selects.
ToSkip == With(recipient, {"pending"})

\* The UPDATE of the pending rows waits until no sender holds one of them.
CommitCancel ==
    /\ cancelling
    /\ \A c \in ToSkip : RowFree(c)
    /\ recipient' = [c \in Contact |-> IF c \in ToSkip THEN "skipped" ELSE recipient[c]]
    /\ skippedCount' = skippedCount + Cardinality(ToSkip)
    /\ recipientCount' = CountWithout(Cardinality(ToSkip))
    /\ status' = "cancelled"
    /\ cancelling' = FALSE
    /\ UNCHANGED <<sentCount, completed, recorded, barred, taskVars, workerVars, form,
                   sesVars, reopened>>

\* The cancelling transaction is aborted: its process died, or Postgres
\* resolved a deadlock against it.
AbortCancel ==
    /\ cancelling
    /\ cancelling' = FALSE
    /\ UNCHANGED <<campaignVars, recipientVars, barred, taskVars, workerVars, form,
                   sesVars, reopened>>

-----------------------------------------------------------------------------
(* Sending a batch: send_campaign_batch.                                   *)

WorkerTo(w, phase) ==
    /\ wpc' = [wpc EXCEPT ![w] = phase]
    /\ UNCHANGED <<todo, cur, count, open>>

\* The recipient in hand is done with, and its locks are released.
NextRecipient(w) ==
    /\ wpc' = [wpc EXCEPT ![w] = "next"]
    /\ todo' = [todo EXCEPT ![w] = @ \ {cur[w]}]
    /\ cur' = [cur EXCEPT ![w] = NoContact]
    /\ UNCHANGED <<count, open>>

WorkerDone(w, phase) ==
    /\ wpc' = [wpc EXCEPT ![w] = phase]
    /\ todo' = [todo EXCEPT ![w] = {}]
    /\ cur' = [cur EXCEPT ![w] = NoContact]
    /\ count' = [count EXCEPT ![w] = 0]
    /\ open' = [open EXCEPT ![w] = FALSE]

\* The backend hands a task out once.
TakeBatch(w, b) ==
    /\ wpc[w] = "idle"
    /\ b \in batches
    /\ batches' = batches \ {b}
    /\ wpc' = [wpc EXCEPT ![w] = "next"]
    /\ todo' = [todo EXCEPT ![w] = b.members]
    /\ UNCHANGED <<campaignVars, recipientVars, barred, round, hooks, cur, count, open,
                   form, cancelling, sesVars, reopened>>

\* SELECT ... FOR UPDATE reaches the recipient's row first.
LockRow(w, c) ==
    /\ wpc[w] = "next"
    /\ c \in todo[w]
    /\ RowFree(c)
    /\ wpc' = [wpc EXCEPT ![w] = "row"]
    /\ cur' = [cur EXCEPT ![w] = c]
    /\ UNCHANGED <<campaignVars, recipientVars, barred, taskVars, todo, count, open,
                   form, cancelling, sesVars, reopened>>

\* Mutant: "failed" is taken for a status to retry.
UnsettledOrFailed(c) == recipient[c] \in {"pending", "failed"}

\* Neither a terminal status nor a ses_message_id.
Unsettled(c) == recipient[c] = "pending" /\ c \notin recorded

\* Mutant: the campaign's status is not looked at again.
AssumedQueued == FALSE

\* The campaign was cancelled since the batch was enqueued.
Cancelled == status = "cancelled"

\* ... then the campaign's; a settled recipient is left alone,
SkipSettled(w) ==
    /\ wpc[w] = "row"
    /\ CampaignFree
    /\ ~Unsettled(cur[w])
    /\ NextRecipient(w)
    /\ UNCHANGED <<campaignVars, recipientVars, barred, taskVars, form, cancelling,
                   sesVars, reopened>>

\* a cancelled campaign's is skipped,
SkipCancelled(w) ==
    /\ wpc[w] = "row"
    /\ CampaignFree
    /\ Unsettled(cur[w])
    /\ Cancelled
    /\ recipient' = [recipient EXCEPT ![cur[w]] = "skipped"]
    /\ NextRecipient(w)
    /\ UNCHANGED <<campaignVars, recorded, barred, taskVars, form, cancelling,
                   sesVars, reopened>>

\* and any other is sent to, whatever happened to its contact since the
\* snapshot.
BeginSend(w) ==
    /\ wpc[w] = "row"
    /\ CampaignFree
    /\ Unsettled(cur[w])
    /\ ~Cancelled
    /\ WorkerTo(w, "ses")
    /\ UNCHANGED <<campaignVars, recipientVars, barred, taskVars, form, cancelling,
                   sesVars, reopened>>

\* SES takes the email; the transaction has not committed yet.
SesAccepts(w) ==
    /\ wpc[w] = "ses"
    /\ accepted[cur[w]] < MaxCopies
    /\ accepted' = [accepted EXCEPT ![cur[w]] = @ + 1]
    /\ WorkerTo(w, "taken")
    /\ UNCHANGED <<campaignVars, recipientVars, barred, taskVars, form, cancelling,
                   lost, reopened>>

\* The rest of the transaction: status, ses_message_id, event, commit.
CommitSent(w) ==
    /\ wpc[w] = "taken"
    /\ recipient' = [recipient EXCEPT ![cur[w]] = "sent"]
    /\ recorded' = recorded \cup {cur[w]}
    /\ NextRecipient(w)
    /\ UNCHANGED <<campaignVars, barred, taskVars, form, cancelling, sesVars, reopened>>

\* _mark_recipient_failed; the batch goes on.
SesRefuses(w) ==
    /\ wpc[w] = "ses"
    /\ recipient' = [recipient EXCEPT ![cur[w]] = "failed"]
    /\ NextRecipient(w)
    /\ UNCHANGED <<campaignVars, recorded, barred, taskVars, form, cancelling,
                   sesVars, reopened>>

\* is_retryable_send_error: throttled, or an answer that never came, which
\* leaves open whether SES took the email; botocore may also send it again
\* before it raises.  The transaction is rolled back with the hashes of the
\* tokens the email carries, and the batch is given up: the recipients behind
\* this one are not tried.
SesUncertain(w) ==
    /\ wpc[w] = "ses"
    /\ \/ UNCHANGED sesVars /\ WorkerDone(w, "failing")
       \/ /\ accepted[cur[w]] < MaxCopies
          /\ accepted' = [accepted EXCEPT ![cur[w]] = @ + 1]
          /\ lost' = [lost EXCEPT ![cur[w]] = @ + 1]
          /\ WorkerDone(w, "failing") \/ WorkerTo(w, "ses")
    /\ UNCHANGED <<campaignVars, recipientVars, barred, taskVars, form, cancelling,
                   reopened>>

\* refresh_campaign_send_counts, three autocommitted statements: both ends of
\* a batch run it.
CountSent(w) ==
    /\ wpc[w] = "failing" \/ (wpc[w] = "next" /\ todo[w] = {})
    /\ count' = [count EXCEPT ![w] = SentIn(recipient)]
    /\ wpc' = [wpc EXCEPT ![w] = "checking"]
    /\ UNCHANGED <<campaignVars, recipientVars, barred, taskVars, todo, cur, open,
                   form, cancelling, sesVars, reopened>>

\* Mutant: sent_at is set by the first batch that sends anything.
NothingOpen == FALSE

\* pending_exists
PendingExists == With(recipient, {"pending"}) # {}

CheckPending(w) ==
    /\ wpc[w] = "checking"
    /\ open' = [open EXCEPT ![w] = PendingExists]
    /\ wpc' = [wpc EXCEPT ![w] = "writing"]
    /\ UNCHANGED <<campaignVars, recipientVars, barred, taskVars, todo, cur, count,
                   form, cancelling, sesVars, reopened>>

WriteCounts(w) ==
    /\ wpc[w] = "writing"
    /\ CampaignFree
    /\ sentCount' = count[w]
    /\ completed' = (completed \/ (count[w] > 0 /\ ~open[w]))
    /\ WorkerDone(w, "idle")
    /\ UNCHANGED <<status, recipientCount, skippedCount, recipientVars, barred, taskVars,
                   form, cancelling, sesVars, reopened>>

\* The process dies, or an exception that is not retryable escapes: an open
\* transaction is rolled back and the task is not run again.
WorkerDies(w) ==
    /\ wpc[w] # "idle"
    /\ lost' = IF wpc[w] = "taken" THEN [lost EXCEPT ![cur[w]] = @ + 1] ELSE lost
    /\ WorkerDone(w, "idle")
    /\ UNCHANGED <<campaignVars, recipientVars, barred, taskVars, form, cancelling,
                   accepted, reopened>>

\* The sender holds a row the cancel's UPDATE waits for and waits for the
\* campaign row itself.
Deadlocked(w) == cancelling /\ wpc[w] = "row" /\ cur[w] \in ToSkip

\* Mutant: the batch catches the error and tries the recipient again.
TriesAgain(w) ==
    /\ wpc' = [wpc EXCEPT ![w] = "next"]
    /\ cur' = [cur EXCEPT ![w] = NoContact]
    /\ UNCHANGED <<todo, count, open>>

\* send_campaign_batch catches RetryableCampaignSendError only: a database error
\* ends the task.
GivesUp(w) == WorkerDone(w, "idle")

\* Postgres sees the cycle and aborts the sender with an OperationalError ...
DeadlockAbortsSend(w) ==
    /\ Deadlocked(w)
    /\ GivesUp(w)
    /\ UNCHANGED <<campaignVars, recipientVars, barred, taskVars, form, cancelling,
                   sesVars, reopened>>

\* ... or the cancelling request.
DeadlockAbortsCancel(w) == Deadlocked(w) /\ AbortCancel

-----------------------------------------------------------------------------
(* After the send.                                                         *)

\* The status an event leaves the recipient in.
StatusOf == [hard_bounce |-> "bounced", complaint |-> "complained", reject |-> "failed"]

\* process_ses_webhook for an event about the recorded copy; an event about a
\* copy the database does not know changes nothing here.
Webhook(c, kind) ==
    /\ c \in recorded
    /\ RowFree(c)
    /\ CampaignFree
    /\ recipient' = [recipient EXCEPT ![c] = StatusOf[kind]]
    /\ barred' = IF kind = "reject" THEN barred ELSE barred \cup {c}
    /\ UNCHANGED <<campaignVars, recorded, taskVars, workerVars, form, cancelling,
                   sesVars, reopened>>

\* apply_unsubscribe, in any scope: only a recorded copy's link is known.
Unsubscribe(c) ==
    /\ c \in recorded
    /\ RowFree(c)
    /\ CampaignFree
    /\ recipient' = [recipient EXCEPT ![c] = "unsubscribed"]
    /\ barred' = barred \cup {c}
    /\ UNCHANGED <<campaignVars, recorded, taskVars, workerVars, form, cancelling,
                   sesVars, reopened>>

\* Other campaigns, the API and imports change what _skip_reason says.
ContactChanges(c) ==
    /\ barred' = IF c \in barred THEN barred \ {c} ELSE barred \cup {c}
    /\ UNCHANGED <<campaignVars, recipientVars, taskVars, workerVars, form, cancelling,
                   sesVars, reopened>>

-----------------------------------------------------------------------------

Queueing ==
    \/ \E candidates \in SUBSET Contact, size \in BatchSizes :
         QueueCampaign(candidates, size)
    \/ \E b \in hooks : EnqueueBatch(b)
    \/ LoseHooks

EditForm == OpenForm \/ SaveForm \/ RejectForm

Cancel == CancelDraft \/ BeginCancel \/ CommitCancel \/ AbortCancel

\* With the recipient's row locked, the campaign row is waited for.
GetCampaign(w) == SkipSettled(w) \/ SkipCancelled(w) \/ BeginSend(w)

Answer(w) == SesAccepts(w) \/ SesRefuses(w) \/ SesUncertain(w)

Refresh(w) == CountSent(w) \/ CheckPending(w)

Next ==
    \/ Queueing
    \/ EditForm
    \/ Cancel
    \/ \E w \in Worker :
         \/ \E b \in batches : TakeBatch(w, b)
         \/ \E c \in Contact : LockRow(w, c)
         \/ GetCampaign(w)
         \/ Answer(w)
         \/ CommitSent(w)
         \/ Refresh(w)
         \/ WriteCounts(w)
         \/ WorkerDies(w)
         \/ DeadlockAbortsSend(w)
         \/ DeadlockAbortsCancel(w)
    \/ \E c \in Contact :
         \/ \E kind \in DOMAIN StatusOf : Webhook(c, kind)
         \/ Unsubscribe(c)
         \/ ContactChanges(c)

Spec == Init /\ [][Next]_vars

-----------------------------------------------------------------------------
(* Safety.                                                                 *)

\* SES took a copy whose transaction is still open.
InFlight(c) == \E w \in Worker : wpc[w] = "taken" /\ cur[w] = c

\* Overlapping batches, reopened campaigns and later events never cause a
\* second copy of an email the database knows it has sent: of all copies but
\* those whose transaction was rolled back, one is recorded or about to be.
OneRecordedCopy ==
    \A c \in Contact :
        accepted[c] = lost[c] + (IF c \in recorded \/ InFlight(c) THEN 1 ELSE 0)

\* Once a campaign is cancelled no email leaves, whatever batches are still
\* in the task table or in the hands of a worker.
CancelStopsSending ==
    [][status = "cancelled" => accepted' = accepted]_vars

\* A cancelled campaign has no pending recipient and its counters agree with
\* its recipients, as they do after queueing, unless a stale form has written
\* over them.
CountsAgree ==
    ~reopened =>
        /\ status = "cancelled" => With(recipient, {"pending"}) = {}
        /\ recipientCount = Cardinality(With(recipient, RecipientStatus \ {"none", "skipped"}))
        /\ skippedCount = Cardinality(With(recipient, {"skipped"}))

\* sent_count, the denominator of every rate, is the stale result of an
\* unlocked query but never exceeds the number of recorded sends.
SentCountIsHonest ==
    /\ sentCount <= Cardinality(recorded)
    /\ \A w \in Worker : count[w] <= Cardinality(recorded)

\* sent_at is set by the last batch that leaves nobody pending, although the
\* batches' counts are read and written without a lock.
CompletedMeansDone ==
    completed /\ ~reopened => With(recipient, {"pending"}) = {} /\ recorded # {}

\* A recipient refused at the snapshot stays refused: queueing again does not
\* judge it again, and no copy is ever sent to it.
RefusedForGood ==
    [][\A c \in Contact : recipient[c] = "skipped" =>
         recipient'[c] = "skipped" /\ accepted'[c] = accepted[c]]_vars

\* A recipient's message, with its row folded into one phase.
PhaseOf(c) ==
    IF c \in recorded THEN "delivered"
    ELSE IF recipient[c] = "none" THEN "absent"
    ELSE IF recipient[c] = "pending" THEN "open" ELSE "refused"

\* The copies that left in transactions that have ended.
Departed(c) == accepted[c] - (IF InFlight(c) THEN 1 ELSE 0)

Promise == INSTANCE MessagePromise
             WITH Message <- Contact,
                  phase   <- [c \in Contact |-> PhaseOf(c)],
                  copies  <- [c \in Contact |-> Departed(c)]

\* A campaign implements MessagePromise for each recipient, as the transactional
\* pipeline does, however often a stale form reopens it and it is queued again.
KeepsPromise == Promise!Spec

-----------------------------------------------------------------------------
(* The inductive invariant behind these.                                   *)

\* Who holds the campaign's row holds it alone, together with a recipient
\* nobody has sent to.
LocksHeld ==
    \A w \in Worker :
        /\ wpc[w] \in Locking => cur[w] \in Contact
        /\ wpc[w] \in Holding =>
             /\ ~cancelling
             /\ status # "cancelled"
             /\ Unsettled(cur[w])
             /\ \A v \in Worker \ {w} : wpc[v] \notin Holding

\* What a ses_message_id says of the status.
RecordsAgree ==
    \A c \in Contact :
        /\ c \in recorded => recipient[c] \notin {"none", "pending", "skipped"}
        /\ recipient[c] = "sent" => c \in recorded

\* Counts that were read and not yet written are no newer than the records.
CountsAreOld ==
    /\ SentCountIsHonest
    /\ form # NoForm => form.sent <= Cardinality(recorded)

\* A draft nobody has reopened has no recipients, tasks or counts.
FreshDraft ==
    status = "draft" /\ ~reopened =>
        /\ recipient = [c \in Contact |-> "none"]
        /\ hooks = {} /\ batches = {}
        /\ \A w \in Worker : wpc[w] = "idle"
        /\ recipientCount = 0 /\ skippedCount = 0 /\ ~completed
        /\ form # NoForm => form.recipients = 0 /\ form.skipped = 0 /\ ~form.completed

\* A worker about to write that nobody is pending is still right.
NobodyPending ==
    \A w \in Worker : wpc[w] = "writing" /\ ~open[w] /\ ~reopened =>
        With(recipient, {"pending"}) = {}

IInv ==
    /\ TypeOK
    /\ LocksHeld
    /\ RecordsAgree
    /\ OneRecordedCopy
    /\ CountsAreOld
    /\ FreshDraft
    /\ NobodyPending
    /\ CountsAgree
    /\ CompletedMeansDone

-----------------------------------------------------------------------------
(* Liveness.                                                               *)

\* Workers keep running, SES answers, Postgres grants locks in turn and
\* resolves deadlocks; the cancelling request commits once it can.
Fairness ==
    /\ \A w \in Worker :
         /\ WF_vars(Answer(w) \/ CommitSent(w) \/ Refresh(w))
         /\ SF_vars(\E c \in Contact : LockRow(w, c))
         /\ SF_vars(GetCampaign(w))
         /\ SF_vars(WriteCounts(w))
    /\ WF_vars(CommitCancel)
    /\ WF_vars(\E w \in Worker : DeadlockAbortsSend(w) \/ DeadlockAbortsCancel(w))

FairSpec == Spec /\ Fairness

\* No order of lock waits wedges a worker or keeps it going round: every batch
\* that is begun ends.
BatchesEnd == \A w \in Worker : wpc[w] # "idle" ~> wpc[w] = "idle"

-----------------------------------------------------------------------------
(* Stated by the repository, and not what the code does.                   *)

\* forms.py: "Queued or sent campaigns cannot be edited from this form."
OnlyDraftsEdited == [][status = "queued" => status' # "draft"]_vars

=============================================================================

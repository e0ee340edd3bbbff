------------------------ MODULE TransactionalDelivery ------------------------
(***************************************************************************)
(* One transactional message row from the API request that creates it to   *)
(* the provider events that close it: services/transactional.py creates    *)
(* rows and enqueues tasks after the commit, tasks.py fans bulk sends out, *)
(* services/transactional_sender.py claims a row, calls SES outside any    *)
(* transaction and records the answer, the reenqueue command puts queued   *)
(* rows back in the task table, and services/ses_webhooks.py applies the   *)
(* provider's events.                                                      *)
(*                                                                         *)
(* A Message stands for a (client, idempotency_key) pair; its row is       *)
(* "absent" until a request creates it.  A request without a key gets a    *)
(* fresh one and is a Message nobody asks for again.  Each action below is *)
(* one committed transaction, one autocommitted statement or one call to   *)
(* the outside.                                                            *)
(***************************************************************************)
EXTENDS Naturals, FiniteSets

CONSTANTS
    Message,      \* (client, idempotency_key) pairs
    Contact,
    ContactOf,    \* the contact each message is addressed to
    Tagged,       \* messages whose payload carries a category_tag
    Requester,    \* API threads
    Worker,       \* threads of db_worker
    NoMessage,    \* "no task in hand"
    Published,    \* kinds of event the SES configuration set publishes
    MaxTasks,     \* bound: pending tasks per message
    MaxCopies     \* bound: copies of one message SES accepts

\* What SES reports.  A click is handled like an open, a delivery only
\* stamps delivered_at.
Kind == {"delivery", "open", "soft_bounce", "hard_bounce", "complaint", "reject"}

ASSUME DeliveryAssumption ==
    /\ Published \subseteq Kind
    /\ ContactOf \in [Message -> Contact]
    /\ Tagged \subseteq Message
    /\ NoMessage \notin Message
    /\ MaxTasks \in Nat \ {0}
    /\ MaxCopies \in Nat \ {0}

VARIABLES
    \* the database
    row,          \* TransactionalMessage.status, or "absent"
    lastError,    \* messages whose last_error is not empty
    sesId,        \* which copy ses_message_id names; 0 for ""
    openCount,    \* TransactionalMessage.open_count
    suppressed,   \* contacts with hard_bounced_at or complained_at
    recorded,     \* provider_event_ids with an EmailEvent row
    \* the task table
    tasks,        \* READY send_transactional_email tasks per message
    batches,      \* READY send_transactional_email_batch tasks
    \* API threads
    rpc, want, bulk,
    \* workers
    wpc, job, copy, todo,
    \* the reenqueue command: the rows its query returned
    scan,
    \* SES, and history the code does not keep
    accepted,     \* copies SES took
    lostAnswers,  \* copies whose answer never reached the worker
    acked,        \* messages for which a worker received a MessageId
    dropped       \* messages whose enqueue or unclaimed task was lost

dbVars     == <<row, lastError, sesId, openCount, suppressed, recorded>>
taskVars   == <<tasks, batches>>
apiVars    == <<rpc, want, bulk>>
workerVars == <<wpc, job, copy, todo>>
sesVars    == <<accepted, lostAnswers, acked>>
vars == <<row, lastError, sesId, openCount, suppressed, recorded,
          tasks, batches, rpc, want, bulk, wpc, job, copy, todo, scan,
          accepted, lostAnswers, acked, dropped>>

\* transactional_sender.TERMINAL_ACK_STATUSES
Terminal == {"sent", "skipped", "failed", "bounced", "complained"}
Status   == {"absent", "queued", "sending"} \cup Terminal

RequesterPhase == {"idle", "checked", "committed"}

\* Mutant: a stuck send is claimed again.
MayClaimSending(m) == row[m] \in {"queued", "sending"}

\* Mutant: a failed send is claimed again.
MayClaimFailed(m) == row[m] \in {"queued", "failed"}

\* The one status _claim_message_for_send turns into "sending".
MayClaim(m) == row[m] = "queued"

\* The status _mark_retryable puts a row back in.
RetryStatus == "queued"

\* Mutant: the retry forgets to write last_error.
ErrorForgotten(m) == lastError

\* _mark_retryable writes last_error in the same UPDATE.
ErrorAfterRetry(m) == lastError \cup {m}

\* Mutant: the command takes rows with an error for settled ones.
RecoverableUnlessTried(m) == row[m] = "queued" /\ m \notin lastError

\* What the reenqueue command's query selects on.
Recoverable(m) == row[m] = "queued"

\* Mutant: no unique (client, idempotency_key) constraint.
InsertAnyway(keys) == TRUE

\* The unique constraint lets the INSERTs of these keys through.
Insertable(keys) == \A m \in keys : row[m] = "absent"

\* Mutant: duplicates are not looked up.
AlwaysNew(e) == e.copy <= accepted[e.msg]

\* No EmailEvent has this provider_event_id yet.
Unseen(e) == e.copy <= accepted[e.msg] /\ e \notin recorded

\* "send" .. "retry" is the span in which the worker holds its claim.
Owning      == {"send", "accepted", "rejected", "retry"}
WorkerPhase == {"idle", "claim", "note", "fanout"} \cup Owning

ProviderEvent == [msg : Message, copy : 1..MaxCopies, kind : Published]

TypeOK ==
    /\ row \in [Message -> Status]
    /\ lastError \subseteq Message
    /\ sesId \in [Message -> 0..MaxCopies]
    /\ openCount \in [Message -> Nat]
    /\ suppressed \subseteq Contact
    /\ recorded \subseteq ProviderEvent
    /\ tasks \in [Message -> Nat]
    /\ batches \subseteq SUBSET Message
    /\ rpc \in [Requester -> RequesterPhase]
    /\ want \in [Requester -> SUBSET Message]
    /\ bulk \in [Requester -> BOOLEAN]
    /\ wpc \in [Worker -> WorkerPhase]
    /\ job \in [Worker -> Message \cup {NoMessage}]
    /\ copy \in [Worker -> 0..MaxCopies]
    /\ todo \in [Worker -> SUBSET Message]
    /\ scan \subseteq Message
    /\ accepted \in [Message -> 0..MaxCopies]
    /\ lostAnswers \in [Message -> Nat]
    /\ acked \subseteq Message
    /\ dropped \subseteq Message

Init ==
    /\ row = [m \in Message |-> "absent"]
    /\ lastError = {}
    /\ sesId = [m \in Message |-> 0]
    /\ openCount = [m \in Message |-> 0]
    /\ suppressed = {}
    /\ recorded = {}
    /\ tasks = [m \in Message |-> 0]
    /\ batches = {}
    /\ rpc = [q \in Requester |-> "idle"]
    /\ want = [q \in Requester |-> {}]
    /\ bulk = [q \in Requester |-> FALSE]
    /\ wpc = [w \in Worker |-> "idle"]
    /\ job = [w \in Worker |-> NoMessage]
    /\ copy = [w \in Worker |-> 0]
    /\ todo = [w \in Worker |-> {}]
    /\ scan = {}
    /\ accepted = [m \in Message |-> 0]
    /\ lostAnswers = [m \in Message |-> 0]
    /\ acked = {}
    /\ dropped = {}

-----------------------------------------------------------------------------
(* The API: one request creates a row, a list request one per member.      *)

RequesterDone(q) ==
    /\ rpc' = [rpc EXCEPT ![q] = "idle"]
    /\ want' = [want EXCEPT ![q] = {}]
    /\ bulk' = [bulk EXCEPT ![q] = FALSE]

\* find_existing_message: the keys that already have a row are replays and
\* are neither created nor enqueued again.  A single send asks for one key.
CheckKeys(q, keys, isBulk) ==
    LET fresh == {m \in keys : row[m] = "absent"}
    IN /\ rpc[q] = "idle"
       /\ isBulk \/ Cardinality(keys) = 1
       /\ fresh # {}
       /\ rpc' = [rpc EXCEPT ![q] = "checked"]
       /\ want' = [want EXCEPT ![q] = fresh]
       /\ bulk' = [bulk EXCEPT ![q] = isBulk]
       /\ UNCHANGED <<dbVars, taskVars, workerVars, scan, sesVars, dropped>>

\* transactional_delivery_decision over the keys of one request: hard
\* suppression always refuses, a category preference may refuse a tagged one.
Decision(allowed, keys) ==
    /\ allowed \subseteq keys
    /\ \A m \in allowed : ContactOf[m] \notin suppressed
    /\ \A m \in keys \ allowed : ContactOf[m] \in suppressed \/ m \in Tagged

\* The transaction: every row is created, queued or skipped, or none is (the
\* unique (client, idempotency_key) constraint aborts the slower request).
CommitRows(q) ==
    /\ rpc[q] = "checked"
    /\ Insertable(want[q])
    /\ \E allowed \in SUBSET want[q] :
         /\ Decision(allowed, want[q])
         /\ row' = [m \in Message |->
              IF m \in allowed THEN "queued"
              ELSE IF m \in want[q] THEN "skipped" ELSE row[m]]
         /\ lastError' = lastError \cup (want[q] \ allowed)
         /\ IF allowed = {}
            THEN RequesterDone(q)
            ELSE /\ rpc' = [rpc EXCEPT ![q] = "committed"]
                 /\ want' = [want EXCEPT ![q] = allowed]
                 /\ UNCHANGED bulk
    /\ UNCHANGED <<sesId, openCount, suppressed, recorded,
                   taskVars, workerVars, scan, sesVars, dropped>>

\* IntegrityError on the unique constraint, or any other failure before the
\* commit: the transaction is rolled back and nothing was enqueued.
RollBack(q) ==
    /\ rpc[q] = "checked"
    /\ RequesterDone(q)
    /\ UNCHANGED <<dbVars, taskVars, workerVars, scan, sesVars, dropped>>

\* transaction.on_commit: one send task, or one parent task for a list.
EnqueueOnCommit(q) ==
    /\ rpc[q] = "committed"
    /\ IF bulk[q]
       THEN batches' = batches \cup {want[q]} /\ UNCHANGED tasks
       ELSE /\ tasks' = [m \in Message |->
                  IF m \in want[q] THEN tasks[m] + 1 ELSE tasks[m]]
            /\ UNCHANGED batches
    /\ RequesterDone(q)
    /\ UNCHANGED <<dbVars, workerVars, scan, sesVars, dropped>>

\* The enqueue raises, or the process dies between commit and enqueue.
LoseEnqueue(q) ==
    /\ rpc[q] = "committed"
    /\ dropped' = dropped \cup want[q]
    /\ RequesterDone(q)
    /\ UNCHANGED <<dbVars, taskVars, workerVars, scan, sesVars>>

-----------------------------------------------------------------------------
(* The worker.                                                             *)

WorkerDone(w) ==
    /\ wpc' = [wpc EXCEPT ![w] = "idle"]
    /\ job' = [job EXCEPT ![w] = NoMessage]
    /\ copy' = [copy EXCEPT ![w] = 0]
    /\ todo' = [todo EXCEPT ![w] = {}]

WorkerTo(w, phase) ==
    /\ wpc' = [wpc EXCEPT ![w] = phase]
    /\ UNCHANGED <<job, copy, todo>>

TakeBatch(w, batch) ==
    /\ wpc[w] = "idle"
    /\ batch \in batches
    /\ batches' = batches \ {batch}
    /\ wpc' = [wpc EXCEPT ![w] = "fanout"]
    /\ todo' = [todo EXCEPT ![w] = batch]
    /\ UNCHANGED <<dbVars, tasks, apiVars, job, copy, scan, sesVars, dropped>>

\* One turn of send_transactional_email_batch's loop.
FanOut(w, m) ==
    /\ wpc[w] = "fanout"
    /\ m \in todo[w]
    /\ tasks' = [tasks EXCEPT ![m] = @ + 1]
    /\ IF todo[w] = {m}
       THEN WorkerDone(w)
       ELSE /\ todo' = [todo EXCEPT ![w] = @ \ {m}]
            /\ UNCHANGED <<wpc, job, copy>>
    /\ UNCHANGED <<dbVars, batches, apiVars, scan, sesVars, dropped>>

\* The backend hands a task to a worker once; it never hands it out again.
TakeTask(w, m) ==
    /\ wpc[w] = "idle"
    /\ tasks[m] > 0
    /\ tasks' = [tasks EXCEPT ![m] = @ - 1]
    /\ wpc' = [wpc EXCEPT ![w] = "claim"]
    /\ job' = [job EXCEPT ![w] = m]
    /\ UNCHANGED <<dbVars, batches, apiVars, copy, todo, scan, sesVars, dropped>>

\* _claim_message_for_send, under the row lock.  The payload always matches
\* the row: build_transactional_queue_payload copies the row's client and
\* key, and neither is ever updated.
ClaimTerminal(w) ==
    /\ wpc[w] = "claim"
    /\ row[job[w]] \in Terminal
    /\ WorkerDone(w)
    /\ UNCHANGED <<dbVars, taskVars, apiVars, scan, sesVars, dropped>>

ClaimSending(w) ==
    /\ wpc[w] = "claim"
    /\ row[job[w]] = "sending"
    /\ WorkerTo(w, "note")
    /\ UNCHANGED <<dbVars, taskVars, apiVars, scan, sesVars, dropped>>

ClaimQueued(w) ==
    /\ wpc[w] = "claim"
    /\ MayClaim(job[w])
    /\ row' = [row EXCEPT ![job[w]] = "sending"]
    /\ lastError' = lastError \ {job[w]}
    /\ WorkerTo(w, "send")
    /\ UNCHANGED <<sesId, openCount, suppressed, recorded,
                   taskVars, apiVars, scan, sesVars, dropped>>

\* ses.send_email: SES takes the message and the MessageId arrives.
SesAccepts(w) ==
    LET m == job[w]
    IN /\ wpc[w] = "send"
       /\ accepted[m] < MaxCopies
       /\ accepted' = [accepted EXCEPT ![m] = @ + 1]
       /\ acked' = acked \cup {m}
       /\ wpc' = [wpc EXCEPT ![w] = "accepted"]
       /\ copy' = [copy EXCEPT ![w] = accepted[m] + 1]
       /\ UNCHANGED <<dbVars, taskVars, apiVars, job, todo, scan, lostAnswers, dropped>>

\* SES takes the message but the answer does not arrive.  botocore sends the
\* request again, or the call ends in a BotoCoreError, a read timeout say: the
\* code cannot tell it from a call that never arrived.
SesAnswerLost(w) ==
    LET m == job[w]
    IN /\ wpc[w] = "send"
       /\ accepted[m] + 1 < MaxCopies
       /\ accepted' = [accepted EXCEPT ![m] = @ + 1]
       /\ lostAnswers' = [lostAnswers EXCEPT ![m] = @ + 1]
       /\ \E phase \in {"send", "retry"} : WorkerTo(w, phase)
       /\ UNCHANGED <<dbVars, taskVars, apiVars, scan, acked, dropped>>

\* ClientError: a code in PERMANENT_SES_ERROR_CODES, or any other.
SesRefuses(w) ==
    /\ wpc[w] = "send"
    /\ \E phase \in {"rejected", "retry"} : WorkerTo(w, phase)
    /\ UNCHANGED <<dbVars, taskVars, apiVars, scan, sesVars, dropped>>

\* _mark_sent
MarkSent(w) ==
    LET m == job[w]
    IN /\ wpc[w] = "accepted"
       /\ IF row[m] \in Terminal
          THEN UNCHANGED <<row, sesId, lastError>>
          ELSE /\ row' = [row EXCEPT ![m] = "sent"]
               /\ sesId' = [sesId EXCEPT ![m] = copy[w]]
               /\ lastError' = lastError \ {m}
       /\ WorkerDone(w)
       /\ UNCHANGED <<openCount, suppressed, recorded,
                      taskVars, apiVars, scan, sesVars, dropped>>

\* _mark_failed
MarkFailed(w) ==
    LET m == job[w]
    IN /\ wpc[w] = "rejected"
       /\ IF row[m] \in Terminal
          THEN UNCHANGED <<row, lastError>>
          ELSE /\ row' = [row EXCEPT ![m] = "failed"]
               /\ lastError' = lastError \cup {m}
       /\ WorkerDone(w)
       /\ UNCHANGED <<sesId, openCount, suppressed, recorded,
                      taskVars, apiVars, scan, sesVars, dropped>>

\* _mark_retryable: one conditional UPDATE, no lock held since the claim.
MarkRetryable(w) ==
    LET m == job[w]
    IN /\ wpc[w] = "retry"
       /\ IF row[m] = "sending"
          THEN /\ row' = [row EXCEPT ![m] = RetryStatus]
               /\ lastError' = ErrorAfterRetry(m)
          ELSE UNCHANGED <<row, lastError>>
       /\ WorkerTo(w, "note")
       /\ UNCHANGED <<sesId, openCount, suppressed, recorded,
                      taskVars, apiVars, scan, sesVars, dropped>>

\* _record_retryable_error, then TransientSendFailure fails the task.
RecordRetryableError(w) ==
    LET m == job[w]
    IN /\ wpc[w] = "note"
       /\ lastError' = IF row[m] = "queued" THEN lastError \cup {m} ELSE lastError
       /\ WorkerDone(w)
       /\ UNCHANGED <<row, sesId, openCount, suppressed, recorded,
                      taskVars, apiVars, scan, sesVars, dropped>>

\* The process dies, or an exception no handler names escapes the task: the
\* task is never run again and the row keeps the status it has.
WorkerDies(w) ==
    /\ wpc[w] # "idle"
    /\ dropped' = dropped \cup todo[w]
                          \cup (IF wpc[w] = "claim" THEN {job[w]} ELSE {})
    /\ WorkerDone(w)
    /\ UNCHANGED <<dbVars, taskVars, apiVars, scan, sesVars>>

-----------------------------------------------------------------------------
(* manage.py reenqueue_queued_transactional                                *)

\* The query: some of the queued rows (age, client, template, list, limit).
ReenqueueScan ==
    /\ scan = {}
    /\ \E found \in SUBSET {m \in Message : Recoverable(m)} :
         found # {} /\ scan' = found
    /\ UNCHANGED <<dbVars, taskVars, apiVars, workerVars, sesVars, dropped>>

\* A row of the result; it may have left "queued" since the query.
ReenqueueOne(m) ==
    /\ m \in scan
    /\ tasks[m] < MaxTasks
    /\ scan' = scan \ {m}
    /\ tasks' = [tasks EXCEPT ![m] = @ + 1]
    /\ UNCHANGED <<dbVars, batches, apiVars, workerVars, sesVars, dropped>>

\* The enqueue raises: the command reports the row and goes on.
ReenqueueFails(m) ==
    /\ m \in scan
    /\ scan' = scan \ {m}
    /\ UNCHANGED <<dbVars, taskVars, apiVars, workerVars, sesVars, dropped>>

-----------------------------------------------------------------------------
(* Provider events and suppression.                                        *)

\* The events that overwrite the status, whatever it was.
StatusOf == [hard_bounce |-> "bounced", complaint |-> "complained", reject |-> "failed"]

\* process_ses_webhook: recorded once; applied if ses_message_id names the
\* copy it is about, recorded without a source otherwise.
Webhook(e) ==
    LET m     == e.msg
        known == sesId[m] = e.copy
    IN /\ Unseen(e)
       /\ recorded' = recorded \cup {e}
       /\ row' = IF known /\ e.kind \in DOMAIN StatusOf
                 THEN [row EXCEPT ![m] = StatusOf[e.kind]] ELSE row
       /\ suppressed' = IF known /\ e.kind \in {"hard_bounce", "complaint"}
                        THEN suppressed \cup {ContactOf[m]} ELSE suppressed
       /\ lastError' = IF known /\ e.kind \in {"soft_bounce", "reject"}
                       THEN lastError \cup {m} ELSE lastError
       /\ openCount' = IF known /\ e.kind = "open"
                       THEN [openCount EXCEPT ![m] = @ + 1] ELSE openCount
       /\ UNCHANGED <<sesId, taskVars, apiVars, workerVars, scan, sesVars, dropped>>

\* A client sets or clears a contact's hard suppression through the API.
UpdateSuppression(c) ==
    /\ suppressed' = IF c \in suppressed THEN suppressed \ {c} ELSE suppressed \cup {c}
    /\ UNCHANGED <<row, lastError, sesId, openCount, recorded,
                   taskVars, apiVars, workerVars, scan, sesVars, dropped>>

-----------------------------------------------------------------------------

Request(q) == \E keys \in SUBSET Message, isBulk \in BOOLEAN : CheckKeys(q, keys, isBulk)

\* What a running API thread does with the request it has begun.
FinishRequest(q) == CommitRows(q) \/ RollBack(q) \/ EnqueueOnCommit(q) \/ LoseEnqueue(q)

Answer(w) == SesAccepts(w) \/ SesAnswerLost(w) \/ SesRefuses(w)

\* What a running worker does with the task it holds.
Work(w) ==
    \/ \E m \in Message : FanOut(w, m)
    \/ ClaimTerminal(w)
    \/ ClaimSending(w)
    \/ ClaimQueued(w)
    \/ Answer(w)
    \/ MarkSent(w)
    \/ MarkFailed(w)
    \/ MarkRetryable(w)
    \/ RecordRetryableError(w)

Take(w) ==
    \/ \E batch \in batches : TakeBatch(w, batch)
    \/ \E m \in Message : TakeTask(w, m)

Reenqueue ==
    \/ ReenqueueScan
    \/ \E m \in Message : ReenqueueOne(m) \/ ReenqueueFails(m)

Next ==
    \/ \E q \in Requester : Request(q) \/ FinishRequest(q)
    \/ \E w \in Worker : Take(w) \/ Work(w) \/ WorkerDies(w)
    \/ Reenqueue
    \/ \E e \in ProviderEvent : Webhook(e)
    \/ \E c \in Contact : UpdateSuppression(c)

Spec == Init /\ [][Next]_vars

-----------------------------------------------------------------------------
(* Safety.                                                                 *)

Holds(w, m) == wpc[w] \in Owning /\ job[w] = m

\* While a worker is between its claim and the recording of the answer, the
\* row stays "sending" and no other worker is there with the same row: the
\* claim is the only lock around the SES call, which no transaction covers.
OneSender ==
    \A w \in Worker : wpc[w] \in Owning =>
        /\ row[job[w]] = "sending"
        /\ \A v \in Worker \ {w} : ~Holds(v, job[w])

\* Once a worker has received a MessageId no copy is sent again, whatever
\* crashes, requests, reenqueues and provider events do: every copy beyond
\* the first was preceded by one more answer that never arrived.
CopiesExplained ==
    \A m \in Message :
        /\ accepted[m] = lostAnswers[m] + (IF m \in acked THEN 1 ELSE 0)
        /\ m \in acked => row[m] # "queued"

\* A stored ses_message_id names the last copy SES took, so that no event
\* about a copy the code lost track of is applied to the row.
StoredIdIsLastCopy ==
    \A m \in Message : sesId[m] # 0 => m \in acked /\ sesId[m] = accepted[m]

Pursued(m) ==
    \/ tasks[m] > 0
    \/ \E batch \in batches : m \in batch
    \/ \E q \in Requester : rpc[q] = "committed" /\ m \in want[q]
    \/ \E w \in Worker : m \in todo[w] \/ (wpc[w] = "claim" /\ job[w] = m)

\* A row left "queued" with nothing on its way to a worker shows why in
\* last_error, unless its enqueue or its task was lost outright: this is
\* what an operator reads before running the reenqueue command.
NoSilentLoss ==
    \A m \in Message : row[m] = "queued" => Pursued(m) \/ m \in lastError \/ m \in dropped

\* Redelivered provider events count once: open_count is no more than the number
\* of distinct opens that are recorded (an open of a copy the row does not know
\* yet is recorded and not counted).
OpensCountedOnce ==
    \A m \in Message :
        openCount[m] <= Cardinality({e \in recorded : e.msg = m /\ e.kind = "open"})

\* A settled row never becomes sendable again, a skipped row never changes,
\* and ses_message_id is written once: replays, late marks and events may
\* only replace one outcome of a sent message by another.
SettledIsFinal ==
    [][\A m \in Message :
         /\ row[m] \in Terminal => row'[m] \in Terminal
         /\ row[m] = "skipped" => row'[m] = "skipped"
         /\ sesId[m] # 0 => sesId'[m] = sesId[m]]_vars

\* The promise to the client, with the row's history folded into one phase.
PhaseOf(m) ==
    IF row[m] = "absent" THEN "absent"
    ELSE IF m \in acked THEN "delivered"
    ELSE IF row[m] \in {"queued", "sending"} THEN "open" ELSE "refused"

Promise == INSTANCE MessagePromise
             WITH phase <- [m \in Message |-> PhaseOf(m)], copies <- accepted

\* The delivery pipeline implements MessagePromise.
KeepsPromise == Promise!Spec

-----------------------------------------------------------------------------
(* The inductive invariant behind these.                                   *)

\* What a worker's phase says of the task it holds.
JobsInHand ==
    \A w \in Worker :
        /\ wpc[w] \in Owning \cup {"claim", "note"} => job[w] \in Message
        /\ wpc[w] # "fanout" => todo[w] = {}

\* The worker that holds the claim is the one that knows of the MessageId.
AcksInHand ==
    \A w \in Worker :
        /\ wpc[w] \in {"send", "rejected", "retry"} => job[w] \notin acked
        /\ wpc[w] = "accepted" => job[w] \in acked /\ copy[w] = accepted[job[w]]

\* A row gets its id with its first settled status.
StoredIdIsSettled ==
    \A m \in Message :
        /\ sesId[m] # 0 => row[m] \in Terminal
        /\ m \in acked => row[m] \notin {"absent", "skipped"}

IInv ==
    /\ TypeOK
    /\ JobsInHand
    /\ OneSender
    /\ AcksInHand
    /\ CopiesExplained
    /\ StoredIdIsLastCopy
    /\ StoredIdIsSettled
    /\ NoSilentLoss

-----------------------------------------------------------------------------
(* Liveness.                                                               *)

\* API threads and workers keep running: an enabled hook, task or step of a
\* task is eventually taken (or its process dies, which is a step as well).
ProcessFairness ==
    /\ \A q \in Requester : WF_vars(FinishRequest(q))
    /\ \A w \in Worker : WF_vars(Work(w))
    /\ WF_vars(\E w \in Worker : Take(w))

\* The operator keeps running the reenqueue command and it keeps getting
\* through; SES does not refuse, and workers do not die before SES is
\* called, for ever.
OperatedFairness ==
    /\ ProcessFairness
    /\ SF_vars(ReenqueueScan)
    /\ \A m \in Message : SF_vars(ReenqueueOne(m))
    /\ SF_vars(\E w \in Worker : ClaimQueued(w))
    /\ SF_vars(\E w \in Worker : SesAccepts(w))

OperatedSpec == Spec /\ OperatedFairness

\* Nobody is left who would move this row out of "sending".
Stranded(m) == row[m] = "sending" /\ \A w \in Worker : ~Holds(w, m)

\* Every created row is settled in the end if the operator keeps running the
\* reenqueue command, whatever was lost on the way, except a row whose
\* worker died while holding it: no code path moves that one again.
EventuallySettled ==
    \A m \in Message : row[m] # "absent" ~> (row[m] \in Terminal \/ Stranded(m))

-----------------------------------------------------------------------------
(* Stated by the documentation, and not what the code does.                *)

\* docs/issues.md: "Bounce/complaint events update contact suppression
\* state."
SuppressionRecorded ==
    [][\A e \in recorded' \ recorded :
         e.kind \in {"hard_bounce", "complaint"} => ContactOf[e.msg] \in suppressed']_vars

=============================================================================

# Verification of Datamailer

Datamailer is a Django service that sends transactional and campaign email
through Amazon SES for client applications (the CMP, the course management
platform, is the main one). This directory holds TLA+ models of its core, the
TLC runs that check them and theorems about them that TLAPS proves. Paths below
are relative to the repository, `src/` in `PROJECT.json`.

Everything is translated from the code. Where a document or a comment says
something the code does not do, it is listed under *Findings*; the claims that a run
refutes are stated as properties of their own.

## 1. The system

| Component | Code | State | Operations |
|---|---|---|---|
| Transactional delivery | `mailing/services/transactional.py`, `transactional_sender.py`, `mailing/tasks.py`, `management/commands/reenqueue_queued_transactional.py` | `TransactionalMessage` rows, unique per (client, idempotency_key) | single send, list send, fan-out, claim, call SES, mark, reenqueue |
| Campaign sending | `campaigns.py`, `campaign_sender.py`, `api.py` (cancel), `forms.py`, `views.py` | `Campaign`, `CampaignRecipient`, tokens | queue, send a batch, refresh counts, cancel, edit |
| Provider events | `ses_webhooks.py` | `EmailEvent` (unique provider_event_id), statuses, contact suppression | bounce, complaint, delivery, open, click, reject |
| Tracking links | `tracking.py`, `tokens.py` | tokens, subscriptions, counters | open, click, unsubscribe |
| Recipient lists | `recipient_lists.py` | a tree of lists with one member row per (list, contact) | upsert, bulk upsert, reconcile, remove, cascade |
| List import jobs | `recipient_lists.py`, `process_recipient_list_imports` | `RecipientListImportJob` | create, claim, fetch, apply, fail |
| CMP callback outbox | `cmp_callbacks.py` | `CmpCallback` rows, attempt counters | emit after commit, dispatch, retry |
| Mailchimp outbox | `mailchimp.py` | `MailchimpSync` rows | enqueue, reopen, dispatch, retry |
| Inbound email | `inbound_email.py` | DynamoDB claims, S3 objects, an SNS topic | claim, publish, release |
| Contacts | `contacts.py`, `api.py` | `Contact`, `Subscription`, tags, preferences | upsert, subscribe, suppress, erase |
| SQS ingress | `ingress.py`, `sqs_worker.py`, `workers/handlers.py` | queue messages | drain, handle, delete |
| Imports and exports | `audience_import.py`, `mailchimp_import.py`, `contact_import_export.py` | contacts row by row | import, export |
| Operator console | `operator_management.py`, `operator_ui.py`, views, forms | all of the above | pages and single-row edits |
| Clients and senders | `auth.py`, `senders.py`, `set_client_senders`, `provision_client_scope` | `Client`, `ClientApiKey`, the sender of an `EmailTemplate` | authenticate, revoke, set senders, write a template |
| The rest | catalog, rendering, API reference, worker status, CLI, settings | none, or read only | checks and formatting |

How they interact. An API request runs in one database transaction and
enqueues background tasks with `transaction.on_commit`; the task table
(django-tasks-db) is polled by `db_worker` processes. The backend hands a task
out once and never retries it: an exception or a dead process ends the task,
and only an operator's command enqueues it again. Workers call SES; SES reports
back through SNS and a webhook or SQS, possibly before the worker has stored
the message id, and more than once. Provider events and unsubscribe links
change message, recipient and contact rows that senders read. Outboxes are
tables drained by their own commands, one under systemd and, as the docs
describe, by hand as well. The database is Postgres in production (READ
COMMITTED, row locks) and SQLite with immediate transactions locally.

What is hard here: the SES call sits outside any transaction (transactional) or
inside one whose rollback forgets it (campaigns); an answer that never arrives
cannot be told from a call that never did; two actors meet one row through
tasks, replays, reenqueues, cancels, stale forms and events; hooks after the
commit are lost in a crash; rows are read without a lock and written back whole.
`PROJECT.json` lists these at their lines under `hazards`, each with the
properties that would catch it.

What makes each component correct:

- *Transactional delivery*: one sender per row; no copy after an acknowledged
  one; a settled row stays settled; a row that will not be sent shows why;
  with an operator at work every row is settled in the end.
- *Campaign sending*: who was asked for is who is picked; no second copy of a
  recorded one; nothing leaves after a cancel; a refused recipient stays refused;
  counters agree with the rows; `sent_at` means nobody is pending; what was queued
  keeps its content; lock orders never wedge a worker.
- *Provider events and links*: each counts once and about the right copy; bounces
  and complaints suppress their contact; counters are the sums over the recipients.
- *Recipient lists*: ancestors contain whoever is listed below; removing
  undoes adding; a member that is there for its children lives as long as they.
- *Import jobs*: the status says what happened; no job is left half-claimed but by
  a crash.
- *Outboxes*: delivered means the receiver answered; everything is retried until
  delivered or the attempts are used up; a reopened grant is not lost.
- *Inbound email*: an event is published once; a claim that makes others skip a route
  stands for an event.
- *Contacts*: an opt-out stays; the two eligibility rules agree; an exported
  contact can be recreated; nothing is stored about a contact after its erasure.
- *Clients*: a revoked key stays revoked; senders that are configured resolve.
- *Pages*: a walk to the last page has returned every row once.

## 2. The modules

| Module | Models | Proofs |
|---|---|---|
| `MessagePromise` | abstract: what is promised about a message, per (client, key) or per recipient of a campaign | |
| `TransactionalDelivery` | transactional delivery and its provider events | `TransactionalDelivery_proofs` |
| `CampaignSend` | one campaign from draft to last batch | `CampaignSend_proofs` |
| `CampaignDraft` | the content of a draft and whom it picks | `Campaign_proofs` |
| `Engagement` | opens, clicks, unsubscribes and events of a sent campaign | `Campaign_proofs` |
| `RecipientTree` | the tree of recipient lists under overlapping requests | `RecipientTree_proofs` |
| `ImportJob` | the import jobs of recipient lists | `Queues_proofs` |
| `Outbox` | what the two outboxes share: statuses, attempts, batches | |
| `CallbackOutbox` | CMP callbacks | `CallbackOutbox_proofs` |
| `MailchimpOutbox` | Mailchimp tag grants | `Queues_proofs` |
| `InboundEmail` | SQS ingress, claims and published events of inbound email | `Queues_proofs` |
| `ContactState` | a contact under every write that decides its eligibility | `ContactState_proofs` |
| `ClientAccess` | a client, its keys, its senders, a template | `Service_proofs` |
| `Pages` | cursors over rows that change | `Service_proofs` |

`MC*.tla` instantiate them for TLC; each `.cfg` is one run. `MCQueues` composes the
four components that take work from a table or a queue, and `MCService` five
components that are about stored rows. The parts of each share no state, so one of
them, the `focus`, runs in a behaviour and the others stand still: their state
spaces add up and are checked in one run. `Queues_proofs` and `Service_proofs` prove
that a behaviour of a composition is a behaviour of each of its components, so what is
proved of a component holds in the run as well. Components that do interact are in one
module (`TransactionalDelivery` with its provider events, `CampaignSend` with
cancelling, forms and events, `InboundEmail` with the SQS drain).

A definition with "Mutant:" in its comment is a plausible bug in the definition it
stands before; nothing uses it but the sensitivity tests of `PROJECT.json`
("mutants"), which swap it in and expect the property to fail. "ghost" marks a
variable the code does not keep: history a property speaks of.

### TransactionalDelivery

`row[m]` is `TransactionalMessage.status` ("absent" before the row exists),
`sesId[m]` says which copy `ses_message_id` names, `lastError` holds the
messages with a non-empty `last_error`, `recorded` the `EmailEvent` rows,
`suppressed` the contacts with a hard bounce or complaint. `tasks` and `batches`
are the READY rows of the task table. Each API thread (`rpc`) and worker (`wpc`)
is a process whose phases lie between two transactions: an API thread looks its
keys up, commits the rows, runs the on-commit hook; a worker takes a task,
claims the row under its lock, calls SES, and marks the row. `accepted`,
`lostAnswers`, `acked` and `dropped` are history the code does not keep: what
SES took, and which messages lost an enqueue or a task to a crash.

| Action | Code |
|---|---|
| `CheckKeys`, `CommitRows`, `RollBack`, `EnqueueOnCommit`, `LoseEnqueue` | `send_transactional_email_for_client`, list sends, `on_commit` |
| `TakeBatch`, `FanOut` | `send_transactional_email_batch` |
| `TakeTask`, `ClaimTerminal`, `ClaimSending`, `ClaimQueued` | `_claim_message_for_send` |
| `SesAccepts`, `SesAnswerLost`, `SesRefuses` | what SES and botocore make of `ses.send_email` |
| `MarkSent`, `MarkFailed`, `MarkRetryable`, `RecordRetryableError` | the functions of those names |
| `WorkerDies` | a crash, or an exception nobody handles |
| `ReenqueueScan`, `ReenqueueOne`, `ReenqueueFails` | the reenqueue command |
| `Webhook`, `UpdateSuppression` | `process_ses_webhook`, the contact API |

`MessagePromise` is the abstract view: a message is opened or refused once,
copies leave only while it is open, an acknowledged one is closed for good. The
refinement maps each row to its phase (`PhaseOf`) and `copies` to what SES took.
The clients of AWS are made without a configuration (`mailing/aws.py:5`), so botocore
repeats a request whose answer did not come before the caller hears of it: one call of
`send_email` may leave several copies, each of them with a lost answer
(`SesAnswerLost`, and `SesUncertain` in a campaign).

### CampaignSend

The transaction that sends to a recipient runs `select_for_update().select_related(...)`:
Postgres locks the recipient's row, then the campaign's, and holds both during the call to
SES. The model keeps the order: `LockRow` (phase "row"), then
`BeginSend`/`SkipSettled`/`SkipCancelled` once `CampaignFree`. `CommitCancel` holds the
campaign's row and waits for the pending recipients' rows, the opposite order;
`DeadlockAbortsSend` and `DeadlockAbortsCancel` are Postgres resolving the cycle; the
aborted sender gives its batch up (`GivesUp`), for `send_campaign_batch` catches no
database error. A retryable error or a crash rolls the transaction back and forgets a copy
SES took (`lost`). Both ends of a batch refresh the counts in three autocommitted
statements (`CountSent`, `CheckPending`, `WriteCounts`). `OpenForm`/`SaveForm` are the
edit form's load without a lock and its save of every column. `reopened` remembers that a
stale form wrote "draft" over another status; counters are only held to the rows until
then.

A campaign keeps the same `MessagePromise` as the transactional pipeline, to each
recipient: the phase is read off the row and `ses_message_id` (`PhaseOf`), and a copy
counts once the transaction that sent it has ended (`Departed`), committed (the message is
delivered) or rolled back (it stays open). Queueing accepts many messages in one step and
a cancel refuses many.

### RecipientTree

Every request is an open transaction `txn[q]` that reads without locks, writes
into its own overlay (`writes`, merged by `Commit`), locks the rows it writes and
the list rows that `update_or_create` and the count refresh touch, and walks from
a list to its ancestors, reading (`LoadAncestor`) and later writing
(`SaveAncestor`) each row. `LoadMember`/`SaveMember` are `upsert_member` with its
merge of two rows, `SaveRemoved` the removal, `LoadAbsent`/`Drop` the second half
of a reconcile. Imports apply the same steps. A payload (`asked`) may name a source key
or a contact more than once: its members are saved in some order, a later one meets the
rows of an earlier one in its own overlay, and `said` is what the request will have said
by the time it commits, with the last word about a key. No list is its own ancestor
(`ancestor_list_keys` shortens a key at every step). `listed` remembers what the CMP has
said, and `disturbed` the rows that were given to another contact, deleted in a
merge, removed by a reconcile although children are left, or written back over a
change the request had not seen. The two promises (`AncestorsCurrent`,
`ListedIsActive`) say that these four are the only ways a membership is lost: each
of the four does happen in the code, and is a hazard in `PROJECT.json`.

### ImportJob

Each element of `Job` is a request and the job it creates: `LookUp` is the request's
read of its idempotency key, `CreateJob` the INSERT the unique constraint guards.
A processor lists ids once (`ListJobs`), then for each: `Claim` (under the row's
lock; it refuses only settled jobs, not "processing"), `Fetch` (outside any
transaction: the file is parsed or rejected), `Apply` or `ApplyRaises` (one
transaction; what it does to the members is `RecipientTree`), `MarkImportFailed`
(whatever the status is by then). `CrashProcessor` leaves "processing" behind, which
no query lists again. `imShared` remembers the jobs two processors held at once.

### CallbackOutbox and MailchimpOutbox

`cbHook[e]` follows an event from its commit through the on-commit hook
(`ReadEvent`, `InsertCallback`) to its row; `LoseHook` is a process that dies in
between. `LoadBatch` is the due query with the configuration it loads; it claims
nothing, so two dispatchers may hold copies of one row (`cbBatch`). `Post` is the
POST with either outcome, `MarkDelivered` and `MarkFailed` save from the copy:
attempts, status and next attempt of the copy plus this try. `FailUnconfigured` is
the row whose client has no webhook, `BecomesDue` the passing of time,
`EraseContact` the erasure rewriting the payloads it finds. `MailchimpOutbox` is
the same queue with one row per dedup key: `Enqueue` inserts it, `Reopen` makes a
settled row pending again, `Send`/`MarkSync` add failures that are permanent,
`UpdateConfig` and `ReconcileMappings` are the client's configuration changing.

### InboundEmail

`Receive`, `HandleRecord` and `FinishRecord` are a drain: a batch is received, a
task is enqueued per record, the enqueued records are deleted. `Redrive` is SQS
moving a record that was received `MaxReceives` times to the dead-letter queue. A task
works through the routes its object's recipients match; what it claims and publishes is
an event, of the Message-ID in the object and the route (`EventOf`), so two objects that
hold one message have their events in common.

A request to DynamoDB or SNS may be applied although its answer is lost, and botocore
makes it up to `Tries` times. `ClaimRoute` is `claim_event`, which stands outside the
`try`: the put is answered; or an item is found and the route is skipped as a replay,
which the task's own item is as well when a repeated put finds it; or the put raises,
applied or not, and ends the task. `PublishEvent` leaves any number of events up to
`Tries`, whether or not it raises; `ReleaseClaim` is the `except` clause, which may
raise too. `CrashDrain` and `CrashTask` are processes that die. `ibExcuse` says what
went wrong around an event: the answer to a publish was lost ("answer"), or its claim
was left behind ("left"), by a lost answer to the put, a dead task or a failed release.

### ContactState

One contact as one client of one audience sees it: the flags of its row, its two
subscriptions (of the client, and of the audience alone), whether its category is
disabled, a tag. What begins with `upsert_contact`, a link or an event locks the
contact's row to its end and is one action (`Upsert`, `Subscribe`, `Unsubscribe`,
`UnsubscribeLink`, `ProviderEvent`, `UpdatePreferences`, `SaveValidation`, `Erase`,
`ImportFile` for the contact CSV). What reads first and saves later is a caller with
steps in `csAt`: requests about a contact id and operators' forms (a read, a save), and
a row of the audience or the Mailchimp import, statement by statement:

| Step | Code |
|---|---|
| `ImportNew` | no contact under the address: it is created, and nobody sees it before the commit |
| `ImportFind` | the contact is read and compared with the row (`ChangeOf`, `Differs`) |
| `ImportLock` | `contact.save`, if anything differs: from here to the commit the contact's row is locked (`Holds`) and requests that need it wait (`Unlocked`) |
| `ImportReadSub` | the subscription is read, and created if there is none |
| `ImportSave` | `subscription.save()` writes every column as it was read or computed, over whatever has been written since |
| `CommitRow` | the commit of all of these, tags included |

Writers that do not lock the contact (an operator's form for the subscription, the tag
endpoints, another import whose row changes nothing of the contact) run between these
steps. `csTold` holds the opt-outs nobody has revoked; an import between its read and
its save of a subscription that is opted out of meanwhile is marked (`missed`), and
only the save of such an import may undo an opt-out: the code has that race, and
`CsToldIsKept` says it is the only one. An erasure marks the callers that hold the
contact; when one of them ends (`FinishErased`), `LeftBy` is what it stores on the
erased row, and `csLeft` remembers that there was any.

`AllCsvRows` are the columns of the export, with the times and reasons that are only
exported: `CsvItem` reads what `csv_row_to_item` reads, and `Unread` names the three
columns it does not. `MarketingAllowed`, `CanSendMarketing` and `SkipReason` are the
API's and the campaigns' eligibility rules as operators.

### CampaignDraft, Engagement

`CampaignDraft` is the row under one external key with its content: `PutFound`
holds the row's lock, `PutMissing`/`PutSave` is the PUT that found nothing and whose
`update_or_create` may meet a row by then, `LoadForm`/`SaveLoaded` the operator's form,
`QueueDraft` picks the recipients by `Candidates` (subscribers or members, include and
exclude tags, as the queryset's joins evaluate them), `EditTag` is the tag form.
`Engagement` starts where the campaign has been sent: a visit or event locks the
recipient's row (`LockRecipient`), then the campaign's (`LockAndWrite`), counts
(`CountRecipients`) and commits what it counted (`CommitVisit`). `enStale` names the
outcomes a row has left without the refresh of their counter.

### ClientAccess, Pages

`Authenticate` lets a request in with the client as it is then (`acAt` keeps that copy),
`NoteUse` saves `last_used_at` of the key it read, `PutSenders` and `PutTemplate` are
handled with the copy, and `Answer` is every other endpoint. `ReadStored`/`SaveForm` are
the operator's form, which saves the columns that differ from the row it compared with; a
list of senders whose order or emails differ is saved although the ids are those stored
(`relisted`). `acTorn` and `acLost` name the two races that can leave a sender that does
not resolve. `Pages` walks `ExportPage` (up the ids), `EventsPage` (down) and
`MembersPage` (one page) while rows are inserted, deleted and refiltered.

## 3. The runs

`CHECK_DEADLOCK FALSE` stands in every configuration: the service may stop when
all is sent and the bounds are used up.

| Run | Instance | Shows |
|---|---|---|
| `transactional_safety` | 1 message, 2 API threads, 2 workers, 2 pending tasks, 2 copies, lost answers, opens and hard bounces; or 2 messages of one contact, 1 API thread with list sends | `OneSender`, `CopiesExplained`, `StoredIdIsLastCopy`, `OpensCountedOnce`, `NoSilentLoss`, `SettledIsFinal`; the refinement `KeepsPromise` |
| `transactional_live` | 1 message, 2 workers, `OperatedFairness` | `EventuallySettled` |
| `campaign_safety` | 2 recipients in 1 or 2 batches, 2 workers | `CountsAgree`, `SentCountIsHonest`, `CompletedMeansDone`, `CancelStopsSending` |
| `campaign_reopened` | 1 recipient, queued twice, 2 workers, fair | the refinement `KeepsPromise`, `BatchesEnd` |
| `tree` | 3 lists in a chain; 2 requests at a time about 1 contact, or 1 at a time about 2 contacts sharing a source key, with payloads of up to 2 members | `TypeOK`, `AncestorsCurrent`, `CascadeNeedsReason`, `ListedIsActive` |
| `queues` | 2 dispatchers with 1 event or 1 with 2, 2 grants of 1 tag, 2 jobs under 1 key with 2 processors; 1 stored object with 2 drains, or 2 objects of 1 message with 1 drain; requests made twice; 1 crash each, fair | the types; `CbSettledIsEarned`, `CbAttemptsCounted`, `CbErasureReaches`, `ImStatusIsHonest`, `IbPublishedOnce`, `IbClaimStandsForEvent`; `CbEventuallySettled`, `McEventuallySent`, `ImEventuallySettled`, `IbEventuallyHandedOn` |
| `service` | a contact with 1 caller against every request, or with 2 callers that overlap; 2 recipients with 2 visits and 4 events; 1 requester, 2 keys, 2 senders; 2 writers, 3 tags of 2 audiences; 4 rows, pages of 1 and 2 | the types; `CsToldIsKept`, `CsSendableAgrees`, `CsRoundTrip`, `EnCountsAgree`, `AcSendersResolve`, `AcRevokedForGood`, `DrContentIsFrozen`, `DrPicksTheTagged`, `PgWalkComplete` |
| `suppression_recorded`, `only_drafts_edited`, `removed_is_removed`, `tag_edited`, `erased_is_gone` | small, or that of `service` | the findings below |

Bounds, and why they are enough.

- `MaxTasks` and `MaxCopies` cap pending tasks and the copies SES takes: two of each let a
  second task meet the first one at every step, and a second copy follow a lost answer.
  Two workers and two API threads give every pairwise interleaving; a third would only
  repeat one. Messages interact only through their contact's suppression, list requests
  and fan-out: each behaviour of `transactional_safety` chooses which messages are asked
  for (`inPlay`). One message meets everything, racing requests, a second copy and
  provider events; two meet in one API thread's requests, with one task and one copy each.
- A campaign's recipients interact through the campaign row, its counters and their batch:
  two recipients give a batch that ends half way and two batches that overlap. `MaxRounds`
  is 2 where a campaign is queued again.
- Three lists in a chain give a list that has both a parent and a child, and one with two
  lists below it. `MaxRows` exceeds what the contacts can occupy. `TreeNext` leaves out
  the requests that would put two open transactions and two contacts together: overlaps
  are checked about one contact, and a source key that moves between two contacts one
  request at a time. `MaxPayload` is 2: a request alone names either contact, and a key,
  twice, while nothing has been listed or lost; the proofs bound neither payloads,
  transactions nor contacts. Symmetry is used only in runs without liveness.
- `MaxAttempts` is 2 where the code says 8: the first try that fails, and the last.
  `BatchSize` 1 lets a dispatcher take a part of what is due as well as all of it.
  `MaxReceives` 2 gives one redelivery, and `Tries` 2 a request that finds what it has
  done itself. Inbound email runs in two sizes: one object that two drains receive, and
  two objects of one message, of which each is enqueued once. One crash lets a process die
  at every step; two would need two losses for one violation, and no property counts
  crashes.
- Contacts run in two sizes. With one caller, every row, form and request runs between its
  steps; it begins nothing while the category is disabled, which only `SkipReason` looks
  at. With two callers, the imports and the operators' forms for the subscription overlap
  with each other and with the requests, on two rows of the client's subscription, one
  that saves the contact first and one that does not. The proofs bound neither callers nor
  rows. One requester in `ClientAccess` for the same reason: an overlapping API PUT writes
  what `SetSenders` writes. `MCUpserts`, `MCImportRows` and `MCCsvRows` keep each status
  and each direction of a flag at least once. `MaxLoads` is 1: a link overlaps an event,
  and counts above one come from an event that reports the same open; the proof covers two
  links at once.
- Four rows and pages of one and two give a last page that is full, one that is not, and
  an insertion before and behind the cursor.

Fairness. `ProcessFairness`: API threads and workers keep running (systemd restarts them),
so an enabled step of theirs is taken or their process dies. `OperatedFairness` adds what
the documented operation needs: the operator keeps running the reenqueue command, it keeps
getting through, and SES does not refuse for ever; nothing in the code retries by itself,
so without it nothing would be promised. The campaign's `Fairness`: workers keep running,
SES answers (boto has time-outs), Postgres grants a lock that keeps coming free and
resolves a deadlock, and a cancel that can commit does. `CbFairness`, `McFairness`,
`ImFairness` and `IbFairness`: an on-commit hook runs unless its process dies; the
commands that systemd keeps running (callback dispatcher, import processor, drains,
workers) and the one operators run as `docs/api.md:537` says (Mailchimp) make their steps;
a time stamp that makes a row due arrives, and SQS applies its redrive policy. No fairness
is assumed of the CMP, Mailchimp, S3 or SNS: each call may fail every time. The liveness
properties name their exceptions: a process that died at the wrong place.

## 4. What is proved

For every value of the constants, from the named assumptions on them only:

| Module | Theorems |
|---|---|
| `TransactionalDelivery_proofs` | `TypeCorrect`, `OneSenderHolds`, `CopiesAreExplained`, `StoredIdHolds`, `NothingSilentlyLost`, `OpensCountOnce`, `SettledStaysFinal`, `PromiseKept` (the pipeline implements `MessagePromise`) |
| `CampaignSend_proofs` | `CampaignTypeCorrect`, `OneCopyIsRecorded`, `CountersAgree`, `SentCountHonest`, `CompletedIsDone`, `CancelHolds`, `RefusedHolds`, `PromiseKept` (a campaign implements `MessagePromise` for every recipient) |
| `Campaign_proofs` | drafts: `DraftTypeCorrect`, `ContentStaysFrozen`, `PicksTheTagged`; engagement: `EngagementTypeCorrect`, `CountersAgree` (of `EnCountsAgree`) |
| `RecipientTree_proofs` | `TreeTypeCorrect`, `ListedMembersActive`, `CascadeMembersNeedReasons`, `AncestorsStayCurrent`, `MembersStayUnique` |
| `CallbackOutbox_proofs` | `CallbackTypeCorrect`, `SettledIsEarned`, `AttemptsAreCounted`, `ErasureReaches` |
| `Queues_proofs` | import jobs: `ImportTypeCorrect`, `StatusIsHonest`; inbound email: `InboundTypeCorrect`, `PublishedOnce`, `ClaimStandsForEvent`; Mailchimp: `MailchimpTypeCorrect`, `OwedStaysPending`; the composition: `QueuesTypeCorrect` |
| `ContactState_proofs` | `ContactTypeCorrect`, `ToldIsKept`, `SendableAgrees`, `RoundTripHolds` |
| `Service_proofs` | clients: `AccessTypeCorrect`, `SendersResolve`, `RevokedStaysRevoked`; pages: `PagesTypeCorrect`, `WalksAreComplete`; the composition: `ServiceTypeCorrect` |

That is every safety invariant, every action property and both refinements that the
passing runs check.

All follow one argument: an inductive invariant, one lemma per action or group of
actions that shows it preserved, and temporal steps that conclude. Why the properties
are not inductive alone:

- `CopiesExplained` needs to know that a worker about to hear from SES holds a row nobody
  has acknowledged (`AcksInHand`), which needs `OneSender`, which needs `JobsInHand`;
  `NoSilentLoss` needs `OneSender` because a retry may only put back a row its worker
  still holds.
- The campaign's `PromiseKept` needs `OneRecordedCopy` (a copy is lost, recorded, or in an
  open transaction), which needs `LocksHeld` (the holder of the campaign row is alone and
  its recipient unsettled), and `RecordsAgree`. `CompletedMeansDone` needs
  `NobodyPending`: a worker that has read "nobody is pending" stays right, because pending
  recipients appear only in a draft (`FreshDraft`) or after a reopening.
  `SentCountIsHonest` needs `CountsAreOld`, that numbers read and not yet written are no
  newer than the records.
- `EnCountsAgree` needs `OneHolder` (both locks make the campaign's row exclusive from the
  write to the commit) and `ReadsHold` (what its holder has written and counted is still
  what the rows say).
- `CbSettledIsEarned` needs `CopiesFit`, what a dispatcher's old copy may say of a row:
  its attempts were made, and an "ok" in hand was received. `CbAttemptsCounted` needs
  `SoleHolder`: a row without an excuse has one holder, once, with a current copy.
  `CbErasureReaches` needs `HooksFit`.
- `ImStatusIsHonest` needs `SoleProcessor`: who works at a job that was never shared is
  alone at it and finds it "processing". `IbClaimStandsForEvent` needs `WorkIsClaimed`,
  that a task between its claim and the end of its publish holds the claim alone, and
  `ClaimsStand` for the claims nobody works under any more; `IbPublishedOnce` needs
  `PublishedIsClaimed`.
- `CsToldIsKept` needs `SavesKeep` and `SavesOptOut`: an import that has read the
  subscription before an opt-out either carries it or is marked as having missed it, in
  every order of finds, locks, reads and saves of any number of callers; `ErasedKnown`
  says that without a contact whoever is in the middle of something knows it was erased.
- `AcSendersResolve` needs `PairsFit`, that every pair of senders on its way, in a form or
  a request, fits together, and `TemplateFits`.
- The tree's promises are about what is committed, and a request works in its overlay from
  what it read when others had not committed. The invariant (`IInv`) says what of that
  still holds: `LockInv`, that the locks on members and lists exclude each other and a new
  key is known to one transaction; `WriteInv`, that the row under an overlay may have
  changed since only in what the save keeps or `marks` as disturbed (`WriteOK`); `TxnInv`,
  for each transaction where its cascade has got to (`SaidOK`: whoever it has said is
  active in its own view, and in every ancestor the cascade has passed), what it holds of
  the row it goes on with (`SeenOK`) and what a reconcile still has to drop (`AbsentOK`);
  `UniqueInv`, that the unique constraints hold of what is committed, of what each
  transaction sees, and between the overlays of two. `ReasonInv` is the middle of the
  promise: a listed entry is among the reasons of every row above it, and a row with
  reasons is active (`MemberInv`). A step preserves each part by a lemma, and `Commit`
  turns what the overlay promised into what is stored.
- `CsRoundTrip`, that a recreated contact is exported as the row it came from but for the
  three columns in `Unread`, needs `SubscriptionsHaveStatus`: no subscription is stored
  without a status, and none is about to be verified that is not there.
- `PgWalkComplete` needs `CursorInv`: what is behind the cursor and has matched all along
  was returned, and what was returned is behind it. It rests on lemmas about the order of
  the rows: what comes before one of the first `n` is one of them (`FirstIsClosed`), they
  are `n` at most (`FirstAreFew`), and fewer only when they are all (`FirstAreAll`).
- `OwedStaysPending` needs `OwedFits`, that nobody holds an outcome of a tag that was
  decided before its grant was taken on, and `SendsFit`, that a copy is of a row that is
  still there.
- `OpensCountedOnce` and `EnTypeOK` are about numbers of elements: the recorded events and
  the recipients must be finitely many (`OpensInv`, the assumption on `Recipient`).

Proved and not run, for they are about the same invariants: `RefusedForGood` (a refused
recipient is never sent to) and `OneRecordedCopy` (of all copies but those that were
rolled back one is recorded or about to be), both of which `PromiseKept` needs or gives,
`MembersStayUnique` (the unique constraints of a list's members, under every
interleaving), `McOwedIsPending` (the safety half of `McEventuallySent`) and the type
invariants of the two pipelines.

Only model-checked: the six liveness properties, `EventuallySettled`, `BatchesEnd`,
`CbEventuallySettled`, `McEventuallySent`, `ImEventuallySettled` and
`IbEventuallyHandedOn`. Each rests on weak or strong fairness of actions, hence on
ENABLED, which this prover does not reason about. No module uses recursion, and no theorem
needs an induction over data: what ancestors a key has is a constant of the model, with
the assumptions stated in `TreeAssumption`.

## 5. Findings

Checked, each by a run that finds the violation:

1. `erased_is_gone`: an import, a tag request or an operator's form that read a contact
   before its erasure stores a subscription, a tag, source metadata or the person's
   address on the erased row, which `api_docs.py:1102` says hold none.
2. `suppression_recorded`: a bounce processed before the worker stored the message
   id is recorded as seen and never suppresses its contact.
3. `only_drafts_edited`: a form opened on a draft and saved after the campaign was
   queued turns it into a draft again.
4. `removed_is_removed`: a member removed from a list while a list below still has
   it, and then from that list, stays active: `upsert_cascade_memberships` leaves
   the status of a row with a source key of its own alone.
5. `tag_edited`: an operator's new slug for a tag is answered with "Tag updated."
   (`mailing/views.py:780`) and not saved: the form's validation has put it into the
   instance that `create_or_update_tag` compares with (`operator_management.py:76`;
   the audience form likewise, and line 138 describes the trap for clients).

Seen while modelling; the models do what the code does, and properties name these
as exceptions where they touch them:

- `docs/operations.md:183` says a message with one idempotency key must not be sent
  twice. A read timeout after SES took the email puts the row back to "queued"
  (`transactional_sender.py:74`), and the reenqueue command sends it again.
  `CopiesExplained` says exactly when.
- A campaign is cancelled "before any recipient has been sent" (`api_docs.py:1273`)
  although one was sent to and has bounced, complained or unsubscribed since
  (`api.py:392`).
- `docs/worker-contracts.md:86` expects an inbound publish that failed to be retried;
  the task's exception ends it (`inbound_email.py:57`) and only the claim is released.
- `exclude()` over several tag rows also turns away a contact that has an excluded
  slug in another audience and any tag in this one (`campaigns.py:219`): the namesake
  of `DrPicksTheTagged`.
- `can_send_marketing` looks neither at an unsubscribe from the audience nor at a
  disabled category, which campaigns do: the exceptions of `CsSendableAgrees`.
- Eligibility is judged when the campaign is queued and not when a batch is sent
  (`campaigns.py:299`).
- `MailchimpSync.email` is not anonymised by an erasure, unlike the callbacks' payloads.

- An import reads a subscription and saves all of it in a later statement
  (`audience_import.py:482`, `mailchimp_import.py:368`), and an operator's form
  (`operator_management.py:261`) locks nothing: an unsubscribe in between is written
  over. It is the one exception of `CsToldIsKept` that no request asks for.
- A claim stands for no event after a lost answer to its put, for `claim_event` is
  outside the `try` (`inbound_email.py:42`): the put raises and nothing releases it, or
  botocore repeats it and the route is skipped as a replay. Every redelivery is then
  skipped too. `IbClaimStandsForEvent` names the case ("left").
- `docs/api.md:149` calls the export's verification and unsubscribe columns recreatable;
  `csv_row_to_item` reads neither `verified_at`, `unsubscribed_at` nor
  `unsubscribe_reason` (`contact_import_export.py:232`): the times become those of the
  import and the reason is lost. `CsRoundTrip` says so of each column.
- Besides, an erasure leaves the subject and the bodies of transactional messages
  (`api.py:1145`), and a link in an old email, if it still resolves, writes to the erased
  contact.
- The comment in `campaign_sender.py:236` says that no delivered email can depend on the
  links of an attempt that is repeated. After a lost answer one does: the transaction
  that stored the hashes of its tokens is rolled back.

## 6. Not modelled

- Static data, pages and tools: `api_docs.py` (documentation as data),
  `operator_ui.py`, the dashboards of `views.py`, `ops_views.py`,
  `worker_status.py`, `seed_demo_data`, the smoke-test scripts, the CLI and the OIDC
  sign-on. They read rows, call the modelled operations over HTTP, or are Django's.
- Formats: parsing and error reports of CSV, Mailchimp archives, MIME and export
  filters, the validation of transactional payloads, SNS signatures, token and key
  hashing, template rendering, test sends and previews. None keeps state.
- Django's admin (`admin.py`), which writes any column of a client or a message without
  the checks of the forms: `AcSendersResolve` and the other invariants do not speak of it.
- What an erasure anonymizes of past messages and events, and what source metadata says.
- In the modelled parts: wording, audit events, time stamps (but for "due"), list member
  counts, the fields of a list, campaigns an operator creates without an external key,
  and the transient-list variant's payload checks.
- `campaign_sender.py:112`, a throttled send that gives up its batch, is modelled but
  nothing promises that the recipients behind it are sent, so only `BatchesEnd` speaks
  of it.

## 7. Plan

1. Done: all components that change state, the theorems of section 4.
2. Done: theorems for every safety invariant and action property that is run, including
   those of the tree, of the Mailchimp outbox and of pages.
3. An at-least-once channel as the abstract specification of both outboxes, and the
   refinement from each.

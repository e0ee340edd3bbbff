----------------------------- MODULE ImportJob ------------------------------
(***************************************************************************)
(* Recipient-list import jobs (services/recipient_lists.py, command        *)
(* process_recipient_list_imports): an API request creates a job, at most  *)
(* one per idempotency key; a processor lists the pending jobs, claims one *)
(* after the other, fetches and parses its file outside any transaction,   *)
(* and applies it or marks the job failed.  "processing" is not excluded   *)
(* by the claim and is not listed by the query.                            *)
(***************************************************************************)
EXTENDS Naturals, FiniteSets

CONSTANTS Job,          \* requests to create a job, and the job each creates
          Key, NoKeyGiven,
          Processor,    \* processes running the import command
          JobLimit,     \* --batch-size
          MaxImCrashes  \* bound on processors dying

ASSUME ImportAssumption == NoKeyGiven \notin Key

VARIABLES imKey,      \* the idempotency key each request carries
          imRequest,  \* where each request stands
          imStatus,   \* recipient_list_import_jobs.status
          imListed,   \* ids a processor has listed and not come to
          imAt,       \* what a processor is doing with which job
          imApplied,  \* ghost: how often each job's file was applied
          imShared,   \* ghost: jobs claimed while another processor was at them
          imStranded, \* ghost: jobs whose processor died with them
          imCrashes

imVars == <<imKey, imRequest, imStatus, imListed, imAt, imApplied, imShared,
            imStranded, imCrashes>>
imGhosts == <<imApplied, imShared, imStranded>>

JobStatus == {"absent", "pending", "processing", "succeeded", "failed"}
Settled == {"succeeded", "failed"}
Nothing == [step |-> "idle"]
Work == [step : {"claimed", "parsed", "rejected"}, job : Job]

ImTypeOK ==
    /\ imKey \in [Job -> Key \cup {NoKeyGiven}]
    /\ imRequest \in [Job -> {"new", "missed", "created", "existing", "refused"}]
    /\ imStatus \in [Job -> JobStatus]
    /\ imListed \in [Processor -> SUBSET Job]
    /\ imAt \in [Processor -> Work \cup {Nothing}]
    /\ imApplied \in [Job -> Nat]
    /\ imShared \subseteq Job /\ imStranded \subseteq Job /\ imCrashes \in Nat

ImInit ==
    /\ imKey \in [Job -> Key \cup {NoKeyGiven}]
    /\ imRequest = [j \in Job |-> "new"]
    /\ imStatus = [j \in Job |-> "absent"]
    /\ imListed = [p \in Processor |-> {}]
    /\ imAt = [p \in Processor |-> Nothing]
    /\ imApplied = [j \in Job |-> 0]
    /\ imShared = {} /\ imStranded = {} /\ imCrashes = 0

-----------------------------------------------------------------------------
(* create_recipient_list_import_job_for_client.                            *)

SameKey(j) == {o \in Job \ {j} : imKey[j] # NoKeyGiven /\ imKey[o] = imKey[j]
                                 /\ imStatus[o] # "absent"}

\* Unique per client and key, checked by the database on the INSERT.
KeyFree(j) == SameKey(j) = {}

LookUp(j) ==
    /\ imRequest[j] = "new"
    /\ imRequest' = [imRequest EXCEPT ![j] =
                       IF SameKey(j) = {} THEN "missed" ELSE "existing"]
    /\ UNCHANGED <<imKey, imStatus, imListed, imAt, imGhosts, imCrashes>>

\* The lookup locked nothing, so the INSERT may still meet the constraint.
CreateJob(j) ==
    /\ imRequest[j] = "missed"
    /\ imRequest' = [imRequest EXCEPT ![j] = IF KeyFree(j) THEN "created" ELSE "refused"]
    /\ imStatus' = [imStatus EXCEPT ![j] = IF KeyFree(j) THEN "pending" ELSE @]
    /\ UNCHANGED <<imKey, imListed, imAt, imGhosts, imCrashes>>

-----------------------------------------------------------------------------
(* The processors.                                                         *)

Pending == {j \in Job : imStatus[j] = "pending"}

\* process_pending_recipient_list_import_jobs keeps the ids of one query.
ListJobs(p) ==
    /\ imListed[p] = {} /\ imAt[p] = Nothing
    /\ \E ids \in SUBSET Pending :
        /\ ids # {} /\ (ids = Pending \/ Cardinality(ids) = JobLimit)
        /\ imListed' = [imListed EXCEPT ![p] = ids]
    /\ UNCHANGED <<imKey, imRequest, imStatus, imAt, imGhosts, imCrashes>>

\* The statuses a claim returns at: "processing" is claimed once more.
OnlyFailedUnclaimable == {"failed"}
Unclaimable == Settled

Claim(p, j) ==
    /\ imAt[p] = Nothing /\ j \in imListed[p]
    /\ imListed' = [imListed EXCEPT ![p] = @ \ {j}]
    /\ IF imStatus[j] \in Unclaimable
       THEN UNCHANGED <<imStatus, imAt, imShared>>
       ELSE /\ imStatus' = [imStatus EXCEPT ![j] = "processing"]
            /\ imAt' = [imAt EXCEPT ![p] = [step |-> "claimed", job |-> j]]
            /\ imShared' = IF \E o \in Processor \ {p} :
                                imAt[o] # Nothing /\ imAt[o].job = j
                           THEN imShared \cup {j} ELSE imShared
    /\ UNCHANGED <<imKey, imRequest, imApplied, imStranded,
                   imCrashes>>

\* Fetch and parse, outside the transaction: a file without a bad row, or an
\* error, or bad rows, which fail the job as a whole.
Fetch(p) ==
    /\ imAt[p].step = "claimed"
    /\ \E step \in {"parsed", "rejected"} :
         imAt' = [imAt EXCEPT ![p].step = step]
    /\ UNCHANGED <<imKey, imRequest, imStatus, imListed, imGhosts, imCrashes>>

\* apply_import_members: the members (RecipientTree has their rules), the list
\* and the job, whose status is not looked at again.
Apply(p) ==
    /\ imAt[p].step = "parsed"
    /\ imStatus' = [imStatus EXCEPT ![imAt[p].job] = "succeeded"]
    /\ imApplied' = [imApplied EXCEPT ![imAt[p].job] = @ + 1]
    /\ imAt' = [imAt EXCEPT ![p] = Nothing]
    /\ UNCHANGED <<imKey, imRequest, imListed, imShared, imStranded,
                   imCrashes>>

\* The transaction of apply_import_members raises and is rolled back.
ApplyRaises(p) ==
    /\ imAt[p].step = "parsed"
    /\ imAt' = [imAt EXCEPT ![p].step = "rejected"]
    /\ UNCHANGED <<imKey, imRequest, imStatus, imListed, imGhosts, imCrashes>>

\* mark_import_failed overwrites whatever the status is by now with "failed".
LeftProcessing == "processing"
GivenUp == "failed"

MarkImportFailed(p) ==
    /\ imAt[p].step = "rejected"
    /\ imStatus' = [imStatus EXCEPT ![imAt[p].job] = GivenUp]
    /\ imAt' = [imAt EXCEPT ![p] = Nothing]
    /\ UNCHANGED <<imKey, imRequest, imListed, imGhosts, imCrashes>>

CrashProcessor(p) ==
    /\ imCrashes < MaxImCrashes /\ (imAt[p] # Nothing \/ imListed[p] # {})
    /\ imCrashes' = imCrashes + 1
    /\ imStranded' = IF imAt[p] = Nothing THEN imStranded
                     ELSE imStranded \cup {imAt[p].job}
    /\ imAt' = [imAt EXCEPT ![p] = Nothing]
    /\ imListed' = [imListed EXCEPT ![p] = {}]
    /\ UNCHANGED <<imKey, imRequest, imStatus, imApplied, imShared>>

ImProcess(p) ==
    \/ ListJobs(p) \/ Fetch(p) \/ Apply(p) \/ ApplyRaises(p) \/ MarkImportFailed(p)
    \/ \E j \in Job : Claim(p, j)

ImNext ==
    \/ \E j \in Job : LookUp(j) \/ CreateJob(j)
    \/ \E p \in Processor : ImProcess(p) \/ CrashProcessor(p)

\* The command loops, and is restarted when it dies.
ImFairness == \A p \in Processor : WF_imVars(ImProcess(p))

ImSafetySpec == ImInit /\ [][ImNext]_imVars
ImSpec == ImSafetySpec /\ ImFairness

-----------------------------------------------------------------------------
\* What a job says is what happened to the list: its file was applied once if it
\* succeeded and never if it did not, one job per key, unless two processors
\* were at it together (the claim does not exclude "processing", and
\* mark_import_failed does not look).
ImStatusIsHonest ==
    \A j \in Job :
        /\ j \notin imShared =>
             imApplied[j] = IF imStatus[j] = "succeeded" THEN 1 ELSE 0
        /\ imStatus[j] # "absent" => KeyFree(j)

\* A pending job is settled in the end unless its processor dies with it.
ImEventuallySettled ==
    \A j \in Job :
        imStatus[j] = "pending" ~> imStatus[j] \in Settled \/ j \in imStranded

=============================================================================

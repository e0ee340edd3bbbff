---------------------------- MODULE Queues_proofs ----------------------------
(***************************************************************************)
(* Theorems about what waits in a table or a queue: the import jobs of     *)
(* recipient lists (ImportJob), inbound email (InboundEmail) and Mailchimp *)
(* syncs (MailchimpOutbox); then these and the callbacks together, with    *)
(* what CallbackOutbox_proofs proves.                                      *)
(***************************************************************************)
EXTENDS MCQueues, CallbackOutbox_proofs

-----------------------------------------------------------------------------
(* Import jobs and inbound email.                                          *)

AtJob(p, j) == imAt[p] # Nothing /\ imAt[p].job = j

\* A job is listed, and worked at, after it was created.
JobsExist ==
    \A p \in Processor, j \in Job :
        AtJob(p, j) \/ j \in imListed[p] => imStatus[j] # "absent"

\* A request that has not inserted its job has none.
RequestsFit == \A j \in Job : imRequest[j] \in {"new", "missed"} => imStatus[j] = "absent"

\* Nobody else works at a job that is not shared, and it is not applied yet.
SoleProcessor ==
    \A j \in Job \ imShared, p \in Processor :
        AtJob(p, j) =>
            /\ imStatus[j] = "processing"
            /\ \A o \in Processor : AtJob(o, j) => o = p

ImIInv == ImTypeOK /\ JobsExist /\ RequestsFit /\ SoleProcessor /\ ImStatusIsHonest

\* The invariant holds before the first import request.
LEMMA ImInitially == ImInit => ImIInv
  BY DEF ImInit, ImIInv, ImTypeOK, JobsExist, RequestsFit, SoleProcessor,
     ImStatusIsHonest, AtJob, JobStatus, KeyFree, SameKey

\* A processor that is not idle is at some job.
LEMMA WorkIsAtJobs ==
  ASSUME ImTypeOK, NEW p \in Processor, imAt[p] # Nothing
  PROVE  imAt[p] \in Work /\ imAt[p].job \in Job /\ AtJob(p, imAt[p].job)
  BY DEF ImTypeOK, Work, AtJob

\* A processor with a step is not idle.
LEMMA StepsAreWork ==
  ASSUME NEW p \in Processor, imAt[p].step \in {"claimed", "parsed", "rejected"}
  PROVE  imAt[p] # Nothing
  BY DEF Nothing

\* Every step of a request or a processor keeps the types.
LEMMA ImTypeStep == ImTypeOK /\ [ImNext]_imVars => ImTypeOK'
  <1> SUFFICES ASSUME ImTypeOK, [ImNext]_imVars PROVE ImTypeOK'
    OBVIOUS
  <1> USE DEF ImTypeOK, imGhosts
  <1>1. ASSUME NEW j \in Job, LookUp(j) \/ CreateJob(j) PROVE ImTypeOK'
    BY <1>1 DEF LookUp, CreateJob, JobStatus
  <1>2. ASSUME NEW p \in Processor, ListJobs(p) PROVE ImTypeOK'
    BY <1>2 DEF ListJobs, Pending
  <1>3. ASSUME NEW p \in Processor, NEW j \in Job, Claim(p, j) PROVE ImTypeOK'
    <2>1. [step |-> "claimed", job |-> j] \in Work
      BY DEF Work
    <2> QED
      BY <1>3, <2>1 DEF Claim, JobStatus
  <1>4. ASSUME NEW p \in Processor, Fetch(p) \/ ApplyRaises(p) PROVE ImTypeOK'
    <2>1. imAt[p] \in Work
      BY <1>4, StepsAreWork, WorkIsAtJobs DEF Fetch, ApplyRaises
    <2>2. \A step \in {"parsed", "rejected"} : [imAt[p] EXCEPT !.step = step] \in Work
      BY <2>1 DEF Work
    <2> QED
      BY <1>4, <2>2 DEF Fetch, ApplyRaises
  <1>5. ASSUME NEW p \in Processor, Apply(p) \/ MarkImportFailed(p) PROVE ImTypeOK'
    <2>1. imAt[p].job \in Job
      BY <1>5, StepsAreWork, WorkIsAtJobs DEF Apply, MarkImportFailed
    <2> QED
      BY <1>5, <2>1 DEF Apply, MarkImportFailed, JobStatus, GivenUp
  <1>6. ASSUME NEW p \in Processor, CrashProcessor(p) PROVE ImTypeOK'
    BY <1>6, WorkIsAtJobs DEF CrashProcessor
  <1>7. CASE UNCHANGED imVars
    BY <1>7 DEF imVars
  <1> QED
    BY <1>1, <1>2, <1>3, <1>4, <1>5, <1>6, <1>7 DEF ImNext, ImProcess

\* One job per key: a job that is created meets no other, nor does another then.
LEMMA CreationsKeep ==
  ASSUME ImIInv, ImTypeOK', NEW j \in Job, LookUp(j) \/ CreateJob(j)
  PROVE  ImIInv'
  <1> USE DEF ImIInv
  <1>1. /\ UNCHANGED <<imKey, imListed, imAt, imGhosts>>
        /\ \A o \in Job \ {j} : imStatus'[o] = imStatus[o] /\ imRequest'[o] = imRequest[o]
        /\ imStatus'[j] # imStatus[j] =>
             imRequest[j] = "missed" /\ KeyFree(j) /\ imStatus'[j] = "pending"
        /\ imRequest'[j] \in {"missed", "existing"} => imStatus' = imStatus
        /\ imRequest'[j] = "missed" => imRequest[j] = "new"
        /\ imRequest'[j] \in {"missed", "existing", "created", "refused"}
    BY DEF LookUp, CreateJob, ImTypeOK
  <1>2. imStatus'[j] # imStatus[j] => imStatus[j] = "absent"
    BY <1>1 DEF RequestsFit
  <1>3. RequestsFit'
    BY <1>1 DEF RequestsFit
  <1>4. JobsExist'
    BY <1>1, <1>2 DEF JobsExist, AtJob
  <1>5. SoleProcessor'
    BY <1>1, <1>2 DEF SoleProcessor, JobsExist, AtJob, imGhosts
  <1>6. \A o \in Job : imStatus'[o] # "absent" => KeyFree(o)'
    <2> SUFFICES ASSUME NEW o \in Job, imStatus'[o] # "absent",
                        NEW u \in Job \ {o}, imKey[o] # NoKeyGiven, imKey[u] = imKey[o],
                        imStatus'[u] # "absent"
                 PROVE  FALSE
      BY <1>1 DEF KeyFree, SameKey
    <2>1. \A k \in Job : imStatus[k] # "absent" => KeyFree(k)
      BY DEF ImStatusIsHonest
    <2>2. imStatus[u] = "absent" \/ imStatus[o] = "absent"
      BY <2>1 DEF KeyFree, SameKey
    <2>3. (u = j \/ o = j) /\ KeyFree(j)
      BY <1>1, <2>2
    <2> QED
      BY <1>1, <1>2, <2>3 DEF KeyFree, SameKey
  <1>7. ImStatusIsHonest'
    BY <1>1, <1>2, <1>6 DEF ImStatusIsHonest, imGhosts
  <1> QED
    BY <1>3, <1>4, <1>5, <1>7

\* A claim makes a job shared, or finds nobody at it.
LEMMA ClaimsKeep ==
  ASSUME ImIInv, ImTypeOK', NEW p \in Processor, NEW j \in Job, Claim(p, j)
  PROVE  ImIInv'
  <1> USE DEF ImIInv
  <1>1. /\ imAt[p] = Nothing /\ j \in imListed[p]
        /\ imListed' = [imListed EXCEPT ![p] = @ \ {j}]
        /\ UNCHANGED <<imKey, imRequest, imApplied>>
    BY DEF Claim
  <1>2. \A o \in Processor, k \in Job : k \in imListed'[o] => k \in imListed[o]
    BY <1>1 DEF ImTypeOK
  <1>3. imStatus[j] # "absent"
    BY <1>1 DEF JobsExist
  <1>4. CASE imStatus[j] \in Unclaimable
    <2>1. UNCHANGED <<imStatus, imAt, imShared>>
      BY <1>4 DEF Claim
    <2> QED
      BY <1>1, <1>2, <2>1
      DEF JobsExist, RequestsFit, SoleProcessor, ImStatusIsHonest, AtJob, KeyFree, SameKey
  <1>5. CASE imStatus[j] \notin Unclaimable
    <2>1. /\ imStatus' = [imStatus EXCEPT ![j] = "processing"]
          /\ imAt' = [imAt EXCEPT ![p] = [step |-> "claimed", job |-> j]]
          /\ imShared' = IF \E o \in Processor \ {p} : imAt[o] # Nothing /\ imAt[o].job = j
                         THEN imShared \cup {j} ELSE imShared
      BY <1>5 DEF Claim
    <2>2. /\ imStatus'[j] = "processing"
          /\ \A k \in Job \ {j} : imStatus'[k] = imStatus[k]
      BY <2>1 DEF ImTypeOK
    <2>3. \A o \in Processor, k \in Job :
            AtJob(o, k)' <=> IF o = p THEN k = j ELSE AtJob(o, k)
      BY <2>1 DEF ImTypeOK, AtJob, Nothing
    <2>4. JobsExist' /\ RequestsFit'
      BY <1>1, <1>2, <1>3, <2>2, <2>3 DEF JobsExist, RequestsFit
    <2>5. imShared \subseteq imShared'
          /\ (j \notin imShared' => \A o \in Processor \ {p} : ~ AtJob(o, j))
      BY <2>1 DEF AtJob
    <2>6. \A k \in Job : ~ AtJob(p, k)
      BY <1>1 DEF AtJob
    <2>7. SoleProcessor'
      BY <2>2, <2>3, <2>5, <2>6 DEF SoleProcessor
    <2>8. \A k \in Job : KeyFree(k) <=> KeyFree(k)'
      BY <1>1, <1>3, <2>2 DEF KeyFree, SameKey
    <2>9. imStatus[j] # "succeeded"
      BY <1>5 DEF Unclaimable, Settled
    <2>10. ImStatusIsHonest'
      BY <1>1, <1>3, <2>2, <2>5, <2>8, <2>9 DEF ImStatusIsHonest
    <2> QED
      BY <2>4, <2>7, <2>10
  <1> QED
    BY <1>4, <1>5

\* The processor that ends a job is the only one at it, or the job is shared.
LEMMA EndsKeep ==
  ASSUME ImIInv, ImTypeOK', NEW p \in Processor, Apply(p) \/ MarkImportFailed(p)
  PROVE  ImIInv'
  <1> USE DEF ImIInv
  <1> DEFINE j == imAt[p].job
  <1>1. j \in Job /\ AtJob(p, j)
    BY StepsAreWork, WorkIsAtJobs DEF Apply, MarkImportFailed
  <1>2. /\ imAt' = [imAt EXCEPT ![p] = Nothing]
        /\ UNCHANGED <<imKey, imRequest, imListed, imShared>>
        /\ \/ /\ imStatus' = [imStatus EXCEPT ![j] = "succeeded"]
              /\ imApplied' = [imApplied EXCEPT ![j] = @ + 1]
           \/ /\ imStatus' = [imStatus EXCEPT ![j] = "failed"]
              /\ imApplied' = imApplied
    BY DEF Apply, MarkImportFailed, imGhosts, GivenUp
  <1> HIDE DEF j
  <1>3. imStatus[j] # "absent" /\ imStatus'[j] # "absent"
        /\ \A k \in Job \ {j} : imStatus'[k] = imStatus[k] /\ imApplied'[k] = imApplied[k]
    BY <1>1, <1>2 DEF JobsExist, ImTypeOK
  <1>4. \A o \in Processor, k \in Job : AtJob(o, k)' <=> o # p /\ AtJob(o, k)
    BY <1>2 DEF AtJob, ImTypeOK
  <1>5. JobsExist' /\ RequestsFit'
    BY <1>2, <1>3, <1>4 DEF JobsExist, RequestsFit
  <1>6. SoleProcessor'
    BY <1>1, <1>2, <1>3, <1>4 DEF SoleProcessor
  <1>7. j \notin imShared =>
          imApplied[j] = 0 /\ imApplied'[j] = IF imStatus'[j] = "succeeded" THEN 1 ELSE 0
    <2> SUFFICES ASSUME j \notin imShared
                 PROVE  imApplied[j] = 0
                        /\ imApplied'[j] = IF imStatus'[j] = "succeeded" THEN 1 ELSE 0
      OBVIOUS
    <2>1. imApplied[j] = 0
      BY <1>1 DEF SoleProcessor, ImStatusIsHonest
    <2> QED
      BY <1>1, <1>2, <2>1 DEF ImTypeOK
  <1>8. \A k \in Job : KeyFree(k) <=> KeyFree(k)'
    BY <1>2, <1>3 DEF KeyFree, SameKey
  <1>9. ImStatusIsHonest'
    BY <1>2, <1>3, <1>7, <1>8 DEF ImStatusIsHonest
  <1> QED
    BY <1>5, <1>6, <1>9

\* Steps that leave the jobs alone and bring nobody to one.
LEMMA OtherStepsKeep ==
  ASSUME ImIInv, ImTypeOK', NEW p \in Processor,
         ListJobs(p) \/ Fetch(p) \/ ApplyRaises(p) \/ CrashProcessor(p)
  PROVE  ImIInv'
  <1> USE DEF ImIInv
  <1>1. UNCHANGED <<imKey, imRequest, imStatus, imApplied, imShared>>
    BY DEF ListJobs, Fetch, ApplyRaises, CrashProcessor, imGhosts
  <1>2. \A o \in Processor, k \in Job : AtJob(o, k)' => AtJob(o, k)
    <2>1. CASE Fetch(p) \/ ApplyRaises(p)
      <3>1. imAt[p] \in Work /\ imAt[p] # Nothing
        BY <2>1, StepsAreWork, WorkIsAtJobs DEF Fetch, ApplyRaises
      <3>2. \A o \in Processor \ {p} : imAt'[o] = imAt[o]
        BY <2>1 DEF Fetch, ApplyRaises, ImTypeOK
      <3>3. imAt'[p].job = imAt[p].job
        BY <2>1, <3>1 DEF Fetch, ApplyRaises, ImTypeOK, Work
      <3> QED
        BY <3>1, <3>2, <3>3 DEF AtJob
    <2>2. CASE ListJobs(p) \/ CrashProcessor(p)
      BY <2>2 DEF ListJobs, CrashProcessor, AtJob, ImTypeOK
    <2> QED
      BY <2>1, <2>2
  <1>3. \A o \in Processor : \A k \in imListed'[o] : k \in imListed[o] \/ imStatus[k] = "pending"
    BY DEF ListJobs, Fetch, ApplyRaises, CrashProcessor, Pending, ImTypeOK
  <1>4. JobsExist' /\ RequestsFit' /\ SoleProcessor'
    BY <1>1, <1>2, <1>3 DEF JobsExist, RequestsFit, SoleProcessor
  <1>5. ImStatusIsHonest'
    BY <1>1 DEF ImStatusIsHonest, KeyFree, SameKey
  <1> QED
    BY <1>4, <1>5

\* A job is worked at by one processor or is known to be shared.
THEOREM ImportInvariance == ImSafetySpec => []ImIInv
  <1>1. ImIInv /\ [ImNext]_imVars => ImIInv'
    <2> SUFFICES ASSUME ImIInv, [ImNext]_imVars PROVE ImIInv'
      OBVIOUS
    <2>1. ImTypeOK'
      BY ImTypeStep DEF ImIInv
    <2>2. CASE UNCHANGED imVars
      BY <2>1, <2>2 DEF imVars, ImIInv, JobsExist, RequestsFit, SoleProcessor,
         ImStatusIsHonest, AtJob, KeyFree, SameKey
    <2> QED
      BY <2>1, <2>2, CreationsKeep, ClaimsKeep, EndsKeep, OtherStepsKeep
      DEF ImNext, ImProcess
  <1> QED
    BY ImInitially, <1>1, PTL DEF ImSafetySpec

\* Jobs, requests and what each processor does have their types.
THEOREM ImportTypeCorrect == ImSafetySpec => []ImTypeOK
  BY ImportInvariance, PTL DEF ImIInv

\* A job that two processors never held together was applied exactly if it says
\* so, and no key has two jobs (process_recipient_list_import_job).
THEOREM StatusIsHonest == ImSafetySpec => []ImStatusIsHonest
  BY ImportInvariance, PTL DEF ImIInv

-----------------------------------------------------------------------------
(* Inbound email.                                                          *)

\* A task is between the claim of a route and the end of its publish.
Working(t, i) == ibAt[t] # NoRoute /\ i = EventOf(t, ibAt[t].route)

\* A task works under its claim, alone, and its event is not published yet
\* unless an answer was lost.
WorkIsClaimed ==
    \A t \in Receipt, i \in EventId :
        Working(t, i) =>
            /\ i \in ibClaim
            /\ \A u \in Receipt : Working(u, i) => u = t
            /\ "answer" \in ibExcuse[i] \/ ibPublished[i] = 0

\* What was published once is claimed for good.
PublishedIsClaimed ==
    \A i \in EventId :
        "answer" \notin ibExcuse[i] =>
            ibPublished[i] \in {0, 1} /\ (ibPublished[i] = 1 => i \in ibClaim)

\* A claim stands for an event, or somebody works under it, or something failed.
Stands(i) ==
    \/ ibPublished[i] > 0 \/ \E t \in Receipt : Working(t, i)
    \/ "left" \in ibExcuse[i]
ClaimsStand == \A i \in ibClaim : Stands(i)

IbIInv == IbTypeOK /\ WorkIsClaimed /\ PublishedIsClaimed /\ ClaimsStand

\* The invariant holds before the first notification.
LEMMA IbInitially == IbInit => IbIInv
  <1> SUFFICES ASSUME IbInit PROVE IbIInv
    OBVIOUS
  <1>1. IbTypeOK
    BY InboundAssumption DEF IbInit, IbTypeOK, Receipt
  <1>2. WorkIsClaimed /\ PublishedIsClaimed /\ ClaimsStand
    BY DEF IbInit, WorkIsClaimed, PublishedIsClaimed, ClaimsStand, Working
  <1> QED
    BY <1>1, <1>2 DEF IbIInv

\* A counter that is added to, and a set that grows.
LEMMA Bumped ==
  ASSUME NEW S, NEW f \in [S -> Nat], NEW i \in S, NEW n \in Nat
  PROVE  [f EXCEPT ![i] = @ + n] \in [S -> Nat]
  OBVIOUS

\* A function to sets grows by one element at one place.
LEMMA Grown ==
  ASSUME NEW S, NEW T, NEW f \in [S -> SUBSET T], NEW i \in S, NEW x \in T
  PROVE  /\ [f EXCEPT ![i] = @ \cup {x}] \in [S -> SUBSET T]
         /\ [f EXCEPT ![i] = @ \cup {x}][i] = f[i] \cup {x}
  OBVIOUS

\* The event of a receipt's route.
LEMMA EventsFit ==
  ASSUME NEW t \in Receipt, NEW r \in Route
  PROVE  EventOf(t, r) \in EventId
  BY DEF Receipt, EventId, EventOf

\* The route a task is at.
LEMMA RoutesFit ==
  ASSUME IbTypeOK, NEW t \in Receipt, ibAt[t] # NoRoute
  PROVE  /\ ibAt[t].route \in Route /\ EventOf(t, ibAt[t].route) \in EventId
         /\ Working(t, EventOf(t, ibAt[t].route))
  <1>1. ibAt[t].route \in Route
    BY DEF IbTypeOK
  <1> QED
    BY <1>1, EventsFit DEF Working

\* Every step of the queue, a drain or a task keeps the types.
LEMMA IbTypeStep == IbTypeOK /\ [IbNext]_ibVars => IbTypeOK'
  <1> SUFFICES ASSUME IbTypeOK, [IbNext]_ibVars PROVE IbTypeOK'
    OBVIOUS
  <1> USE InboundAssumption DEF IbTypeOK, ibSqs, ibTasks
  <1>1. ASSUME NEW n \in Notification, Notify(n) \/ Redrive(n) PROVE IbTypeOK'
    BY <1>1 DEF Notify, Redrive
  <1>2. ASSUME NEW d \in Drain, Receive(d) PROVE IbTypeOK'
    <2>1. PICK batch \in SUBSET {n \in Notification :
                                  ibQueue[n] = "queued" /\ ibReceives[n] < MaxReceives} :
            /\ ibReceives' = [n \in Notification |->
                                ibReceives[n] + IF n \in batch THEN 1 ELSE 0]
            /\ ibHeld' = [ibHeld EXCEPT ![d] = [n \in Notification |->
                 IF n \in batch THEN [state |-> "received", receipt |-> ibReceives[n] + 1]
                                ELSE NoRoute]]
      BY <1>2 DEF Receive
    <2>2. \A n \in batch : ibReceives[n] + 1 \in 1..MaxReceives
      OBVIOUS
    <2>3. ibReceives' \in [Notification -> 0..MaxReceives]
      BY <2>1, <2>2
    <2>4. [n \in Notification |->
             IF n \in batch THEN [state |-> "received", receipt |-> ibReceives[n] + 1]
                            ELSE NoRoute]
            \in [Notification -> [state : {"received", "enqueued", "failed"},
                                  receipt : 1..MaxReceives] \cup {NoRoute}]
      BY <2>2
    <2> QED
      BY <1>2, <2>1, <2>3, <2>4 DEF Receive
  <1>3. ASSUME NEW d \in Drain, NEW n \in Notification, HandleRecord(d, n) PROVE IbTypeOK'
    <2>1. ibHeld[d][n] \in [state : {"received", "enqueued", "failed"},
                            receipt : 1..MaxReceives]
      BY <1>3 DEF HandleRecord
    <2>2. \A state \in {"enqueued", "failed"} :
            [ibHeld[d][n] EXCEPT !.state = state]
              \in [state : {"received", "enqueued", "failed"}, receipt : 1..MaxReceives]
      BY <2>1
    <2>3. \E state \in {"enqueued", "failed"} :
            ibHeld' = [ibHeld EXCEPT ![d][n].state = state]
      BY <1>3 DEF HandleRecord
    <2>4. ibHeld' \in [Drain -> [Notification ->
                     [state : {"received", "enqueued", "failed"},
                      receipt : 1..MaxReceives] \cup {NoRoute}]]
      BY <2>2, <2>3
    <2>5. <<n, ibHeld[d][n].receipt>> \in Receipt
      BY <2>1 DEF Receipt
    <2> QED
      BY <1>3, <2>4, <2>5 DEF HandleRecord
  <1>4. ASSUME NEW d \in Drain, NEW n \in Notification, FinishRecord(d, n) PROVE IbTypeOK'
    BY <1>4 DEF FinishRecord
  <1>5. ASSUME NEW d \in Drain, CrashDrain(d) PROVE IbTypeOK'
    BY <1>5 DEF CrashDrain
  <1>6. ASSUME NEW t \in Receipt, StartTask(t) \/ FinishTask(t) PROVE IbTypeOK'
    <2>1. RoutesOf[t[1]] \in SUBSET Route
      BY DEF Receipt
    <2> QED
      BY <1>6, <2>1 DEF StartTask, FinishTask
  <1>7. ASSUME NEW t \in Receipt, NEW r \in Route, ClaimRoute(t, r) PROVE IbTypeOK'
    <2> PICK i \in EventId : i = EventOf(t, r)
      BY EventsFit
    <2>1. /\ ibClaim' = ibClaim \/ ibClaim' = ibClaim \cup {i}
          /\ \/ ibAt' = ibAt
             \/ ibAt' = [ibAt EXCEPT ![t] = [step |-> "claimed", route |-> r]]
          /\ ibTask' = ibTask \/ ibTask' = [ibTask EXCEPT ![t] = "failed"]
          /\ \/ ibTodo' = [ibTodo EXCEPT ![t] = {}]
             \/ ibTodo' = [ibTodo EXCEPT ![t] = @ \ {r}]
          /\ \/ ibExcuse' = [ibExcuse EXCEPT ![i] = @ \cup {"left"}]
             \/ ibExcuse' = ibExcuse
          /\ UNCHANGED <<ibSqs, ibPublished, ibCrashes>>
      BY <1>7 DEF ClaimRoute
    <2>2. ibTodo' \in [Receipt -> SUBSET Route]
      BY <2>1
    <2>3. [step |-> "claimed", route |-> r] \in [step : {"claimed", "raised"}, route : Route]
      OBVIOUS
    <2>4. ibAt' \in [Receipt -> [step : {"claimed", "raised"}, route : Route] \cup {NoRoute}]
      BY <2>1, <2>3
    <2>5. ibExcuse' \in [EventId -> SUBSET Excuses]
      <3>1. i \in EventId /\ ibExcuse \in [EventId -> SUBSET Excuses] /\ "left" \in Excuses
        BY DEF Excuses
      <3>2. ibExcuse' = [ibExcuse EXCEPT ![i] = @ \cup {"left"}] \/ ibExcuse' = ibExcuse
        BY <2>1
      <3> QED
        BY ONLY <3>1, <3>2, Grown
    <2> QED
      BY <2>1, <2>2, <2>4, <2>5
  <1>8. ASSUME NEW t \in Receipt, PublishEvent(t) PROVE IbTypeOK'
    <2>1. ibAt[t] \in [step : {"claimed", "raised"}, route : Route]
      BY <1>8 DEF PublishEvent
    <2> PICK i \in EventId : i = EventOf(t, ibAt[t].route)
      BY <1>8, RoutesFit DEF PublishEvent
    <2>2. [ibAt[t] EXCEPT !.step = "raised"] \in [step : {"claimed", "raised"}, route : Route]
      BY <2>1
    <2>3. PICK arrived \in 0..Tries :
          /\ \/ ibAt' = [ibAt EXCEPT ![t] = [@ EXCEPT !.step = "raised"]]
             \/ ibAt' = [ibAt EXCEPT ![t] = NoRoute]
          /\ ibPublished' = [ibPublished EXCEPT ![i] = @ + arrived]
          /\ \/ ibExcuse' = [ibExcuse EXCEPT ![i] = @ \cup {"answer"}]
             \/ ibExcuse' = ibExcuse
          /\ UNCHANGED <<ibSqs, ibTask, ibTodo, ibClaim, ibCrashes>>
      BY <1>8 DEF PublishEvent
    <2>4. ibAt' \in [Receipt -> [step : {"claimed", "raised"}, route : Route] \cup {NoRoute}]
      BY <2>2, <2>3
    <2>5. ibPublished' \in [EventId -> Nat]
      <3>1. i \in EventId /\ ibPublished \in [EventId -> Nat] /\ arrived \in Nat
        OBVIOUS
      <3> QED
        BY ONLY <2>3, <3>1, Bumped
    <2>6. ibExcuse' \in [EventId -> SUBSET Excuses]
      <3>1. i \in EventId /\ ibExcuse \in [EventId -> SUBSET Excuses] /\ "answer" \in Excuses
        BY DEF Excuses
      <3> QED
        BY ONLY <2>3, <3>1, Grown
    <2> QED
      BY <2>3, <2>4, <2>5, <2>6
  <1>9. ASSUME NEW t \in Receipt, ReleaseClaim(t) \/ CrashTask(t) PROVE IbTypeOK'
    <2>1. /\ ibAt' = [ibAt EXCEPT ![t] = NoRoute] /\ UNCHANGED <<ibPublished, ibSqs>>
          /\ ibTask' = [ibTask EXCEPT ![t] = "failed"] \/ ibTask' = [ibTask EXCEPT ![t] = "dead"]
          /\ ibTodo' = [ibTodo EXCEPT ![t] = {}]
          /\ ibCrashes' = ibCrashes \/ ibCrashes' = ibCrashes + 1
          /\ ibClaim' \subseteq ibClaim
      BY <1>9 DEF ReleaseClaim, CrashTask, Released
    <2>2. \/ ibExcuse' = ibExcuse
          \/ /\ ibAt[t] # NoRoute
             /\ ibExcuse' = [ibExcuse EXCEPT ![EventOf(t, ibAt[t].route)] = @ \cup {"left"}]
      BY <1>9 DEF ReleaseClaim, CrashTask
    <2>3. CASE ibExcuse' = ibExcuse
      BY <2>1, <2>3
    <2>4. CASE ibAt[t] # NoRoute
      <3> PICK i \in EventId : i = EventOf(t, ibAt[t].route)
        BY <2>4, RoutesFit
      <3>1. i \in EventId /\ ibExcuse \in [EventId -> SUBSET Excuses] /\ "left" \in Excuses
        BY DEF Excuses
      <3>2. ibExcuse' = ibExcuse \/ ibExcuse' = [ibExcuse EXCEPT ![i] = @ \cup {"left"}]
        BY <2>2
      <3>3. ibExcuse' \in [EventId -> SUBSET Excuses]
        BY ONLY <3>1, <3>2, Grown
      <3> QED
        BY <2>1, <3>3
    <2> QED
      BY <2>2, <2>3, <2>4
  <1>11. CASE UNCHANGED ibVars
    BY <1>11 DEF ibVars
  <1> QED
    BY <1>1, <1>2, <1>3, <1>4, <1>5, <1>6, <1>7, <1>8, <1>9, <1>11
    DEF IbNext, IbDrain, IbTaskStep

\* A put that claims the route finds nobody at work under it; one whose answer is
\* lost leaves its claim behind; the others change no claim.
LEMMA RouteClaimsKeep ==
  ASSUME IbIInv, IbTypeOK', NEW t \in Receipt, NEW r \in Route, ClaimRoute(t, r)
  PROVE  IbIInv'
  <1> USE DEF IbIInv
  <1>1. PICK i \in EventId : i = EventOf(t, r)
    BY EventsFit
  <1>2. PICK applied \in BOOLEAN, outcome \in {"claimed", "replay", "raises"} :
          /\ applied => Unclaimed(i)
          /\ outcome = "claimed" => applied
          /\ ibClaim' = IF applied THEN ibClaim \cup {i} ELSE ibClaim
          /\ ibAt' = IF outcome = "claimed"
                     THEN [ibAt EXCEPT ![t] = [step |-> "claimed", route |-> r]] ELSE ibAt
          /\ ibExcuse' = IF applied /\ outcome # "claimed"
                         THEN [ibExcuse EXCEPT ![i] = @ \cup {"left"}] ELSE ibExcuse
    BY <1>1 DEF ClaimRoute
  <1>3. ibPublished' = ibPublished /\ ibAt[t] = NoRoute
    BY DEF ClaimRoute
  <1>4. CASE ~ applied
    <2>1. UNCHANGED <<ibClaim, ibAt, ibExcuse>>
      BY <1>2, <1>4
    <2> QED
      BY <1>3, <2>1
      DEF WorkIsClaimed, PublishedIsClaimed, ClaimsStand, Stands, Working
  <1>5. CASE applied /\ outcome # "claimed"
    <2>1. /\ ibClaim' = ibClaim \cup {i} /\ ibAt' = ibAt
          /\ ibExcuse' = [ibExcuse EXCEPT ![i] = @ \cup {"left"}]
      BY <1>2, <1>5
    <2>2. /\ \A e \in EventId \ {i} : ibExcuse'[e] = ibExcuse[e]
          /\ ibExcuse'[i] = ibExcuse[i] \cup {"left"}
      <3>1. i \in EventId /\ ibExcuse \in [EventId -> SUBSET Excuses]
        BY DEF IbTypeOK
      <3> QED
        BY ONLY <2>1, <3>1
    <2>3. \A e \in EventId : "answer" \in ibExcuse'[e] <=> "answer" \in ibExcuse[e]
      BY <2>2
    <2>4. \A u \in Receipt, e \in EventId : Working(u, e)' <=> Working(u, e)
      BY <2>1 DEF Working
    <2>5. WorkIsClaimed' /\ PublishedIsClaimed'
      BY <1>3, <2>1, <2>3, <2>4 DEF WorkIsClaimed, PublishedIsClaimed
    <2>6. \A e \in ibClaim \ {i} : Stands(e)'
      <3>1. \A e \in ibClaim : e \in EventId /\ Stands(e)
        BY DEF IbTypeOK, ClaimsStand
      <3> QED
        BY <1>3, <2>2, <2>4, <3>1 DEF Stands
    <2>7. Stands(i)'
      BY <2>2 DEF Stands
    <2>8. ClaimsStand'
      BY <2>1, <2>6, <2>7 DEF ClaimsStand
    <2> QED
      BY <2>5, <2>8
  <1>6. CASE outcome = "claimed"
    <2>1. /\ ibClaim' = ibClaim \cup {i} /\ i \notin ibClaim /\ ibExcuse' = ibExcuse
          /\ ibAt' = [ibAt EXCEPT ![t] = [step |-> "claimed", route |-> r]]
      BY <1>2, <1>6 DEF Unclaimed
    <2>2. ibAt'[t] = [step |-> "claimed", route |-> r]
          /\ \A u \in Receipt \ {t} : ibAt'[u] = ibAt[u]
      BY <2>1 DEF IbTypeOK
    <2>3. \A u \in Receipt, e \in EventId :
            Working(u, e)' <=> IF u = t THEN e = i ELSE Working(u, e)
      BY <1>1, <2>2 DEF Working, NoRoute
    <2>4. \A u \in Receipt : ~ Working(u, i)
      BY <2>1 DEF WorkIsClaimed
    <2>5. "answer" \in ibExcuse[i] \/ ibPublished[i] = 0
      BY <2>1 DEF PublishedIsClaimed
    <2>6. WorkIsClaimed'
      BY <1>3, <2>1, <2>3, <2>4, <2>5 DEF WorkIsClaimed
    <2>7. PublishedIsClaimed'
      BY <1>3, <2>1 DEF PublishedIsClaimed
    <2>8. \A e \in EventId : (\E u \in Receipt : Working(u, e)) =>
                               \E u \in Receipt : Working(u, e)'
      <3>1. \A e \in EventId : ~ Working(t, e)
        BY <1>3 DEF Working
      <3> QED
        BY <2>3, <3>1
    <2>9. Working(t, i)'
      BY <2>3
    <2>10. ClaimsStand'
      BY <1>3, <2>1, <2>8, <2>9 DEF ClaimsStand, Stands, IbTypeOK
    <2> QED
      BY <2>6, <2>7, <2>10
  <1> QED
    BY <1>2, <1>4, <1>5, <1>6

\* A publish by the one task at work: once, or an answer is lost, or it raises and
\* the task goes on to the release.
LEMMA PublishesKeep ==
  ASSUME IbIInv, IbTypeOK', NEW t \in Receipt, PublishEvent(t)
  PROVE  IbIInv'
  <1> USE DEF IbIInv
  <1>1. PICK i \in EventId : i = EventOf(t, ibAt[t].route) /\ Working(t, i)
    BY RoutesFit DEF PublishEvent
  <1>2. PICK arrived \in 0..Tries, raises \in BOOLEAN :
          /\ ~ raises => arrived > 0
          /\ ibPublished' = [ibPublished EXCEPT ![i] = @ + arrived]
          /\ ibAt' = [ibAt EXCEPT ![t] = IF raises THEN [@ EXCEPT !.step = "raised"]
                                                   ELSE NoRoute]
          /\ ibExcuse' = IF arrived > IF raises THEN 0 ELSE 1
                         THEN [ibExcuse EXCEPT ![i] = @ \cup {"answer"}] ELSE ibExcuse
    BY <1>1 DEF PublishEvent
  <1>3. ibClaim' = ibClaim
    BY DEF PublishEvent
  <1>4. \A u \in Receipt, e \in EventId :
          Working(u, e)' <=> Working(u, e) /\ (u = t => raises)
    <2>1. ibAt[t] \in [step : {"claimed", "raised"}, route : Route]
      BY DEF PublishEvent, IbTypeOK
    <2>2. [ibAt[t] EXCEPT !.step = "raised"] # NoRoute
          /\ [ibAt[t] EXCEPT !.step = "raised"].route = ibAt[t].route
      BY <2>1 DEF NoRoute
    <2>3. ibAt'[t] = IF raises THEN [ibAt[t] EXCEPT !.step = "raised"] ELSE NoRoute
      BY <1>2 DEF IbTypeOK
    <2>4. \A u \in Receipt \ {t} : ibAt'[u] = ibAt[u]
      BY <1>2 DEF IbTypeOK
    <2>5. \A e \in EventId : Working(t, e)' <=> Working(t, e) /\ raises
      <3>1. CASE raises
        BY <2>1, <2>2, <2>3, <3>1 DEF Working, NoRoute
      <3>2. CASE ~ raises
        BY <2>3, <3>2 DEF Working
      <3> QED
        BY <3>1, <3>2
    <2>6. \A u \in Receipt \ {t}, e \in EventId : Working(u, e)' <=> Working(u, e)
      BY <2>4 DEF Working
    <2> QED
      BY <2>5, <2>6
  <1>5. \A e \in EventId : Working(t, e) => e = i
    BY <1>1 DEF Working
  <1>6. /\ \A e \in EventId \ {i} : ibPublished'[e] = ibPublished[e] /\ ibExcuse'[e] = ibExcuse[e]
        /\ ibPublished'[i] = ibPublished[i] + arrived
        /\ ibPublished[i] \in Nat /\ arrived \in Nat
    BY <1>1, <1>2, InboundAssumption DEF IbTypeOK
  <1>7. i \in ibClaim /\ ("answer" \in ibExcuse[i] \/ ibPublished[i] = 0)
        /\ \A u \in Receipt : Working(u, i) => u = t
    BY <1>1 DEF WorkIsClaimed
  <1>8. /\ ibExcuse[i] \subseteq ibExcuse'[i]
        /\ "answer" \in ibExcuse'[i] \/ arrived <= IF raises THEN 0 ELSE 1
    BY <1>1, <1>2, <1>6 DEF IbTypeOK
  <1>9. WorkIsClaimed'
    <2>1. ASSUME raises PROVE "answer" \in ibExcuse'[i] \/ ibPublished'[i] = 0
      BY <1>6, <1>7, <1>8, <2>1
    <2>2. ASSUME NEW u \in Receipt, Working(u, i)' PROVE raises
      BY <1>4, <1>7, <2>2
    <2> QED
      BY <1>3, <1>4, <1>6, <1>7, <2>1, <2>2 DEF WorkIsClaimed
  <1>10. PublishedIsClaimed'
    <2>1. "answer" \notin ibExcuse'[i] => ibPublished'[i] \in {0, 1} /\ i \in ibClaim'
      BY <1>3, <1>6, <1>7, <1>8
    <2> QED
      BY <1>3, <1>6, <2>1 DEF PublishedIsClaimed
  <1>11. ClaimsStand'
    <2>1. \A e \in EventId \ {i} : \A u \in Receipt : Working(u, e) => Working(u, e)'
      BY <1>4, <1>5
    <2>2. ibPublished'[i] > 0 \/ Working(t, i)'
      <3>1. CASE raises
        BY <1>1, <1>4, <3>1
      <3>2. CASE ~ raises
        BY <1>2, <1>6, <3>2
      <3> QED
        BY <3>1, <3>2
    <2>3. \A e \in ibClaim : e \in EventId
      BY DEF IbTypeOK
    <2>4. \A e \in ibClaim \ {i} : Stands(e)'
      BY <1>6, <2>1, <2>3 DEF IbIInv, ClaimsStand, Stands
    <2>5. Stands(i)'
      BY <2>2 DEF Stands
    <2> QED
      BY <1>3, <2>4, <2>5 DEF ClaimsStand
  <1> QED
    BY <1>9, <1>10, <1>11

\* A task that stops working: after its release, or because it dies.
LEMMA ReleasesKeep ==
  ASSUME IbIInv, IbTypeOK', NEW t \in Receipt, ReleaseClaim(t) \/ CrashTask(t)
  PROVE  IbIInv'
  <1> USE DEF IbIInv
  <1>1. ibAt' = [ibAt EXCEPT ![t] = NoRoute] /\ ibPublished' = ibPublished
    BY DEF ReleaseClaim, CrashTask
  <1>2. CASE ibAt[t] = NoRoute
    <2>1. UNCHANGED <<ibClaim, ibExcuse>>
      BY <1>2 DEF ReleaseClaim, CrashTask
    <2>2. ibAt' = ibAt
      BY <1>1, <1>2 DEF IbTypeOK
    <2>3. \A u \in Receipt, e \in EventId : Working(u, e)' <=> Working(u, e)
      BY <2>2 DEF Working
    <2>4. WorkIsClaimed' /\ PublishedIsClaimed'
      BY <1>1, <2>1, <2>3 DEF WorkIsClaimed, PublishedIsClaimed
    <2>5. ClaimsStand'
      BY <1>1, <2>1, <2>3 DEF ClaimsStand, Stands, IbTypeOK
    <2> QED
      BY <2>4, <2>5
  <1>3. CASE ibAt[t] # NoRoute
    <2>1. PICK i \in EventId : i = EventOf(t, ibAt[t].route) /\ Working(t, i)
      BY <1>3, RoutesFit
    <2>2. \/ ibClaim' = ibClaim \ {i} /\ ibExcuse' = ibExcuse
          \/ ibClaim' = ibClaim /\ ibExcuse' = [ibExcuse EXCEPT ![i] = @ \cup {"left"}]
      BY <1>3, <2>1 DEF ReleaseClaim, CrashTask, Released
    <2>3. \A u \in Receipt, e \in EventId : Working(u, e)' <=> u # t /\ Working(u, e)
      BY <1>1 DEF Working, IbTypeOK
    <2>4. \A e \in EventId : Working(t, e) => e = i
      BY <2>1 DEF Working
    <2>5. /\ "answer" \in ibExcuse[i] \/ ibPublished[i] = 0
          /\ \A u \in Receipt : Working(u, i) => u = t
      BY <2>1 DEF WorkIsClaimed
    <2>6. \A e \in EventId : "answer" \in ibExcuse'[e] <=> "answer" \in ibExcuse[e]
      <3>1. CASE ibExcuse' = ibExcuse
        BY <3>1
      <3>2. CASE ibExcuse' = [ibExcuse EXCEPT ![i] = @ \cup {"left"}]
        BY <3>2, <2>1 DEF IbTypeOK
      <3> QED
        BY <2>2, <3>1, <3>2
    <2>7. \A e \in EventId \ {i} : (e \in ibClaim' <=> e \in ibClaim)
                                   /\ ibExcuse'[e] = ibExcuse[e]
      BY <2>1, <2>2 DEF IbTypeOK
    <2>8. WorkIsClaimed'
      BY <1>1, <2>3, <2>5, <2>6, <2>7 DEF WorkIsClaimed
    <2>9. PublishedIsClaimed'
      BY <1>1, <2>1, <2>5, <2>6, <2>7 DEF PublishedIsClaimed
    <2>10. ClaimsStand'
      <3>1. i \in ibClaim' => "left" \in ibExcuse'[i]
        <4>1. CASE ibExcuse' = [ibExcuse EXCEPT ![i] = @ \cup {"left"}]
          <5>1. i \in EventId /\ "left" \in Excuses /\ ibExcuse \in [EventId -> SUBSET Excuses]
            BY DEF IbTypeOK, Excuses
          <5> QED
            BY ONLY <4>1, <5>1, Grown
        <4> QED
          BY <2>2, <4>1
      <3>2. \A e \in EventId \ {i} : \A u \in Receipt : Working(u, e) => Working(u, e)'
        BY <2>3, <2>4
      <3>3. \A e \in ibClaim' : e \in EventId
        BY DEF IbTypeOK
      <3> QED
        BY <1>1, <2>7, <3>1, <3>2, <3>3 DEF ClaimsStand, Stands
    <2> QED
      BY <2>8, <2>9, <2>10
  <1> QED
    BY <1>2, <1>3

\* A task works under its claim alone, whatever the queue redelivers.
THEOREM InboundInvariance == IbSafetySpec => []IbIInv
  <1>1. IbIInv /\ [IbNext]_ibVars => IbIInv'
    <2> SUFFICES ASSUME IbIInv, [IbNext]_ibVars PROVE IbIInv'
      OBVIOUS
    <2>1. IbTypeOK'
      BY IbTypeStep DEF IbIInv
    <2>2. CASE UNCHANGED <<ibAt, ibClaim, ibPublished, ibExcuse>>
      BY <2>1, <2>2
      DEF IbIInv, WorkIsClaimed, PublishedIsClaimed, ClaimsStand, Stands, Working
    <2>3. ASSUME NEW t \in Receipt, NEW r \in Route, ClaimRoute(t, r) PROVE IbIInv'
      BY <2>1, <2>3, RouteClaimsKeep
    <2>4. ASSUME NEW t \in Receipt, PublishEvent(t) PROVE IbIInv'
      BY <2>1, <2>4, PublishesKeep
    <2>5. ASSUME NEW t \in Receipt, ReleaseClaim(t) \/ CrashTask(t) PROVE IbIInv'
      BY <2>1, <2>5, ReleasesKeep
    <2>6. ASSUME NEW t \in Receipt, StartTask(t) \/ FinishTask(t) PROVE IbIInv'
      BY <2>2, <2>6 DEF StartTask, FinishTask
    <2>7. ASSUME NEW d \in Drain, IbDrain(d) \/ CrashDrain(d) PROVE IbIInv'
      BY <2>2, <2>7 DEF IbDrain, Receive, HandleRecord, FinishRecord, CrashDrain, ibTasks
    <2>8. ASSUME NEW n \in Notification, Notify(n) \/ Redrive(n) PROVE IbIInv'
      BY <2>2, <2>8 DEF Notify, Redrive, ibTasks
    <2>9. CASE UNCHANGED ibVars
      BY <2>2, <2>9 DEF ibVars
    <2> QED
      BY <2>3, <2>4, <2>5, <2>6, <2>7, <2>8, <2>9 DEF IbNext, IbTaskStep
  <1> QED
    BY IbInitially, <1>1, PTL DEF IbSafetySpec

\* The queue, the tasks and the table have their types.
THEOREM InboundTypeCorrect == IbSafetySpec => []IbTypeOK
  BY InboundInvariance, PTL DEF IbIInv

\* However often SQS redelivers a notification, however many objects hold the
\* message and however many tasks handle them, an event is published twice only
\* after the answer to a publish was lost (claim_event).
THEOREM PublishedOnce == IbSafetySpec => []IbPublishedOnce
  <1>1. IbIInv => IbPublishedOnce
    BY DEF IbIInv, PublishedIsClaimed, IbPublishedOnce
  <1> QED
    BY <1>1, InboundInvariance, PTL

\* Skipping a claimed route as a replay is right, unless its claim was left behind:
\* the answer to the put was lost, the task died or the release raised
\* (claim_event, process_inbound_object, release_claim).
THEOREM ClaimStandsForEvent == IbSafetySpec => []IbClaimStandsForEvent
  <1>1. IbIInv => IbClaimStandsForEvent
    BY DEF IbIInv, ClaimsStand, Stands, Working, IbClaimStandsForEvent
  <1> QED
    BY <1>1, InboundInvariance, PTL

-----------------------------------------------------------------------------
(* Mailchimp syncs.                                                        *)

\* A row that is pending has tries left.
SyncsFit == \A t \in Tag : mcRow[t].status = "pending" => mcRow[t].attempts < MaxAttempts

\* A copy is of a row that is there, and so is what a hook found.
SendsFit ==
    /\ \A d \in Dispatcher, t \in Tag : mcBatch[d][t] # NoCopy => mcRow[t] # NoSync
    /\ \A d \in Dispatcher : mcHand[d] # NoSend => mcRow[mcHand[d].tag] # NoSync
    /\ \A g \in Grant : mcHook[g] = "found" => mcRow[mcTag[g]] # NoSync

\* A grant that is neither sent nor excused waits in a pending row.
McOwedIsPending ==
    \A t \in mcOwed : mcExcuse[t] = {} => mcRow[t].status = "pending"

\* Nobody holds an outcome that was decided before it.
OwedFits ==
    \A t \in mcOwed : mcExcuse[t] = {} => mcRow[t].status = "pending" /\ ~ DecidedEarlier(t)

McIInv == McTypeOK /\ SyncsFit /\ SendsFit /\ OwedFits

\* The invariant holds before the first grant.
LEMMA McInitially == McInit => McIInv
  <1> SUFFICES ASSUME McInit PROVE McIInv
    OBVIOUS
  <1>1. McTypeOK
    BY DEF McInit, McTypeOK, McHook
  <1>2. SyncsFit /\ SendsFit /\ OwedFits
    BY DEF McInit, SyncsFit, SendsFit, OwedFits, NoSync
  <1> QED
    BY <1>1, <1>2 DEF McIInv

\* What the types say of one row, one copy and one hook.
LEMMA McTyped ==
  ASSUME McTypeOK
  PROVE  /\ \A t \in Tag : mcRow[t] \in Sync \/ mcRow[t] = NoSync
         /\ \A t \in Tag : mcRow[t].status = "pending" => mcRow[t] \in Sync /\ mcRow[t] # NoSync
         /\ \A d \in Dispatcher, t \in Tag : mcBatch[d][t] # NoCopy => mcBatch[d][t] \in SyncCopy
         /\ \A d \in Dispatcher :
              mcHand[d] # NoSend => mcHand[d].tag \in Tag /\ mcHand[d].copy \in SyncCopy
         /\ \A g \in Grant : mcTag[g] \in Tag
  <1>1. \A t \in Tag : mcRow[t] \in Sync \/ mcRow[t] = NoSync
    BY DEF McTypeOK
  <1>2. NoSync.status # "pending"
    BY DEF NoSync
  <1>3. \A d \in Dispatcher, t \in Tag : mcBatch[d][t] \in SyncCopy \cup {NoCopy}
    BY DEF McTypeOK
  <1>4. \A d \in Dispatcher : mcHand[d] \in [answer : Answer, tag : Tag, copy : SyncCopy] \cup {NoSend}
    BY DEF McTypeOK
  <1>5. \A g \in Grant : mcTag[g] \in Tag
    BY DEF McTypeOK
  <1> QED
    BY <1>1, <1>2, <1>3, <1>4, <1>5

\* What a dispatcher loads: rows that are due, each with tries left.
LEMMA SyncBatchFits ==
  ASSUME McTypeOK, SyncsFit, NEW B \in Batches(SyncDue), NEW t \in B
  PROVE  /\ t \in Tag /\ mcRow[t] \in Sync /\ mcRow[t] # NoSync
         /\ [attempts |-> mcRow[t].attempts] \in SyncCopy
  <1>1. t \in Tag /\ mcRow[t].status = "pending"
    BY DEF Batches, SyncDue
  <1>2. mcRow[t] \in Sync /\ mcRow[t] # NoSync
    BY <1>1, McTyped
  <1>3. mcRow[t].attempts \in 0..MaxAttempts /\ mcRow[t].attempts < MaxAttempts
    BY <1>1, <1>2 DEF SyncsFit, Sync
  <1>4. mcRow[t].attempts \in 0..(MaxAttempts - 1)
    BY <1>3, OutboxAssumption
  <1> QED
    BY <1>1, <1>2, <1>4 DEF SyncCopy

\* What a dispatcher saves is a row, and a pending one has tries left.
LEMMA OutcomeFits ==
  ASSUME McTypeOK, NEW t \in Tag, mcRow[t] # NoSync, NEW c \in SyncCopy,
         mcRow' = SyncDelivered(t, c) \/ \E p \in BOOLEAN : mcRow' = SyncFailed(t, c, p)
  PROVE  /\ mcRow' \in [Tag -> Sync \cup {NoSync}]
         /\ mcRow'[t].status = "pending" => mcRow'[t].attempts < MaxAttempts
         /\ mcRow'[t] # NoSync
         /\ \A o \in Tag : o # t => mcRow'[o] = mcRow[o]
  <1>1. mcRow \in [Tag -> Sync \cup {NoSync}] /\ mcRow[t] \in Sync
    BY DEF McTypeOK
  <1>2. c.attempts + 1 \in 0..MaxAttempts
    BY OutboxAssumption DEF SyncCopy
  <1>3. \E s \in RowStatus, due \in BOOLEAN :
          /\ mcRow' = [mcRow EXCEPT ![t].status = s, ![t].attempts = c.attempts + 1,
                                    ![t].due = due]
          /\ s = "pending" => c.attempts + 1 < MaxAttempts
    <2>1. CASE mcRow' = SyncDelivered(t, c)
      <3>1. mcRow' = [mcRow EXCEPT ![t].status = "delivered", ![t].attempts = c.attempts + 1,
                                   ![t].due = mcRow[t].due]
        BY <1>1, <2>1 DEF SyncDelivered, Sync
      <3> QED
        BY <1>1, <3>1 DEF RowStatus, Sync
    <2>2. CASE \E p \in BOOLEAN : mcRow' = SyncFailed(t, c, p)
      <3>0. PICK p \in BOOLEAN : mcRow' = SyncFailed(t, c, p)
        BY <2>2
      <3> DEFINE status == IF p THEN "failed" ELSE StatusAfterTry(c.attempts + 1)
                 due == IF status = "failed" THEN mcRow[t].due ELSE FALSE
      <3>1. status \in RowStatus /\ (status = "pending" => c.attempts + 1 < MaxAttempts)
        BY <1>2, OutboxAssumption DEF StatusAfterTry, RowStatus
      <3>2. due \in BOOLEAN
        BY <1>1 DEF Sync
      <3>3. mcRow' = [mcRow EXCEPT ![t].status = status, ![t].attempts = c.attempts + 1,
                                   ![t].due = due]
        BY <3>0 DEF SyncFailed
      <3> HIDE DEF status, due
      <3> QED
        BY <3>1, <3>2, <3>3
    <2> QED
      BY <2>1, <2>2
  <1>4. PICK s \in RowStatus, due \in BOOLEAN :
          /\ mcRow' = [mcRow EXCEPT ![t].status = s, ![t].attempts = c.attempts + 1,
                                    ![t].due = due]
          /\ s = "pending" => c.attempts + 1 < MaxAttempts
    BY <1>3
  <1>5. /\ mcRow'[t] = [status |-> s, attempts |-> c.attempts + 1, due |-> due]
        /\ \A o \in Tag : o # t => mcRow'[o] = mcRow[o]
        /\ mcRow' \in [Tag -> Sync \cup {NoSync}]
    BY <1>1, <1>2, <1>4 DEF Sync
  <1> QED
    BY <1>4, <1>5 DEF NoSync, RowStatus

\* A row that is queued or queued again: its grant is owed, and what was decided
\* before is excused.
LEMMA OweKeeps ==
  ASSUME McIInv, NEW g \in Grant, mcHook[g] \in {"committed", "found"},
         mcHook' = [mcHook EXCEPT ![g] = "done"],
         \/ mcRow' = mcRow /\ mcRow[mcTag[g]].status = "pending"
         \/ mcRow' = [mcRow EXCEPT ![mcTag[g]] = [status |-> "pending", attempts |-> 0,
                                                  due |-> TRUE]],
         Owe(mcTag[g]), UNCHANGED <<mcEnabled, mcMapped, mcTag, mcDispatchers, mcChanges>>
  PROVE  McIInv'
  <1> DEFINE t == mcTag[g]
  <1>1. /\ McTypeOK /\ t \in Tag
        /\ UNCHANGED <<mcEnabled, mcMapped, mcTag, mcBatch, mcHand, mcSeen, mcChanges>>
    BY DEF McIInv, McTypeOK, mcDispatchers
  <1>2. /\ mcOwed' = mcOwed \cup {t}
        /\ mcExcuse' = IF DecidedEarlier(t) THEN [mcExcuse EXCEPT ![t] = @ \cup {"in hand"}]
                       ELSE mcExcuse
    BY DEF Owe
  <1>3. /\ mcRow' \in [Tag -> Sync \cup {NoSync}]
        /\ mcRow'[t].status = "pending" /\ mcRow'[t].attempts < MaxAttempts /\ mcRow'[t] # NoSync
        /\ \A o \in Tag : o # t => mcRow'[o] = mcRow[o]
    <2>1. CASE mcRow' = mcRow /\ mcRow[t].status = "pending"
      <3>1. mcRow[t].attempts < MaxAttempts /\ mcRow[t] # NoSync
        BY <1>1, <2>1, McTyped DEF McIInv, SyncsFit
      <3>2. mcRow' \in [Tag -> Sync \cup {NoSync}]
        BY <1>1, <2>1 DEF McTypeOK
      <3> QED
        BY <2>1, <3>1, <3>2
    <2>2. CASE mcRow' = [mcRow EXCEPT ![t] = [status |-> "pending", attempts |-> 0,
                                              due |-> TRUE]]
      <3>1. [status |-> "pending", attempts |-> 0, due |-> TRUE] \in Sync
        BY OutboxAssumption DEF Sync, RowStatus
      <3>2. mcRow'[t] = [status |-> "pending", attempts |-> 0, due |-> TRUE]
        BY <1>1, <2>2 DEF McTypeOK
      <3>3. mcRow' \in [Tag -> Sync \cup {NoSync}] /\ \A o \in Tag : o # t => mcRow'[o] = mcRow[o]
        BY <1>1, <2>2, <3>1 DEF McTypeOK
      <3> QED
        BY <3>2, <3>3, OutboxAssumption DEF NoSync
    <2> QED
      BY <2>1, <2>2
  <1> HIDE DEF t
  <1>4. McTypeOK'
    BY <1>1, <1>2, <1>3 DEF McTypeOK, McHook
  <1>5. SyncsFit'
    BY <1>1, <1>3 DEF McIInv, SyncsFit
  <1>5a. SendsFit'
    <2>1. \A o \in Tag : mcRow[o] # NoSync => mcRow'[o] # NoSync
      BY <1>3
    <2>2. \A o \in Grant : mcHook'[o] = "found" => mcHook[o] = "found"
      BY <1>1 DEF McTypeOK
    <2> QED
      BY <1>1, <2>1, <2>2, McTyped DEF McIInv, SendsFit
  <1>6. \A o : DecidedEarlier(o)' <=> DecidedEarlier(o)
    BY <1>1 DEF DecidedEarlier
  <1>7. OwedFits'
    <2> SUFFICES ASSUME NEW o \in mcOwed', mcExcuse'[o] = {}
                 PROVE  mcRow'[o].status = "pending" /\ ~ DecidedEarlier(o)
      BY <1>6 DEF OwedFits
    <2>1. o \in Tag /\ mcExcuse[o] = {} /\ (o = t => ~ DecidedEarlier(t))
      <3>1. o \in Tag
        BY <1>1, <1>2 DEF McTypeOK
      <3>2. CASE DecidedEarlier(t)
        <4>1. mcExcuse' = [mcExcuse EXCEPT ![t] = @ \cup {"in hand"}]
          BY <1>2, <3>2
        <4>2. mcExcuse \in [Tag -> SUBSET {"in hand", "disabled"}]
          BY <1>1 DEF McTypeOK
        <4>3. o # t
          BY <1>1, <4>1, <4>2
        <4> QED
          BY <3>1, <4>1, <4>2, <4>3
      <3>3. CASE ~ DecidedEarlier(t)
        BY <1>2, <3>1, <3>3
      <3> QED
        BY <3>2, <3>3
    <2> QED
      BY <1>2, <1>3, <2>1 DEF McIInv, OwedFits
  <1> QED
    BY <1>4, <1>5, <1>5a, <1>7 DEF McIInv

\* A grant's save, and its hook, keep the invariant.
LEMMA GrantsKeep ==
  ASSUME McIInv, NEW g \in Grant, CommitGrant(g) \/ LoseGrant(g) \/ McHookStep(g)
  PROVE  McIInv'
  <1>1. ASSUME NEW h \in McHook, mcHook' = [mcHook EXCEPT ![g] = h],
               h = "found" => mcRow[mcTag[g]] # NoSync,
               UNCHANGED <<mcEnabled, mcMapped, mcTag, mcRow, mcDispatchers, mcOwed,
                           mcExcuse, mcChanges>>
        PROVE  McIInv'
    <2>1. \A o : DecidedEarlier(o)' <=> DecidedEarlier(o)
      BY <1>1 DEF DecidedEarlier, mcDispatchers
    <2> QED
      BY <1>1, <2>1 DEF McIInv, McTypeOK, SyncsFit, SendsFit, OwedFits, mcDispatchers
  <1>2. CASE CommitGrant(g)
    BY <1>1, <1>2 DEF CommitGrant, McHook
  <1>3. CASE LoseGrant(g)
    BY <1>1, <1>3 DEF LoseGrant, McHook
  <1>4. CASE Enqueue(g)
    <2>1. CASE ~ mcEnabled
      BY <1>1, <1>4, <2>1 DEF Enqueue, McHook
    <2>2. CASE mcEnabled /\ mcRow[mcTag[g]] = NoSync
      BY <1>4, <2>2, OweKeeps DEF Enqueue
    <2>3. CASE mcEnabled /\ mcRow[mcTag[g]] # NoSync /\ ~ Reopens(mcRow[mcTag[g]].status)
      BY <1>4, <2>3, OweKeeps DEF Enqueue, Reopens
    <2>4. CASE mcEnabled /\ mcRow[mcTag[g]] # NoSync /\ Reopens(mcRow[mcTag[g]].status)
      BY <1>1, <1>4, <2>4 DEF Enqueue, McHook
    <2> QED
      BY <2>1, <2>2, <2>3, <2>4
  <1>5. CASE Reopen(g)
    BY <1>5, OweKeeps DEF Reopen
  <1> QED
    BY <1>2, <1>3, <1>4, <1>5 DEF McHookStep

\* A dispatcher that is free loads what is due; what it will fail, as Mailchimp was
\* disabled, is excused.
LEMMA LoadsKeep ==
  ASSUME McIInv, NEW d \in Dispatcher, LoadSyncs(d)
  PROVE  McIInv'
  <1>1. PICK B \in Batches(SyncDue) :
          /\ mcBatch' = [mcBatch EXCEPT ![d] =
               [t \in Tag |-> IF t \in B THEN [attempts |-> mcRow[t].attempts] ELSE NoCopy]]
          /\ mcExcuse' = [t \in Tag |->
               IF t \in B /\ ~ mcEnabled THEN mcExcuse[t] \cup {"disabled"} ELSE mcExcuse[t]]
    BY DEF LoadSyncs
  <1>2. /\ mcHand[d] = NoSend /\ mcSeen' = [mcSeen EXCEPT ![d] = mcEnabled]
        /\ UNCHANGED <<mcEnabled, mcMapped, mcHook, mcTag, mcRow, mcHand, mcOwed, mcChanges>>
    BY DEF LoadSyncs, Free
  <1>3. \A t \in B : /\ t \in Tag /\ mcRow[t] # NoSync
                     /\ [attempts |-> mcRow[t].attempts] \in SyncCopy
    BY SyncBatchFits DEF McIInv
  <1>4. /\ \A t \in Tag : mcBatch'[d][t] \in SyncCopy \cup {NoCopy}
        /\ \A t \in Tag : mcBatch'[d][t] # NoCopy => t \in B
        /\ \A o \in Dispatcher : o # d => mcBatch'[o] = mcBatch[o] /\ mcSeen'[o] = mcSeen[o]
        /\ mcSeen'[d] = mcEnabled
    BY <1>1, <1>2, <1>3 DEF McIInv, McTypeOK
  <1>5. McTypeOK'
    <2>1. mcBatch' \in [Dispatcher -> [Tag -> SyncCopy \cup {NoCopy}]]
      BY <1>1, <1>3 DEF McIInv, McTypeOK
    <2>2. mcExcuse' \in [Tag -> SUBSET {"in hand", "disabled"}]
      BY <1>1 DEF McIInv, McTypeOK
    <2> QED
      BY <1>2, <2>1, <2>2 DEF McIInv, McTypeOK
  <1>6. SyncsFit' /\ SendsFit'
    <2>1. SyncsFit'
      BY <1>2 DEF McIInv, SyncsFit
    <2>2. ASSUME NEW o \in Dispatcher, NEW t \in Tag, mcBatch'[o][t] # NoCopy
          PROVE  mcRow[t] # NoSync
      <3>1. CASE o = d
        BY <1>3, <1>4, <2>2, <3>1
      <3>2. CASE o # d
        BY <1>4, <2>2, <3>2 DEF McIInv, SendsFit
      <3> QED
        BY <3>1, <3>2
    <2> QED
      BY <1>2, <2>1, <2>2 DEF McIInv, SendsFit
  <1>7. OwedFits'
    <2> SUFFICES ASSUME NEW t \in mcOwed, mcExcuse'[t] = {}
                 PROVE  mcRow[t].status = "pending" /\ ~ DecidedEarlier(t)'
      BY <1>2 DEF OwedFits
    <2>1. t \in Tag /\ mcExcuse[t] = {} /\ (t \in B => mcEnabled)
      BY <1>1 DEF McIInv, McTypeOK
    <2>2. mcRow[t].status = "pending" /\ ~ DecidedEarlier(t)
      BY <2>1 DEF McIInv, OwedFits
    <2>3. ~ DecidedEarlier(t)'
      BY <1>2, <1>4, <2>1, <2>2 DEF DecidedEarlier
    <2> QED
      BY <2>2, <2>3
  <1> QED
    BY <1>5, <1>6, <1>7 DEF McIInv

\* A request is sent: its grant is owed no longer.
LEMMA SendKeeps ==
  ASSUME McIInv, NEW d \in Dispatcher, NEW t \in Tag, Send(d, t)
  PROVE  McIInv'
  <1>1. PICK answer \in Answer :
          mcHand' = [mcHand EXCEPT ![d] = [answer |-> answer, tag |-> t, copy |-> mcBatch[d][t]]]
    BY DEF Send
  <1>2. /\ mcBatch[d][t] # NoCopy /\ mcBatch' = [mcBatch EXCEPT ![d][t] = NoCopy]
        /\ mcOwed' = mcOwed \ {t}
        /\ UNCHANGED <<mcEnabled, mcMapped, mcHook, mcTag, mcRow, mcSeen, mcExcuse, mcChanges>>
    BY DEF Send
  <1>3. /\ mcBatch[d][t] \in SyncCopy /\ mcRow[t] # NoSync
        /\ mcHand'[d] = [answer |-> answer, tag |-> t, copy |-> mcBatch[d][t]]
        /\ \A o \in Dispatcher : o # d => mcHand'[o] = mcHand[o]
        /\ \A o \in Dispatcher, s \in Tag : mcBatch'[o][s] # NoCopy => mcBatch'[o][s] = mcBatch[o][s]
    <2>1. McTypeOK
      BY DEF McIInv
    <2>2. mcBatch[d][t] \in SyncCopy /\ mcRow[t] # NoSync
      BY <1>2, <2>1, McTyped DEF McIInv, SendsFit
    <2>3. /\ mcHand'[d] = [answer |-> answer, tag |-> t, copy |-> mcBatch[d][t]]
          /\ \A o \in Dispatcher : o # d => mcHand'[o] = mcHand[o]
      BY <1>1, <2>1 DEF McTypeOK
    <2>4. mcBatch \in [Dispatcher -> [Tag -> SyncCopy \cup {NoCopy}]]
      BY <2>1 DEF McTypeOK
    <2>5. \A o \in Dispatcher, s \in Tag : mcBatch'[o][s] # NoCopy => mcBatch'[o][s] = mcBatch[o][s]
      BY <1>2, <2>4
    <2> QED
      BY <2>2, <2>3, <2>5
  <1>4. McTypeOK'
    <2>1. mcBatch' \in [Dispatcher -> [Tag -> SyncCopy \cup {NoCopy}]]
      BY <1>2 DEF McIInv, McTypeOK
    <2>2. mcHand' \in [Dispatcher -> [answer : Answer, tag : Tag, copy : SyncCopy] \cup {NoSend}]
      BY <1>1, <1>3 DEF McIInv, McTypeOK
    <2> QED
      BY <1>2, <2>1, <2>2 DEF McIInv, McTypeOK
  <1>5. SyncsFit' /\ SendsFit'
    BY <1>2, <1>3 DEF McIInv, SyncsFit, SendsFit
  <1>6. OwedFits'
    <2> SUFFICES ASSUME NEW o \in mcOwed, o # t, mcExcuse[o] = {}
                 PROVE  mcRow[o].status = "pending" /\ ~ DecidedEarlier(o)'
      BY <1>2 DEF OwedFits
    <2>1. mcRow[o].status = "pending" /\ ~ DecidedEarlier(o) /\ o \in Tag
      BY DEF McIInv, McTypeOK, OwedFits
    <2>2. ~ DecidedEarlier(o)'
      BY <1>2, <1>3, <2>1 DEF DecidedEarlier
    <2> QED
      BY <2>1, <2>2
  <1> QED
    BY <1>4, <1>5, <1>6 DEF McIInv

\* An outcome is saved: it is about a grant that is not owed, or is excused.
LEMMA SavesKeepSyncs ==
  ASSUME McIInv, NEW d \in Dispatcher, NEW t \in Tag, NEW c \in SyncCopy,
         mcRow[t] # NoSync, DecidedEarlier(t),
         mcRow' = SyncDelivered(t, c) \/ \E p \in BOOLEAN : mcRow' = SyncFailed(t, c, p),
         \/ mcBatch' = [mcBatch EXCEPT ![d][t] = NoCopy] /\ mcHand' = mcHand
         \/ mcHand' = [mcHand EXCEPT ![d] = NoSend] /\ mcBatch' = mcBatch,
         UNCHANGED <<mcEnabled, mcMapped, mcHook, mcTag, mcSeen, mcOwed, mcExcuse, mcChanges>>
  PROVE  McIInv'
  <1>1. /\ mcRow' \in [Tag -> Sync \cup {NoSync}]
        /\ mcRow'[t].status = "pending" => mcRow'[t].attempts < MaxAttempts
        /\ mcRow'[t] # NoSync
        /\ \A o \in Tag : o # t => mcRow'[o] = mcRow[o]
    BY OutcomeFits DEF McIInv
  <1>2. /\ mcBatch' \in [Dispatcher -> [Tag -> SyncCopy \cup {NoCopy}]]
        /\ mcHand' \in [Dispatcher -> [answer : Answer, tag : Tag, copy : SyncCopy] \cup {NoSend}]
        /\ \A o \in Dispatcher, s \in Tag : mcBatch'[o][s] # NoCopy => mcBatch'[o][s] = mcBatch[o][s]
        /\ \A o \in Dispatcher : mcHand'[o] # NoSend => mcHand'[o] = mcHand[o]
    <2>1. mcBatch \in [Dispatcher -> [Tag -> SyncCopy \cup {NoCopy}]]
      BY DEF McIInv, McTypeOK
    <2>2. mcHand \in [Dispatcher -> [answer : Answer, tag : Tag, copy : SyncCopy] \cup {NoSend}]
      BY DEF McIInv, McTypeOK
    <2>3. /\ mcBatch' \in [Dispatcher -> [Tag -> SyncCopy \cup {NoCopy}]]
          /\ \A o \in Dispatcher, s \in Tag : mcBatch'[o][s] # NoCopy => mcBatch'[o][s] = mcBatch[o][s]
      BY <2>1
    <2>4. /\ mcHand' \in [Dispatcher -> [answer : Answer, tag : Tag, copy : SyncCopy] \cup {NoSend}]
          /\ \A o \in Dispatcher : mcHand'[o] # NoSend => mcHand'[o] = mcHand[o]
      BY <2>2
    <2> QED
      BY <2>3, <2>4
  <1>3. McTypeOK'
    BY <1>1, <1>2 DEF McIInv, McTypeOK
  <1>4. SyncsFit'
    BY <1>1 DEF McIInv, SyncsFit
  <1>5. SendsFit'
    <2>1. \A s \in Tag : mcRow[s] # NoSync => mcRow'[s] # NoSync
      BY <1>1
    <2>2. \A o \in Dispatcher, s \in Tag : mcBatch'[o][s] # NoCopy => mcRow'[s] # NoSync
      BY <1>2, <2>1 DEF McIInv, SendsFit
    <2>3. \A o \in Dispatcher : mcHand'[o] # NoSend => mcRow'[mcHand'[o].tag] # NoSync
      BY <1>2, <2>1, McTyped DEF McIInv, SendsFit
    <2>4. \A g \in Grant : mcHook'[g] = "found" => mcRow'[mcTag'[g]] # NoSync
      BY <2>1, McTyped DEF McIInv, SendsFit
    <2> QED
      BY <2>2, <2>3, <2>4 DEF SendsFit
  <1>6. OwedFits'
    <2> SUFFICES ASSUME NEW o \in mcOwed, mcExcuse[o] = {}
                 PROVE  mcRow'[o].status = "pending" /\ ~ DecidedEarlier(o)'
      BY DEF OwedFits
    <2>1. mcRow[o].status = "pending" /\ ~ DecidedEarlier(o) /\ o \in Tag
      BY DEF McIInv, McTypeOK, OwedFits
    <2>2. o # t
      BY <2>1
    <2>3. ~ DecidedEarlier(o)'
      BY <1>2, <2>1 DEF DecidedEarlier
    <2> QED
      BY <1>1, <2>1, <2>2, <2>3
  <1> QED
    BY <1>3, <1>4, <1>5, <1>6 DEF McIInv

\* A dispatcher's outcomes, its crash and the client's own changes.
LEMMA McStep == McIInv /\ [McNext]_mcVars => McIInv'
  <1> SUFFICES ASSUME McIInv, [McNext]_mcVars PROVE McIInv'
    OBVIOUS
  <1>1. ASSUME NEW d \in Dispatcher, NEW t \in Tag, FailDisabled(d, t) PROVE McIInv'
    <2>1. /\ mcBatch[d][t] # NoCopy /\ ~ mcSeen[d] /\ mcRow' = SyncFailed(t, mcBatch[d][t], TRUE)
          /\ mcBatch' = [mcBatch EXCEPT ![d][t] = NoCopy]
          /\ UNCHANGED <<mcEnabled, mcMapped, mcHook, mcTag, mcHand, mcSeen, mcOwed, mcExcuse,
                         mcChanges>>
      BY <1>1 DEF FailDisabled
    <2>2. mcBatch[d][t] \in SyncCopy /\ mcRow[t] # NoSync
      BY <2>1, McTyped DEF McIInv, SendsFit
    <2>3. DecidedEarlier(t)
      BY <2>1 DEF DecidedEarlier
    <2> QED
      BY <2>1, <2>2, <2>3, SavesKeepSyncs
  <1>2. ASSUME NEW d \in Dispatcher, MarkSync(d) PROVE McIInv'
    <2> DEFINE hand == mcHand[d]
    <2>1. /\ hand \in [answer : Answer, tag : Tag, copy : SyncCopy] /\ hand # NoSend
          /\ mcRow[hand.tag] # NoSync
      BY <1>2 DEF MarkSync, McIInv, McTypeOK, SendsFit
    <2>2. hand.tag \in Tag /\ hand.copy \in SyncCopy /\ DecidedEarlier(hand.tag)
      BY <2>1 DEF DecidedEarlier
    <2>3. \/ mcRow' = SyncDelivered(hand.tag, hand.copy)
          \/ \E p \in BOOLEAN : mcRow' = SyncFailed(hand.tag, hand.copy, p)
      BY <1>2 DEF MarkSync
    <2>4. /\ mcHand' = [mcHand EXCEPT ![d] = NoSend] /\ mcBatch' = mcBatch
          /\ UNCHANGED <<mcEnabled, mcMapped, mcHook, mcTag, mcSeen, mcOwed, mcExcuse, mcChanges>>
      BY <1>2 DEF MarkSync
    <2> HIDE DEF hand
    <2> QED
      BY <2>1, <2>2, <2>3, <2>4, SavesKeepSyncs
  <1>3. ASSUME NEW d \in Dispatcher, CrashSync(d) PROVE McIInv'
    <2>1. /\ mcBatch' = [mcBatch EXCEPT ![d] = [t \in Tag |-> NoCopy]]
          /\ mcHand' = [mcHand EXCEPT ![d] = NoSend] /\ mcChanges' = mcChanges + 1
          /\ UNCHANGED <<mcEnabled, mcMapped, mcHook, mcTag, mcRow, mcSeen, mcOwed, mcExcuse>>
      BY <1>3 DEF CrashSync
    <2>2. McTypeOK'
      <3>1. mcBatch' \in [Dispatcher -> [Tag -> SyncCopy \cup {NoCopy}]]
        BY <2>1 DEF McIInv, McTypeOK
      <3>2. mcHand' \in [Dispatcher -> [answer : Answer, tag : Tag, copy : SyncCopy] \cup {NoSend}]
        <4>1. mcHand \in [Dispatcher -> [answer : Answer, tag : Tag, copy : SyncCopy] \cup {NoSend}]
          BY DEF McIInv, McTypeOK
        <4> QED
          BY <2>1, <4>1
      <3>3. mcChanges' \in Nat
        <4>1. mcChanges \in Nat
          BY DEF McIInv, McTypeOK
        <4> QED
          BY <2>1, <4>1
      <3>4. McTypeOK
        BY DEF McIInv
      <3> QED
        BY <2>1, <3>1, <3>2, <3>3, <3>4 DEF McTypeOK
    <2>3. /\ \A o \in Dispatcher, s \in Tag : mcBatch'[o][s] # NoCopy => mcBatch'[o][s] = mcBatch[o][s]
          /\ \A o \in Dispatcher : mcHand'[o] # NoSend => mcHand'[o] = mcHand[o]
      BY <2>1 DEF McIInv, McTypeOK
    <2>4. SyncsFit' /\ SendsFit'
      BY <2>1, <2>3 DEF McIInv, SyncsFit, SendsFit
    <2>5. \A o \in Tag : DecidedEarlier(o)' => DecidedEarlier(o)
      BY <2>1, <2>3 DEF DecidedEarlier
    <2>6. OwedFits'
      BY <2>1, <2>5 DEF McIInv, McTypeOK, OwedFits
    <2> QED
      BY <2>2, <2>4, <2>6 DEF McIInv
  <1>4. ASSUME NEW t \in Tag, SyncBecomesDue(t) PROVE McIInv'
    <2>1. /\ mcRow[t].status = "pending" /\ mcRow' = [mcRow EXCEPT ![t].due = TRUE]
          /\ UNCHANGED <<mcEnabled, mcMapped, mcHook, mcTag, mcBatch, mcHand, mcSeen, mcOwed,
                         mcExcuse, mcChanges>>
      BY <1>4 DEF SyncBecomesDue, mcDispatchers
    <2>2. mcRow[t] \in Sync
      BY <2>1, McTyped DEF McIInv
    <2>3. /\ mcRow' \in [Tag -> Sync \cup {NoSync}]
          /\ \A o \in Tag : /\ mcRow'[o].status = mcRow[o].status
                            /\ o # t => mcRow'[o] = mcRow[o]
          /\ mcRow'[t].attempts = mcRow[t].attempts
      BY <2>1, <2>2 DEF McIInv, McTypeOK, Sync
    <2>4. mcRow'[t] # NoSync
      BY <2>1, <2>3 DEF NoSync
    <2>5. McTypeOK'
      BY <2>1, <2>3 DEF McIInv, McTypeOK
    <2>6. SyncsFit'
      BY <2>1, <2>3 DEF McIInv, SyncsFit
    <2>7. SendsFit'
      <3>1. \A o \in Tag : mcRow[o] # NoSync => mcRow'[o] # NoSync
        BY <2>3, <2>4
      <3> QED
        BY <2>1, <3>1, McTyped DEF McIInv, SendsFit
    <2>8. \A o : DecidedEarlier(o)' <=> DecidedEarlier(o)
      BY <2>1 DEF DecidedEarlier
    <2>9. OwedFits'
      BY <2>1, <2>3, <2>8 DEF McIInv, McTypeOK, OwedFits
    <2> QED
      BY <2>5, <2>6, <2>7, <2>9 DEF McIInv
  <1>5. ASSUME mcEnabled' \in BOOLEAN, mcMapped' \subseteq Tag, mcChanges' \in Nat,
               UNCHANGED <<mcHook, mcTag, mcRow, mcBatch, mcHand, mcSeen, mcOwed, mcExcuse>>
        PROVE  McIInv'
    <2>1. \A o : DecidedEarlier(o)' <=> DecidedEarlier(o)
      BY <1>5 DEF DecidedEarlier
    <2> QED
      BY <1>5, <2>1 DEF McIInv, McTypeOK, SyncsFit, SendsFit, OwedFits
  <1>6. CASE UpdateConfig \/ ReconcileMappings
    <2>1. mcEnabled \in BOOLEAN /\ mcMapped \subseteq Tag /\ mcChanges \in Nat
      BY DEF McIInv, McTypeOK
    <2>2. mcEnabled' \in BOOLEAN /\ mcMapped' \subseteq Tag /\ mcChanges' \in Nat
      <3>1. CASE UpdateConfig
        <4>1. mcEnabled' = (~ mcEnabled) /\ mcMapped' = mcMapped /\ mcChanges' = mcChanges + 1
          BY <3>1 DEF UpdateConfig
        <4>2. mcEnabled' \in BOOLEAN
          BY <4>1
        <4> QED
          BY <2>1, <4>1, <4>2
      <3>2. CASE ReconcileMappings
        <4>1. mcEnabled' = mcEnabled /\ mcMapped' \in SUBSET Tag /\ mcChanges' = mcChanges + 1
          BY <3>2 DEF ReconcileMappings
        <4> QED
          BY <2>1, <4>1
      <3> QED
        BY <1>6, <3>1, <3>2
    <2>3. UNCHANGED <<mcHook, mcTag, mcRow, mcBatch, mcHand, mcSeen, mcOwed, mcExcuse>>
      BY <1>6 DEF UpdateConfig, ReconcileMappings, mcDispatchers
    <2> QED
      BY <1>5, <2>2, <2>3
  <1>7. CASE UNCHANGED mcVars
    BY <1>5, <1>7 DEF mcVars, McIInv, McTypeOK
  <1> QED
    BY <1>1, <1>2, <1>3, <1>4, <1>6, <1>7, GrantsKeep, LoadsKeep, SendKeeps
       DEF McNext, McDispatch

\* Whatever grants, dispatchers, crashes and changes of the client's settings
\* interleave, the invariant holds.
THEOREM MailchimpInvariance == McSafetySpec => []McIInv
  BY McInitially, McStep, PTL DEF McSafetySpec

\* Every variable of the Mailchimp outbox keeps its type.
THEOREM MailchimpTypeCorrect == McSafetySpec => []McTypeOK
  <1>1. McIInv => McTypeOK
    BY DEF McIInv
  <1> QED
    BY <1>1, MailchimpInvariance, PTL

\* A grant the outbox has taken on and not sent has a row that is still pending,
\* unless a dispatcher had decided its outcome before or Mailchimp was disabled: no
\* other outcome of an overlapping dispatcher settles it unsent
\* (services/mailchimp.py).
THEOREM OwedStaysPending == McSafetySpec => []McOwedIsPending
  <1>1. McIInv => McOwedIsPending
    BY DEF McIInv, OwedFits, McOwedIsPending
  <1> QED
    BY <1>1, MailchimpInvariance, PTL

-----------------------------------------------------------------------------
(* The queues.                                                             *)

\* A behaviour of the queues is one of each component, without its fairness: the
\* one in focus takes its steps and the others stand still.
LEMMA QueuesAreTheirParts ==
  QueuesSpec => CbSafetySpec /\ McSafetySpec /\ ImSafetySpec /\ IbSafetySpec
  <1>1. QueuesInit => CbInit /\ McInit /\ ImInit /\ IbInit
    BY DEF QueuesInit
  <1>2. [QueuesNext]_queueVars =>
          [CbNext]_cbVars /\ [McNext]_mcVars /\ [ImNext]_imVars /\ [IbNext]_ibVars
    BY DEF QueuesNext, CbMoves, McMoves, ImMoves, IbMoves, queueVars
  <1> QED
    BY <1>1, <1>2, PTL DEF QueuesSpec, CbSafetySpec, McSafetySpec, ImSafetySpec, IbSafetySpec

\* The variables of all four components keep their types, and no step changes which
\* of them runs.
THEOREM QueuesTypeCorrect == QueuesSpec => []QueuesTypeOK
  <1>1. QueuesInit => focus \in Focus
    BY DEF QueuesInit
  <1>2. focus \in Focus /\ [QueuesNext]_queueVars => (focus \in Focus)'
    BY DEF QueuesNext, CbMoves, McMoves, ImMoves, IbMoves, queueVars
  <1>3. QueuesSpec => [](focus \in Focus)
    BY <1>1, <1>2, PTL DEF QueuesSpec
  <1>4. CbTypeOK /\ McTypeOK /\ ImTypeOK /\ IbTypeOK /\ focus \in Focus => QueuesTypeOK
    BY DEF QueuesTypeOK
  <1> QED
    BY <1>3, <1>4, QueuesAreTheirParts, CallbackTypeCorrect, MailchimpTypeCorrect,
       ImportTypeCorrect, InboundTypeCorrect, PTL

=============================================================================

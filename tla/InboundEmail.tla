---------------------------- MODULE InboundEmail ----------------------------
(***************************************************************************)
(* Inbound email, from the SQS queue that S3 notifies to the events that   *)
(* are published.  An ingress drain (sqs_worker.py, ingress.py) receives a *)
(* batch, enqueues a task for each record and deletes the records that     *)
(* were enqueued.  The task (services/inbound_email.py), which the task    *)
(* backend runs once, claims each route of the message with a conditional  *)
(* write to DynamoDB, publishes one event for it and, if that raises,      *)
(* releases the claim.                                                     *)
(*                                                                         *)
(* A request to AWS may be applied although its answer is lost.  The       *)
(* clients are made without a configuration (aws.py), so botocore repeats  *)
(* a request that was not answered before the caller hears of it.          *)
(***************************************************************************)
EXTENDS Naturals, FiniteSets

CONSTANTS Notification, \* S3 records, one stored object each
          MessageIdOf,  \* the Message-ID in the object of each notification
          Route,        \* the configured routes
          RoutesOf,     \* those that the object's recipients match
          Drain,        \* drain_sqs_ingress processes
          MaxReceives,  \* maxReceiveCount of the queue's redrive policy
          Tries,        \* requests botocore makes before it raises
          MaxIbCrashes  \* bound on processes dying

ASSUME InboundAssumption ==
    /\ MaxReceives \in Nat \ {0} /\ Tries \in Nat \ {0}
    /\ RoutesOf \in [Notification -> SUBSET Route]

Receipt == Notification \X (1..MaxReceives)

VARIABLES ibQueue,    \* each notification in SQS
          ibReceives, \* ApproximateReceiveCount
          ibHeld,     \* the records of a drain's batch, and what became of them
          ibTask,     \* the task of each receipt
          ibTodo,     \* routes a running task has still to come to
          ibAt,       \* the route it is at
          ibClaim,    \* the items of the idempotency table
          ibPublished,\* ghost: events published for each message and route
          ibExcuse,   \* ghost: what went wrong around them
          ibCrashes

ibVars == <<ibQueue, ibReceives, ibHeld, ibTask, ibTodo, ibAt, ibClaim,
            ibPublished, ibExcuse, ibCrashes>>
ibSqs == <<ibQueue, ibReceives, ibHeld>>
ibTasks == <<ibTask, ibTodo, ibAt>>

NoRoute == [step |-> "none"]

\* The hash of the Message-ID and the route.
EventId == {MessageIdOf[n] : n \in Notification} \X Route
EventOf(t, r) == <<MessageIdOf[t[1]], r>>

\* What goes wrong around an event: the answer to its publish is lost, or its claim
\* is left behind because the answer to the put is lost, the task dies or the
\* release raises.
Excuses == {"answer", "left"}

IbTypeOK ==
    /\ ibQueue \in [Notification -> {"unsent", "queued", "deleted", "dead"}]
    /\ ibReceives \in [Notification -> 0..MaxReceives]
    /\ ibHeld \in [Drain -> [Notification ->
                     [state : {"received", "enqueued", "failed"},
                      receipt : 1..MaxReceives] \cup {NoRoute}]]
    /\ ibTask \in [Receipt -> {"none", "ready", "running", "done", "failed", "dead"}]
    /\ ibTodo \in [Receipt -> SUBSET Route]
    /\ ibAt \in [Receipt -> [step : {"claimed", "raised"}, route : Route] \cup {NoRoute}]
    /\ ibClaim \subseteq EventId
    /\ ibPublished \in [EventId -> Nat]
    /\ ibExcuse \in [EventId -> SUBSET Excuses]
    /\ ibCrashes \in Nat

IbInit ==
    /\ ibQueue = [n \in Notification |-> "unsent"]
    /\ ibReceives = [n \in Notification |-> 0]
    /\ ibHeld = [d \in Drain |-> [n \in Notification |-> NoRoute]]
    /\ ibTask = [t \in Receipt |-> "none"]
    /\ ibTodo = [t \in Receipt |-> {}]
    /\ ibAt = [t \in Receipt |-> NoRoute]
    /\ ibClaim = {}
    /\ ibPublished = [i \in EventId |-> 0]
    /\ ibExcuse = [i \in EventId |-> {}]
    /\ ibCrashes = 0

-----------------------------------------------------------------------------
(* The queue and the drains.                                               *)

Notify(n) ==
    /\ ibQueue[n] = "unsent"
    /\ ibQueue' = [ibQueue EXCEPT ![n] = "queued"]
    /\ UNCHANGED <<ibReceives, ibHeld, ibTasks, ibClaim, ibPublished, ibExcuse,
                   ibCrashes>>

Empty(d) == \A n \in Notification : ibHeld[d][n] = NoRoute

\* One receive_message.  A record another drain still holds comes again too:
\* its visibility timeout may be over.
Receive(d) ==
    /\ Empty(d)
    /\ \E batch \in SUBSET {n \in Notification :
                              ibQueue[n] = "queued" /\ ibReceives[n] < MaxReceives} :
        /\ batch # {}
        /\ ibReceives' = [n \in Notification |->
                            ibReceives[n] + IF n \in batch THEN 1 ELSE 0]
        /\ ibHeld' = [ibHeld EXCEPT ![d] = [n \in Notification |->
             IF n \in batch THEN [state |-> "received", receipt |-> ibReceives[n] + 1]
                            ELSE NoRoute]]
    /\ UNCHANGED <<ibQueue, ibTasks, ibClaim, ibPublished, ibExcuse, ibCrashes>>

\* process_sqs_event on one record: the task is enqueued, or the handler raises
\* and the record is reported as failed.
HandleRecord(d, n) ==
    /\ ibHeld[d][n] # NoRoute /\ ibHeld[d][n].state = "received"
    /\ \/ /\ ibHeld' = [ibHeld EXCEPT ![d][n].state = "enqueued"]
          /\ ibTask' = [ibTask EXCEPT ![<<n, ibHeld[d][n].receipt>>] = "ready"]
       \/ /\ ibHeld' = [ibHeld EXCEPT ![d][n].state = "failed"]
          /\ UNCHANGED ibTask
    /\ UNCHANGED <<ibQueue, ibReceives, ibTodo, ibAt, ibClaim, ibPublished,
                   ibExcuse, ibCrashes>>

Handled(d) == \A n \in Notification :
                 ibHeld[d][n] # NoRoute => ibHeld[d][n].state # "received"

\* The records of a batch that run_once deletes.
DeletesAll(held) == held.state \in {"enqueued", "failed"}

Deletes(held) == held.state = "enqueued"

\* After the whole batch was handled its records are deleted one by one; those
\* that failed are let go.
FinishRecord(d, n) ==
    /\ Handled(d) /\ ibHeld[d][n] # NoRoute
    /\ ibQueue' = [ibQueue EXCEPT ![n] = IF Deletes(ibHeld[d][n]) THEN "deleted" ELSE @]
    /\ ibHeld' = [ibHeld EXCEPT ![d][n] = NoRoute]
    /\ UNCHANGED <<ibReceives, ibTasks, ibClaim, ibPublished, ibExcuse, ibCrashes>>

\* delete_message raises, or the process dies: the rest of the batch is let go.
CrashDrain(d) ==
    /\ ibCrashes < MaxIbCrashes /\ ~ Empty(d)
    /\ ibHeld' = [ibHeld EXCEPT ![d] = [n \in Notification |-> NoRoute]]
    /\ ibCrashes' = ibCrashes + 1
    /\ UNCHANGED <<ibQueue, ibReceives, ibTasks, ibClaim, ibPublished, ibExcuse>>

\* The redrive policy moves a record received too often to the dead-letter queue.
Redrive(n) ==
    /\ ibQueue[n] = "queued" /\ ibReceives[n] = MaxReceives
    /\ \A d \in Drain : ibHeld[d][n] = NoRoute
    /\ ibQueue' = [ibQueue EXCEPT ![n] = "dead"]
    /\ UNCHANGED <<ibReceives, ibHeld, ibTasks, ibClaim, ibPublished, ibExcuse,
                   ibCrashes>>

-----------------------------------------------------------------------------
(* The task: process_inbound_object.                                       *)

\* Reads the object and its routes; an unreadable message raises.
StartTask(t) ==
    /\ ibTask[t] = "ready"
    /\ \/ /\ ibTask' = [ibTask EXCEPT ![t] = "running"]
          /\ ibTodo' = [ibTodo EXCEPT ![t] = RoutesOf[t[1]]]
       \/ /\ ibTask' = [ibTask EXCEPT ![t] = "failed"]
          /\ UNCHANGED ibTodo
    /\ UNCHANGED <<ibSqs, ibAt, ibClaim, ibPublished, ibExcuse, ibCrashes>>

PutAnyway(i) == i \in EventId
Unclaimed(i) == i \notin ibClaim

\* claim_event, outside the try: the put is answered, an item that is there makes
\* the route a replay that is skipped, or the put raises and ends the task.  A put
\* whose answer was lost has claimed the route all the same: repeated, it finds its
\* own item, and else it raises.
ClaimRoute(t, r) ==
    LET i == EventOf(t, r) IN
    /\ ibTask[t] = "running" /\ ibAt[t] = NoRoute /\ r \in ibTodo[t]
    /\ \E applied \in BOOLEAN, outcome \in {"claimed", "replay", "raises"} :
        /\ applied => Unclaimed(i)
        /\ outcome = "claimed" => applied
        /\ outcome = "replay" => ~ Unclaimed(i) \/ (applied /\ Tries > 1)
        /\ ibClaim' = IF applied THEN ibClaim \cup {i} ELSE ibClaim
        /\ ibAt' = IF outcome = "claimed"
                   THEN [ibAt EXCEPT ![t] = [step |-> "claimed", route |-> r]] ELSE ibAt
        /\ ibTask' = IF outcome = "raises" THEN [ibTask EXCEPT ![t] = "failed"] ELSE ibTask
        /\ ibTodo' = [ibTodo EXCEPT ![t] = IF outcome = "raises" THEN {} ELSE @ \ {r}]
        /\ ibExcuse' = IF applied /\ outcome # "claimed"
                       THEN [ibExcuse EXCEPT ![i] = @ \cup {"left"}] ELSE ibExcuse
    /\ UNCHANGED <<ibSqs, ibPublished, ibCrashes>>

\* Build and publish: how often it was published, and whether the last answer
\* was lost as well.
PublishEvent(t) ==
    /\ ibAt[t] # NoRoute /\ ibAt[t].step = "claimed"
    /\ LET i == EventOf(t, ibAt[t].route) IN
       \E arrived \in 0..Tries, raises \in BOOLEAN :
        /\ ~ raises => arrived > 0
        /\ ibPublished' = [ibPublished EXCEPT ![i] = @ + arrived]
        /\ ibAt' = [ibAt EXCEPT ![t] = IF raises THEN [@ EXCEPT !.step = "raised"]
                                                 ELSE NoRoute]
        /\ ibExcuse' = IF arrived > IF raises THEN 0 ELSE 1
                       THEN [ibExcuse EXCEPT ![i] = @ \cup {"answer"}] ELSE ibExcuse
    /\ UNCHANGED <<ibSqs, ibTask, ibTodo, ibClaim, ibCrashes>>

KeptClaim(i) == ibClaim \cup {i}
Released(i) == ibClaim \ {i}

\* The except clause: the claim is released (or that raises as well) and the
\* exception ends the task, whatever routes are left.
ReleaseClaim(t) ==
    /\ ibAt[t] # NoRoute /\ ibAt[t].step = "raised"
    /\ LET i == EventOf(t, ibAt[t].route) IN
       \/ ibClaim' = Released(i) /\ UNCHANGED ibExcuse
       \/ UNCHANGED ibClaim /\ ibExcuse' = [ibExcuse EXCEPT ![i] = @ \cup {"left"}]
    /\ ibAt' = [ibAt EXCEPT ![t] = NoRoute]
    /\ ibTask' = [ibTask EXCEPT ![t] = "failed"]
    /\ ibTodo' = [ibTodo EXCEPT ![t] = {}]
    /\ UNCHANGED <<ibSqs, ibPublished, ibCrashes>>

FinishTask(t) ==
    /\ ibTask[t] = "running" /\ ibAt[t] = NoRoute /\ ibTodo[t] = {}
    /\ ibTask' = [ibTask EXCEPT ![t] = "done"]
    /\ UNCHANGED <<ibSqs, ibTodo, ibAt, ibClaim, ibPublished, ibExcuse, ibCrashes>>

\* The worker dies; nobody runs the task again.
CrashTask(t) ==
    /\ ibCrashes < MaxIbCrashes /\ ibTask[t] = "running"
    /\ ibTask' = [ibTask EXCEPT ![t] = "dead"]
    /\ ibExcuse' = IF ibAt[t] = NoRoute THEN ibExcuse
                   ELSE [ibExcuse EXCEPT ![EventOf(t, ibAt[t].route)] = @ \cup {"left"}]
    /\ ibAt' = [ibAt EXCEPT ![t] = NoRoute]
    /\ ibTodo' = [ibTodo EXCEPT ![t] = {}]
    /\ ibCrashes' = ibCrashes + 1
    /\ UNCHANGED <<ibSqs, ibClaim, ibPublished>>

IbDrain(d) == Receive(d) \/ \E n \in Notification : HandleRecord(d, n) \/ FinishRecord(d, n)
IbTaskStep(t) ==
    \/ StartTask(t) \/ PublishEvent(t) \/ ReleaseClaim(t) \/ FinishTask(t)
    \/ \E r \in Route : ClaimRoute(t, r)

IbNext ==
    \/ \E n \in Notification : Notify(n) \/ Redrive(n)
    \/ \E d \in Drain : IbDrain(d) \/ CrashDrain(d)
    \/ \E t \in Receipt : IbTaskStep(t) \/ CrashTask(t)

\* Drains and task workers run as services; SQS applies its redrive policy.
IbFairness ==
    /\ \A n \in Notification : WF_ibVars(Redrive(n))
    /\ \A d \in Drain : WF_ibVars(IbDrain(d))
    /\ \A t \in Receipt : WF_ibVars(IbTaskStep(t))

IbSafetySpec == IbInit /\ [][IbNext]_ibVars
IbSpec == IbSafetySpec /\ IbFairness

-----------------------------------------------------------------------------
\* An event is published twice only after the answer to a publish was lost,
\* whatever the queue redelivers and however many objects hold the message
\* (claim_event).
IbPublishedOnce ==
    \A i \in EventId : ibPublished[i] > 1 => "answer" \in ibExcuse[i]

\* A claim nobody works under stands for a published event, so taking it for a
\* replay is right, unless its task died, the release failed or the answer to its
\* put was lost.
IbClaimStandsForEvent ==
    \A i \in ibClaim :
        \/ ibPublished[i] > 0
        \/ \E t \in Receipt : ibAt[t] # NoRoute /\ i = EventOf(t, ibAt[t].route)
        \/ "left" \in ibExcuse[i]

\* Every notification leaves the queue: deleted with a task enqueued for it, or
\* to the dead-letter queue.
IbEventuallyHandedOn ==
    \A n \in Notification :
        ibQueue[n] = "queued" ~>
            \/ ibQueue[n] = "dead"
            \/ ibQueue[n] = "deleted" /\ \E k \in 1..MaxReceives : ibTask[<<n, k>>] # "none"

=============================================================================

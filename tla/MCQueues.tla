------------------------------ MODULE MCQueues ------------------------------
(* The four components that take work from a table or a queue.  They share  *)
(* no state, so one of them runs in a behaviour, the focus, and the others  *)
(* stand still: the state spaces add up and do not multiply.                *)
EXTENDS CallbackOutbox, MailchimpOutbox, ImportJob, InboundEmail

CONSTANTS d1, e1, m1, r1

VARIABLE focus
queueVars == <<cbVars, mcVars, imVars, ibVars, focus>>

\* The callback outbox runs in two sizes: two dispatchers with one event, and
\* one dispatcher with two, in which neither the webhook nor the contact goes.
CbFocus == {"callback overlap", "callback batch"}

\* Inbound email runs in two sizes: two drains with one stored object, and one
\* drain with two objects of the same message, each of which it enqueues once.
IbFocus == {"inbound redelivery", "inbound copies"}
Focus == CbFocus \cup IbFocus \cup {"mailchimp", "imports"}

\* Every object holds the one message; the first has fewer of its recipients.
OneMessage == [n \in Notification |-> m1]
FewerRoutes == [n \in Notification |-> IF n = e1 THEN {r1} ELSE Route]

QueuesInit ==
    /\ focus \in Focus
    /\ CbInit /\ McInit /\ ImInit /\ IbInit
    /\ focus # "callback overlap" => cbUrl
    /\ focus # "mailchimp" => mcEnabled /\ mcMapped = {}
    /\ focus # "imports" => \A j \in Job : imKey[j] = NoKeyGiven

CbMoves(A) == focus \in CbFocus /\ A /\ UNCHANGED <<mcVars, imVars, ibVars, focus>>
McMoves(A) == focus = "mailchimp" /\ A /\ UNCHANGED <<cbVars, imVars, ibVars, focus>>
ImMoves(A) == focus = "imports" /\ A /\ UNCHANGED <<cbVars, mcVars, ibVars, focus>>
IbMoves(A) == focus \in IbFocus /\ A /\ UNCHANGED <<cbVars, mcVars, imVars, focus>>

Small ==
    /\ focus = "callback overlap" => \A e \in Event \ {e1} : cbHook'[e] = "none"
    /\ focus = "callback batch" =>
         cbUrl' /\ ~ cbErased' /\ \A d \in Dispatcher \ {d1} : cbBatch'[d] = cbBatch[d]

IbSmall ==
    /\ focus = "inbound redelivery" => \A n \in Notification \ {e1} : ibQueue'[n] = "unsent"
    /\ focus = "inbound copies" => \A d \in Drain, n \in Notification :
         /\ ibHeld'[d][n] # NoRoute => d = d1 /\ ibHeld'[d][n].state # "failed"
         /\ ibQueue'[n] = "queued" /\ ibReceives'[n] > 0 => ibHeld'[d1][n] # NoRoute

QueuesNext ==
    \/ CbMoves(CbNext /\ Small)
    \/ McMoves(McNext) \/ ImMoves(ImNext) \/ IbMoves(IbNext /\ IbSmall)

\* The fairness of each component; as only the focus moves, the processes and
\* the rows of different components may share a name and a conjunct.
QueuesFairness ==
    /\ \A d \in Dispatcher \cup Processor \cup Drain :
         WF_queueVars(\/ d \in Dispatcher /\ CbMoves(CbDispatch(d) /\ Small)
                      \/ d \in Dispatcher /\ McMoves(McDispatch(d))
                      \/ d \in Processor /\ ImMoves(ImProcess(d))
                      \/ d \in Drain /\ IbMoves(IbDrain(d) /\ IbSmall))
    /\ \A e \in Event \cup Grant \cup Notification :
         WF_queueVars(\/ e \in Event /\ CbMoves(CbHookStep(e))
                      \/ e \in Grant /\ McMoves(McHookStep(e))
                      \/ e \in Notification /\ IbMoves(IbTaskStep(<<e, 1>>)))
    /\ \A e \in Event \cup Tag \cup Notification :
         WF_queueVars(\/ e \in Event /\ CbMoves(BecomesDue(e))
                      \/ e \in Tag /\ McMoves(SyncBecomesDue(e))
                      \/ e \in Notification /\ IbMoves(Redrive(e)))
    /\ \A n \in Notification, k \in 2..MaxReceives :
         WF_queueVars(IbMoves(IbTaskStep(<<n, k>>)))

QueuesSpec == QueuesInit /\ [][QueuesNext]_queueVars /\ QueuesFairness

\* The variables of the four components have their types.
QueuesTypeOK == CbTypeOK /\ McTypeOK /\ ImTypeOK /\ IbTypeOK /\ focus \in Focus
=============================================================================

------------------------ MODULE MCTransactionalSafety ------------------------
(* One message with racing requests, an operator, copies whose answers are   *)
(* lost and provider events; or two messages of one contact, with list       *)
(* sends, their fan-out and a suppression that both meet.                    *)
EXTENDS MCTransactionalDelivery, TLC

CONSTANT q1

\* Sound where all messages are tagged: they then differ in nothing.
Symmetry == Permutations(Message) \cup Permutations(Worker)

VARIABLE inPlay   \* the messages that are asked for

MCInit == Init /\ inPlay \in SUBSET Message \ {{}}

\* Two messages in play are asked for by one requester, have one task and one copy
\* each, no answer of theirs is lost and no provider event comes.
Small ==
    /\ \A q \in Requester : want'[q] \subseteq inPlay
    /\ Cardinality(inPlay) > 1 =>
         /\ \A q \in Requester \ {q1} : rpc'[q] = "idle"
         /\ \A m \in Message : tasks'[m] <= 1 /\ accepted'[m] <= 1 /\ lostAnswers'[m] = 0
         /\ recorded' = {}

MCSpec == MCInit /\ [][Next /\ Small /\ UNCHANGED inPlay]_<<vars, inPlay>>
=============================================================================

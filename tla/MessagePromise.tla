--------------------------- MODULE MessagePromise ---------------------------
(***************************************************************************)
(* What the service promises about a message, a transactional one per      *)
(* (client, idempotency_key) or that of a campaign to a recipient: it is   *)
(* accepted or refused once; copies leave only while its outcome is open;  *)
(* a message whose delivery the provider acknowledged is closed for good   *)
(* and gets no further copy.                                               *)
(***************************************************************************)
EXTENDS Naturals

CONSTANT Message

VARIABLES
    phase,   \* "absent", "open", "delivered" or "refused"
    copies   \* copies the provider took

Init ==
    /\ phase = [m \in Message |-> "absent"]
    /\ copies = [m \in Message |-> 0]

\* One request: each of its new messages is opened or refused.
Accept ==
    \E opened, refused \in SUBSET Message :
        /\ opened \cap refused = {}
        /\ \A m \in opened \cup refused : phase[m] = "absent"
        /\ phase' = [m \in Message |->
             IF m \in opened THEN "open"
             ELSE IF m \in refused THEN "refused" ELSE phase[m]]
        /\ UNCHANGED copies

\* A copy leaves; its acknowledgement closes the message or never arrives.
SendCopy(m) ==
    /\ phase[m] = "open"
    /\ copies' = [copies EXCEPT ![m] = @ + 1]
    /\ \/ phase' = [phase EXCEPT ![m] = "delivered"]
       \/ UNCHANGED phase

\* Open messages are given up: one the provider rejects, or all that a
\* cancelled campaign has left.
Refuse(given) ==
    /\ \A m \in given : phase[m] = "open"
    /\ phase' = [m \in Message |-> IF m \in given THEN "refused" ELSE phase[m]]
    /\ UNCHANGED copies

Next ==
    \/ Accept
    \/ \E m \in Message : SendCopy(m)
    \/ \E given \in SUBSET Message : Refuse(given)

Spec == Init /\ [][Next]_<<phase, copies>>

=============================================================================

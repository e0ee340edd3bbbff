--------------------------- MODULE MCRecipientTree ---------------------------
(* A chain of three lists: "<all>" has children at two depths.              *)
EXTENDS RecipientTree, FiniteSets, TLC

CONSTANTS
    all, a, ab,
    MaxPayload    \* bound: members of a payload

MCAncestors == (all :> <<>>) @@ (a :> <<all>>) @@ (ab :> <<a, all>>)

\* Two requests of one member overlap while everything is about one contact;
\* one request at a time moves source keys between two contacts, and may name
\* either more than once while nothing has been listed or lost.
Small(n) == \A q \in Client : Cardinality(txn[q].asked) <= n
About(c) ==
    /\ Small(1)
    /\ \A p \in Id : member[p] # NoRow => member[p].contact = c
    /\ \A q \in Client : \A o \in txn[q].asked : o.contact = c
    /\ \A x \in listed : x[3] = c
    /\ \A x \in disturbed : x[2] = c
Alone(q) == \A o \in Client \ {q} : txn[o].step = "idle"
OverlapOrMove ==
    \/ \E c \in Contact : About(c)
    \/ /\ Small(IF listed = {} /\ disturbed = {} THEN MaxPayload ELSE 1)
       /\ \E q \in Client : Alone(q)

\* Next, without the requests that would begin only to break OverlapOrMove (the
\* first line of theirs only spares TLC those that cannot hold it).
TreeNext ==
    \E q \in Client :
        \/ /\ Alone(q) \/ \E c \in Contact : About(c)
           /\ Request(q) /\ (OverlapOrMove' = TRUE)
        \/ \E o \in txn[q].todo : LoadMember(q, o)
        \/ LoadAncestor(q)
        \/ \E p \in Id : Save(q, p)
        \/ LoadAbsent(q)
        \/ Commit(q)
        \/ Abort(q)
TreeSpec == Init /\ [][TreeNext]_vars

TreeSymmetry == Permutations(Contact) \cup Permutations(Client)
=============================================================================

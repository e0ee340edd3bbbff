---------------------------- MODULE RecipientTree ----------------------------
(***************************************************************************)
(* The tree of recipient lists, services/recipient_lists.py.  A list key   *)
(* "a:b" has the ancestors "a" and "<all>"; adding a member to a list adds *)
(* a cascade member to each ancestor, whose membership_reasons name the    *)
(* (list, source_object_key) pairs it is there for.                        *)
(*                                                                         *)
(* Every request is one transaction on Postgres at READ COMMITTED: it sees *)
(* its own writes and what is committed when it reads, it locks the rows   *)
(* it writes until it ends, an UPDATE sets its columns in the newest       *)
(* version of the row, and update_or_create and the refresh of the counts  *)
(* lock the list's own row.  The members are read without a lock and       *)
(* written back later, so a row may change in between.                     *)
(*                                                                         *)
(* Lists are there from the start (a missing list has no members and gets  *)
(* created with the first one).  Left out: the member counts, e-mail       *)
(* addresses, time stamps, client metadata, and the Mailchimp syncs an     *)
(* active member queues.  A request that fails for any reason is Abort.    *)
(***************************************************************************)
EXTENDS Integers, Sequences

CONSTANTS
    List,
    Ancestors,    \* ancestor_list_keys: for each list, nearest first
    Contact,
    Source,       \* source_object_keys the CMP sends
    Cascade,      \* the key "cascade-contact:<id>" of a row a cascade made
    Client,       \* API threads
    Written,      \* the lists the CMP writes to
    Requests,     \* the requests it makes: "upsert", "reconcile", "remove"
    NoKey,        \* the result of a lookup that finds nothing
    NoRow,        \* no row has this primary key
    Clean,        \* the transaction has not written the row
    MaxRows       \* bound: member rows of a list at a time

\* Primary keys of the members of each list; a row never changes its list, and
\* a key that no transaction knows of may be used again.
Slot  == 1..MaxRows
Id    == List \X Slot

Key    == Source \cup {Cascade}
Reason == [list : List, source : Key]
Row    == [contact : Contact, source : Key, reasons : SUBSET Reason, active : BOOLEAN]

\* A member of a payload, or the member object a cascade works from.
Object == [contact : Contact, source : Key, active : BOOLEAN]

ASSUME TreeAssumption ==
    /\ Ancestors \in [List -> Seq(List)]
    \* "<all>" has no ancestor, and those of another key are shorter or "<all>".
    /\ \A l \in List : \A i \in DOMAIN Ancestors[l] : Ancestors[l][i] # l
    /\ Cascade \notin Source
    /\ Written \subseteq List
    /\ Requests \subseteq {"upsert", "reconcile", "remove"}
    /\ MaxRows \in Nat
    /\ NoRow \notin Row /\ Clean \notin Row /\ Clean # NoRow
    /\ NoKey \notin Id
    /\ List # {}

VARIABLES
    member,      \* RecipientListMember: the committed rows
    txn,         \* the open transaction of each client
    \* history the code does not keep
    listed,      \* the <<list, source, contact>> the CMP has listed
    disturbed    \* the <<list, contact>> whose row was lost, see Marks and Drop

vars == <<member, txn, listed, disturbed>>

NoObject == [active |-> FALSE]

Idle == [step   |-> "idle",
         kind   |-> "upsert",
         list   |-> CHOOSE l \in List : TRUE,
         asked  |-> {},         \* the members of the payload
         todo   |-> {},         \* those not handled yet
         said   |-> {},         \* history: the <<source, contact>> made active
         absent |-> {},         \* reconcile: rows still to be removed
         object |-> NoObject,   \* the member whose cascade is under way
         level  |-> 1,          \* its next ancestor
         found  |-> NoKey,      \* the row that was read and will be written
         seen   |-> NoRow,      \* what was read of it
         writes |-> [p \in Id |-> Clean],
         locks  |-> {},         \* list rows
         marks  |-> {}]

Txn == [step : {"idle", "next", "save", "up", "keep"},
        kind : {"upsert", "reconcile", "remove", "drop"},
        list : List, asked : SUBSET Object, todo : SUBSET Object,
        said : SUBSET (Source \X Contact),
        absent : SUBSET Id, object : Object \cup {NoObject}, level : Nat \ {0},
        found : Id \cup {NoKey}, seen : Row \cup {NoRow},
        writes : [Id -> Row \cup {NoRow, Clean}], locks : SUBSET List,
        marks : SUBSET (List \X Contact)]

TypeOK ==
    /\ member \in [Id -> Row \cup {NoRow}]
    /\ txn \in [Client -> Txn]
    /\ listed \subseteq List \X Source \X Contact
    /\ disturbed \subseteq List \X Contact

Init ==
    /\ member = [p \in Id |-> NoRow]
    /\ txn = [q \in Client |-> Idle]
    /\ listed = {}
    /\ disturbed = {}

-----------------------------------------------------------------------------
(* What a transaction sees and may write.                                  *)

View(q) == [p \in Id |-> IF txn[q].writes[p] = Clean THEN member[p] ELSE txn[q].writes[p]]

\* .first(): the lookups are unique, see the constraints below.
First(hits) == IF hits = {} THEN NoKey ELSE CHOOSE p \in hits : TRUE

ByContact(rows, l, c) ==
    First({p \in Id : rows[p] # NoRow /\ p[1] = l /\ rows[p].contact = c})

BySource(rows, l, s) ==
    First({p \in Id : rows[p] # NoRow /\ p[1] = l /\ rows[p].source = s})

\* No other transaction has locked the row, or the list's row.
RowFree(q, p)  == \A t \in Client \ {q} : txn[t].writes[p] = Clean
ListFree(q, l) == \A t \in Client \ {q} : l \notin txn[t].locks

\* unique_recipient_list_contact, unique_recipient_list_source_object
Clash(r, s) ==
    /\ r \notin {NoRow, Clean} /\ s \notin {NoRow, Clean}
    /\ r.contact = s.contact \/ (r.source = s.source /\ r.source # Cascade)

\* The row violates no constraint and waits for no other transaction that
\* writes or deletes a row it would clash with.
Unique(q, p, r) ==
    \A o \in {<<p[1], i>> : i \in Slot} \ {p} :
        /\ ~Clash(View(q)[o], r)
        /\ RowFree(q, o) \/ ~Clash(member[o], r)
        /\ \A t \in Client \ {q} : ~Clash(txn[t].writes[o], r)

\* The key a new row gets: the first that no transaction knows of.
Fresh(p) ==
    /\ member[p] = NoRow
    /\ \A q \in Client :
         /\ txn[q].writes[p] = Clean
         /\ p # txn[q].found
         /\ p \notin txn[q].absent

NextId(p) == Fresh(p) /\ \A i \in Slot : i < p[2] => ~Fresh(<<p[1], i>>)

\* History: the contacts that lose a row of the list, because it is deleted
\* for a merge, given to another contact, or was changed after it was read
\* and is now written back.
Marks(l, old, new, seen) ==
    IF old = NoRow THEN {}
    ELSE IF new = NoRow THEN {<<l, old.contact>>}
    ELSE IF new.contact # old.contact \/ seen # old
         THEN {<<l, old.contact>>, <<l, new.contact>>}
    ELSE {}

-----------------------------------------------------------------------------
(* Requests.                                                               *)

Begin(q, t) ==
    /\ txn[q].step = "idle"
    /\ txn' = [txn EXCEPT ![q] = t]
    /\ UNCHANGED <<member, listed, disturbed>>

\* upsert_recipient_list_for_client locks the list's row.  A payload may name
\* a source key or a contact more than once.
BeginUpsert(q, l, kind, asked) ==
    /\ kind \in Requests \ {"remove"}
    /\ asked # {} \/ kind = "reconcile"
    /\ ListFree(q, l)
    /\ Begin(q, [Idle EXCEPT !.step = "next", !.kind = kind, !.list = l,
                             !.asked = asked, !.todo = asked, !.locks = {l}])

\* remove_recipient_list_member_for_client: an active member is found ...
BeginRemove(q, l, s) ==
    LET p == BySource(member, l, s)
        o == [contact |-> member[p].contact, source |-> s, active |-> FALSE]
    IN /\ "remove" \in Requests
       /\ p # NoKey
       /\ member[p].active
       /\ Begin(q, [Idle EXCEPT !.step = "save", !.kind = "remove", !.list = l,
                                !.asked = {o}, !.object = o,
                                !.found = p, !.seen = member[p]])

\* ... or none, and nothing but the list's counts is written.
RemoveNothing(q, l, s) ==
    LET p == BySource(member, l, s)
    IN /\ "remove" \in Requests
       /\ txn[q].step = "idle"
       /\ ListFree(q, l)
       /\ p # NoKey => ~member[p].active
       /\ listed' = {x \in listed : x[1] # l \/ x[2] # s}
       /\ UNCHANGED <<member, txn, disturbed>>

\* upsert_member reads the rows of the source key and of the contact; of two
\* different ones the first is deleted.
LoadMember(q, o) ==
    LET t         == txn[q]
        bySource  == BySource(View(q), t.list, o.source)
        byContact == ByContact(View(q), t.list, o.contact)
        found     == IF byContact # NoKey THEN byContact ELSE bySource
        both      == bySource # NoKey /\ byContact # NoKey /\ bySource # byContact
        loaded    == [t EXCEPT !.step = "save", !.todo = @ \ {o}, !.object = o, !.found = found,
                               !.seen = IF found = NoKey THEN NoRow ELSE View(q)[found],
                               !.said = {x \in @ : x[1] # o.source /\ x[2] # o.contact}]
    IN /\ t.step = "next"
       /\ o \in t.todo
       /\ IF both
          THEN /\ RowFree(q, bySource)
               /\ txn' = [txn EXCEPT ![q] = [loaded EXCEPT
                    !.writes[bySource] = NoRow,
                    !.marks = @ \cup Marks(t.list, View(q)[bySource], NoRow, NoRow)]]
          ELSE txn' = [txn EXCEPT ![q] = loaded]
       /\ UNCHANGED <<member, listed, disturbed>>

\* A row of the list is inserted, or the one found is updated; it may have
\* been deleted since, and then the request fails.
Write(q, l, p, r, t) ==
    /\ IF t.found = NoKey THEN p[1] = l /\ NextId(p) ELSE p = t.found /\ View(q)[p] # NoRow
    /\ RowFree(q, p)
    /\ Unique(q, p, r)
    /\ txn' = [txn EXCEPT ![q] = [t EXCEPT
         !.writes[p] = r, !.marks = @ \cup Marks(p[1], View(q)[p], r, t.seen),
         !.found = NoKey, !.seen = NoRow]]
    /\ UNCHANGED <<member, listed, disturbed>>

\* The cascade of t.object goes on with its i-th ancestor, or has ended.
Up(t, i) == [t EXCEPT !.level = i,
                      !.step = IF i <= Len(Ancestors[t.list]) THEN "up" ELSE "next"]

\* Mutant: the reasons of the children are forgotten.
OwnStatus(active, reasons) == active

\* A member that is there for its children stays active without a source.
StatusOf(active, reasons) == active \/ reasons # {}

\* upsert_member writes every column but the list.
SaveMember(q, p) ==
    LET t       == txn[q]
        o       == t.object
        reasons == IF t.found = NoKey THEN {} ELSE t.seen.reasons
        active  == StatusOf(o.active, reasons)
    IN /\ t.step = "save"
       /\ t.kind \in {"upsert", "reconcile"}
       /\ Write(q, t.list, p,
                [contact |-> o.contact, source |-> o.source,
                 reasons |-> reasons, active |-> active],
                Up([t EXCEPT !.object.active = active,
                             !.said = @ \cup (IF o.active THEN {<<o.source, o.contact>>} ELSE {})],
                   1))

\* A removed member keeps its row; one with reasons left stays active.
SaveRemoved(q, p) ==
    LET t       == txn[q]
        reasons == t.seen.reasons
        active  == StatusOf(FALSE, reasons)
    IN /\ t.step = "save"
       /\ t.kind = "remove"
       /\ Write(q, t.list, p, [View(q)[p] EXCEPT !.active = active, !.reasons = reasons],
                Up([t EXCEPT !.object.active = active], 1))

-----------------------------------------------------------------------------
(* upsert_cascade_memberships, from the parent up to "<all>".              *)

Ancestor(q) == Ancestors[txn[q].list][txn[q].level]

\* The ancestor's row of the contact is read; without one there is nothing
\* to take a reason from.
LoadAncestor(q) ==
    LET t     == txn[q]
        found == ByContact(View(q), Ancestor(q), t.object.contact)
    IN /\ t.step = "up"
       /\ IF found = NoKey /\ ~t.object.active
          THEN /\ ListFree(q, Ancestor(q))
               /\ txn' = [txn EXCEPT ![q] = Up([t EXCEPT !.locks = @ \cup {Ancestor(q)}], t.level + 1)]
          ELSE txn' = [txn EXCEPT ![q].step = "keep", ![q].found = found,
                            ![q].seen = IF found = NoKey THEN NoRow ELSE View(q)[found]]
       /\ UNCHANGED <<member, listed, disturbed>>

\* Mutant: a reason is stored without its list.
BareReasons(t) ==
    (t.seen.reasons \ {t.object.source})
      \cup (IF t.object.active THEN {t.object.source} ELSE {})

\* The reasons read, without or with the member's own.
NewReasons(t) ==
    LET reason == [list |-> t.list, source |-> t.object.source]
    IN (t.seen.reasons \ {reason}) \cup (IF t.object.active THEN {reason} ELSE {})

\* Mutant: a row that only a cascade made is not told from a listed one.
StatusKept(seen, reasons, active) == reasons # {} \/ active

\* Mutant: a row without reasons is removed although it was listed.
RemovedWithout(seen, reasons, active) == reasons # {}

\* Reasons make a member active; without any, one that a cascade made is
\* removed and one that the CMP listed keeps its status.
StatusAfter(seen, reasons, active) ==
    reasons # {} \/ (seen.source # Cascade /\ active)

SaveAncestor(q, p) ==
    LET t       == txn[q]
        base    == View(q)[p]
        reasons == NewReasons(t)
        created == [contact |-> t.object.contact, source |-> Cascade,
                    reasons |-> {[list |-> t.list, source |-> t.object.source]},
                    active |-> TRUE]
    IN /\ t.step = "keep"
       /\ ListFree(q, Ancestor(q))
       /\ Write(q, Ancestor(q), p,
            IF t.found = NoKey THEN created
            ELSE [base EXCEPT !.reasons = reasons,
                              !.active = StatusAfter(t.seen, reasons, base.active)],
            Up([t EXCEPT !.locks = @ \cup {Ancestor(q)}], t.level + 1))

-----------------------------------------------------------------------------
(* The end of a request.                                                   *)

Sources(t) == {o.source : o \in t.asked}

\* reconcile with remove_absent: the active members the payload leaves out.
LoadAbsent(q) ==
    LET t == txn[q]
    IN /\ t.step = "next"
       /\ t.kind = "reconcile"
       /\ t.todo = {}
       /\ txn' = [txn EXCEPT ![q].kind = "drop",
                      ![q].absent = {p \in Id : LET r == View(q)[p] IN
                          /\ r # NoRow
                          /\ p[1] = t.list /\ r.active /\ r.source \notin Sources(t)}]
       /\ UNCHANGED <<member, listed, disturbed>>

\* Their status is written, whatever reasons they have, and cascades.
Drop(q, p) ==
    LET t == txn[q]
        r == View(q)[p]
    IN /\ t.step = "next"
       /\ p \in t.absent
       /\ r # NoRow
       /\ Write(q, t.list, p, [r EXCEPT !.active = FALSE],
            Up([t EXCEPT !.absent = @ \ {p}, !.found = p, !.seen = r,
                  !.marks = IF r.reasons = {} THEN @ ELSE @ \cup {<<t.list, r.contact>>},
                  !.object = [contact |-> r.contact, source |-> r.source, active |-> FALSE]], 1))

\* What the CMP has listed after the request: of a source key or a contact
\* named more than once, what was said last.
ListedAfter(t) ==
    {x \in listed :
        \/ x[1] # t.list
        \/ /\ t.kind # "drop"
           /\ x[2] \notin Sources(t)
           /\ x[3] \notin {o.contact : o \in t.asked}}
      \cup {<<t.list, x[1], x[2]>> : x \in t.said}

Commit(q) ==
    LET t == txn[q]
    IN /\ t.step = "next"
       /\ t.todo = {} /\ t.absent = {} /\ t.kind # "reconcile"
       /\ ListFree(q, t.list)   \* the refresh of its counts
       /\ member' = View(q)
       /\ listed' = ListedAfter(t)
       /\ disturbed' = disturbed \cup t.marks
       /\ txn' = [txn EXCEPT ![q] = Idle]

\* The request fails or its process dies; Postgres aborts it in a deadlock.
Abort(q) ==
    /\ txn[q].step # "idle"
    /\ txn' = [txn EXCEPT ![q] = Idle]
    /\ UNCHANGED <<member, listed, disturbed>>

-----------------------------------------------------------------------------

Payload == [contact : Contact, source : Source, active : BOOLEAN]

Request(q) ==
    \E l \in Written :
        \/ \E kind \in {"upsert", "reconcile"}, asked \in SUBSET Payload :
             BeginUpsert(q, l, kind, asked)
        \/ \E s \in Source : BeginRemove(q, l, s) \/ RemoveNothing(q, l, s)

Save(q, p) == SaveMember(q, p) \/ SaveRemoved(q, p) \/ SaveAncestor(q, p) \/ Drop(q, p)

Next ==
    \E q \in Client :
        \/ Request(q)
        \/ \E o \in txn[q].todo : LoadMember(q, o)
        \/ LoadAncestor(q)
        \/ \E p \in Id : Save(q, p)
        \/ LoadAbsent(q)
        \/ Commit(q)
        \/ Abort(q)

Spec == Init /\ [][Next]_vars

-----------------------------------------------------------------------------
(* Safety.                                                                 *)

Member(r, c) == r # NoRow /\ r.contact = c

ActiveIn(l, c) == \E i \in Slot : LET r == member[<<l, i>>] IN Member(r, c) /\ r.active

Above(l) == {Ancestors[l][i] : i \in DOMAIN Ancestors[l]}

\* docs/api.md: "Datamailer keeps the ancestors current."  Whoever is listed
\* on a list is an active member of every list above it, unless its row there
\* was given away, removed by a reconcile of that list itself, or written
\* back over a change the request had not seen.
AncestorsCurrent ==
    \A x \in listed : \A l \in Above(x[1]) :
        <<l, x[3]>> \in disturbed \/ ActiveIn(l, x[3])

\* A contact the CMP has listed stays active under that source key, whatever
\* happens to the lists below, with the same exceptions.
ListedIsActive ==
    \A x \in listed : <<x[1], x[3]>> \notin disturbed =>
        \E i \in Slot : LET r == member[<<x[1], i>>] IN
            Member(r, x[3]) /\ r.source = x[2] /\ r.active

\* A row that only a cascade has made is active while, and only while, a
\* reason is left, with the same exceptions.
CascadeNeedsReason ==
    \A p \in Id : LET r == member[p] IN
        r # NoRow /\ r.source = Cascade /\ <<p[1], r.contact>> \notin disturbed =>
            (r.active <=> r.reasons # {})

-----------------------------------------------------------------------------
(* Stated by the repository, and not what the code does.                   *)

\* services/api_docs.py, DELETE of a member: "Idempotently marks one source
\* membership removed and updates cascade membership reasons on ancestor
\* lists."  A contact that is listed neither on a list nor below it is no
\* active member of it.
RemovedIsRemoved ==
    \A l \in List, c \in Contact : ActiveIn(l, c) =>
        \E x \in listed : x[3] = c /\ (x[1] = l \/ l \in Above(x[1]))

=============================================================================

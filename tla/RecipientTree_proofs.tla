------------------------ MODULE RecipientTree_proofs ------------------------
(***************************************************************************)
(* The tree of recipient lists, for every tree, set of contacts and number *)
(* of clients.                                                             *)
(*                                                                         *)
(* A request writes back what it read without a lock, so the argument is   *)
(* about what an open transaction may still do to the committed rows: what *)
(* it has read stays the row's past (SeenOK), its writes lose nothing of a *)
(* row that it does not mark (WriteOK), what it has made active stays in   *)
(* its own writes (SaidOK), and no two transactions write one row or one   *)
(* unique key (LockInv, UniqueInv).                                        *)
(***************************************************************************)
EXTENDS RecipientTree, TLAPS

\* The keys that the entries of a payload name.
Known(o) == {<<x.source, x.contact>> : x \in o}

\* What a request that is not over says of an entry of its list: it may be
\* taken off.
Dropped(t, s, c) ==
    \/ t.kind = "drop"
    \/ s \in Sources(t)
    \/ \E o \in t.asked : o.contact = c

Cascading(t) == t.step \in {"up", "keep"}

\* The state of one transaction.
StepOK(t) ==
    /\ t.step = "idle" => t = Idle
    /\ t.step \in {"save", "up", "keep"} => t.object \in Object
    /\ Cascading(t) => t.level \in DOMAIN Ancestors[t.list]
    /\ t.step = "save" => t.kind # "drop"
    /\ t.step \notin {"save", "keep"} => t.found = NoKey
    /\ t.kind = "remove" => t.said = {}
    /\ t.kind = "remove" /\ t.step = "save" => t.found # NoKey
    /\ t.kind # "drop" => t.absent = {}
    /\ t.kind \in {"remove", "drop"} => t.todo = {}
    /\ t.asked \subseteq Payload
    /\ t.todo \subseteq t.asked
    /\ \A p \in t.absent : p[1] = t.list
    /\ t.said \subseteq Known(t.asked)
    /\ t.kind # "drop" /\ t.step \in {"save", "up", "keep"} =>
         \E o \in t.asked : o.source = t.object.source /\ o.contact = t.object.contact

\* What was read of the row it goes on with.
FoundOK(t) ==
    t.found # NoKey =>
        /\ t.seen \in Row
        /\ t.writes[t.found] # Clean => t.seen = t.writes[t.found]
        /\ t.step = "save" => t.found[1] = t.list
        /\ t.step = "save" => \/ t.seen.contact = t.object.contact
                              \/ t.seen.source = t.object.source
        /\ t.step = "save" /\ t.kind = "remove" =>
             t.seen.contact = t.object.contact /\ t.seen.source = t.object.source
        /\ t.step = "keep" => /\ t.found[1] = Ancestors[t.list][t.level]
                              /\ t.seen.contact = t.object.contact

IsRow(r) == r # NoRow /\ r # Clean

\* The row of a contact it has made active, and one with its reason.
SaidRow(t, x, i) ==
    LET r == t.writes[<<t.list, i>>] IN
    IsRow(r) /\ r.contact = x[2] /\ r.source = x[1] /\ r.active

SaidAbove(t, x, l) ==
    \E i \in Slot : LET r == t.writes[<<l, i>>] IN
        IsRow(r) /\ r.contact = x[2] /\ [list |-> t.list, source |-> x[1]] \in r.reasons

\* The cascade still has to get to the j-th ancestor.
Pending(t, x, j) == Cascading(t) /\ x[2] = t.object.contact /\ j >= t.level

\* A contact it has made active is so in its own writes, and in those of each
\* list above that the cascade has been to.
SaidOK(t, lost) ==
    \A x \in t.said :
        /\ \E i \in Slot : SaidRow(t, x, i)
        /\ \A j \in DOMAIN Ancestors[t.list] :
             \/ Pending(t, x, j)
             \/ <<Ancestors[t.list][j], x[2]>> \in lost
             \/ SaidAbove(t, x, Ancestors[t.list][j])
        /\ t.step = "save" => x[1] # t.object.source /\ x[2] # t.object.contact
        /\ Cascading(t) /\ x[2] = t.object.contact =>
             x[1] = t.object.source /\ t.object.active

\* Reasons make a row active, and a row of a cascade is active only by them.
RowOK(r, l, lost) ==
    \/ <<l, r.contact>> \in lost
    \/ /\ r.reasons # {} => r.active
       /\ r.source = Cascade => (r.active <=> r.reasons # {})

\* A row m of list l, and the row r a transaction has written instead.
WriteOK(t, l, m, r) ==
    /\ IsRow(r) /\ r.source = Cascade => m.source = Cascade
    /\ IsRow(r) /\ r.source # m.source => l = t.list /\ t.kind # "remove"
    /\ \/ <<l, m.contact>> \in t.marks
       \/ IsRow(r) /\ r.contact = m.contact
    /\ \/ <<l, m.contact>> \in t.marks
       \/ (m.active /\ m.source # Cascade) =>
            \/ r.source = m.source /\ r.active
            \/ l = t.list /\ Dropped(t, m.source, m.contact)
    /\ \/ <<l, m.contact>> \in t.marks
       \/ \A x \in m.reasons :
            \/ x \in r.reasons
            \/ x.list = t.list /\ Dropped(t, x.source, m.contact)

\* The row it goes on with may have been changed since it was read.
SeenOK(q) ==
    LET t == txn[q]
        r == View(q)[t.found]
    IN t.found # NoKey /\ r # NoRow =>
        /\ r.source = Cascade => t.seen.source = Cascade
        /\ \/ r.contact = t.seen.contact
           \/ <<t.found[1], t.seen.contact>> \in disturbed \cup t.marks

\* What it still has to remove is not of its payload.
AbsentOK(q) ==
    \A p \in txn[q].absent :
        View(q)[p] # NoRow => View(q)[p].source \notin Sources(txn[q])

TxnOK(q) ==
    /\ StepOK(txn[q])
    /\ FoundOK(txn[q])
    /\ SaidOK(txn[q], disturbed \cup txn[q].marks)
    /\ SeenOK(q)
    /\ AbsentOK(q)

TxnInv == \A q \in Client : TxnOK(q)

WriteInv ==
    \A q \in Client, p \in Id : LET r == txn[q].writes[p] IN
        r # Clean =>
            /\ r # NoRow => RowOK(r, p[1], disturbed \cup txn[q].marks)
            /\ member[p] # NoRow => WriteOK(txn[q], p[1], member[p], r)

\* The locks of the rows and of the lists exclude each other, and a key that
\* is new is known to one transaction.
LockInv ==
    /\ \A q \in Client :
         txn[q].step # "idle" /\ txn[q].kind # "remove" => txn[q].list \in txn[q].locks
    /\ \A q, o \in Client : q # o =>
         /\ txn[q].locks \cap txn[o].locks = {}
         /\ \A p \in Id : txn[q].writes[p] # Clean =>
              /\ txn[o].writes[p] = Clean
              /\ member[p] = NoRow => p # txn[o].found /\ p \notin txn[o].absent

\* The constraints hold of what is committed and of what each transaction
\* sees, and no two of them write one unique key.
UniqueInv ==
    \A l \in List : \A i, j \in Slot : i # j =>
        /\ ~Clash(member[<<l, i>>], member[<<l, j>>])
        /\ \A q \in Client : ~Clash(View(q)[<<l, i>>], View(q)[<<l, j>>])
        /\ \A q, o \in Client : q # o => ~Clash(txn[q].writes[<<l, i>>], txn[o].writes[<<l, j>>])

MemberInv ==
    \A p \in Id : member[p] # NoRow => RowOK(member[p], p[1], disturbed)

\* The reason of every listed entry is in every list above.
ReasonInv ==
    \A x \in listed : \A l \in Above(x[1]) :
        \/ <<l, x[3]>> \in disturbed
        \/ \E i \in Slot : LET r == member[<<l, i>>] IN
             Member(r, x[3]) /\ [list |-> x[1], source |-> x[2]] \in r.reasons

IInv ==
    /\ TypeOK
    /\ TxnInv
    /\ WriteInv
    /\ LockInv
    /\ UniqueInv
    /\ MemberInv
    /\ ReasonInv
    /\ ListedIsActive

\* What a transaction sees of the rows is rows.
LEMMA ViewType ==
    ASSUME TypeOK, NEW q \in Client
    PROVE  View(q) \in [Id -> Row \cup {NoRow}]
  BY DEF View, TypeOK, Txn

\* Going up one list leaves a transaction.
LEMMA UpType ==
    ASSUME NEW t \in Txn, NEW i \in Nat \ {0}
    PROVE  Up(t, i) \in Txn
  <1> DEFINE s == IF i <= Len(Ancestors[t.list]) THEN "up" ELSE "next"
  <1>1. s \in {"up", "next"}
    OBVIOUS
  <1> HIDE DEF s
  <1>2. [t EXCEPT !.level = i, !.step = s] \in Txn
    BY <1>1 DEF Txn
  <1> QED
    BY <1>2 DEF Up, s

\* A written row leaves every variable in its type.
LEMMA WriteType ==
    ASSUME TypeOK, NEW q \in Client, NEW p \in Id, NEW l \in List, NEW r \in Row,
           NEW t \in Txn, Write(q, l, p, r, t)
    PROVE  TypeOK'
  <1>1. Marks(p[1], View(q)[p], r, t.seen) \subseteq List \X Contact
    BY ViewType DEF Marks, Row, Id
  <1>2. txn' = [txn EXCEPT ![q] = [t EXCEPT
         !.writes[p] = r, !.marks = @ \cup Marks(p[1], View(q)[p], r, t.seen),
         !.found = NoKey, !.seen = NoRow]]
    BY DEF Write
  <1>3. [t EXCEPT
         !.writes[p] = r, !.marks = @ \cup Marks(p[1], View(q)[p], r, t.seen),
         !.found = NoKey, !.seen = NoRow] \in Txn
    BY <1>1 DEF Txn
  <1> QED
    BY <1>2, <1>3 DEF Write, TypeOK

\* A step of q that commits nothing.
Moved(q) ==
    /\ \A o \in Client \ {q} : txn'[o] = txn[o]
    /\ UNCHANGED <<member, disturbed>>
    /\ listed' \subseteq listed

\* A step of another client that commits nothing leaves what holds of this one.
LEMMA TxnKept ==
    ASSUME NEW o \in Client, txn'[o] = txn[o], UNCHANGED <<member, disturbed>>, TxnOK(o)
    PROVE  TxnOK(o)'
  <1>1. txn'[o] = txn[o] /\ member' = member /\ disturbed' = disturbed
    OBVIOUS
  <1>2. View(o)' = View(o)
    BY <1>1 DEF View
  <1>3. SeenOK(o)' /\ AbsentOK(o)'
    BY <1>1, <1>2 DEF SeenOK, AbsentOK, TxnOK
  <1>4. StepOK(txn[o])' /\ FoundOK(txn[o])' /\ SaidOK(txn[o], disturbed \cup txn[o].marks)'
    BY <1>1 DEF TxnOK
  <1> QED
    BY <1>3, <1>4 DEF TxnOK

\* A request keeps its list, its payload and its marks, and may only turn to
\* what it has to remove.
Later(t, u) ==
    /\ u.list = t.list /\ u.asked = t.asked
    /\ u.kind \in {t.kind, "drop"}
    /\ t.marks \subseteq u.marks

\* A row that is in order stays so when more contacts are marked.
LEMMA RowOKLater ==
    ASSUME NEW r, NEW l, NEW lost, NEW more, lost \subseteq more, RowOK(r, l, lost)
    PROVE  RowOK(r, l, more)
  BY DEF RowOK

\* A write stays in order as its request goes on.
LEMMA WriteOKLater ==
    ASSUME NEW t, NEW u, Later(t, u), NEW l, NEW m, NEW r, WriteOK(t, l, m, r)
    PROVE  WriteOK(u, l, m, r)
  <1>1. \A s, c : Dropped(t, s, c) => Dropped(u, s, c)
    BY DEF Dropped, Later, Sources
  <1>2. t.kind # "remove" => u.kind # "remove"
    BY DEF Later
  <1> QED
    BY <1>1, <1>2 DEF WriteOK, Later

\* A step that writes nothing keeps what holds of the writes.
LEMMA WriteInvKept ==
    ASSUME WriteInv, NEW q \in Client, Moved(q), Later(txn[q], txn'[q]),
           txn'[q].writes = txn[q].writes
    PROVE  WriteInv'
  <1> SUFFICES ASSUME NEW o \in Client, NEW p \in Id, txn'[o].writes[p] # Clean
               PROVE  /\ txn'[o].writes[p] # NoRow =>
                           RowOK(txn'[o].writes[p], p[1], disturbed' \cup txn'[o].marks)
                      /\ member'[p] # NoRow =>
                           WriteOK(txn'[o], p[1], member'[p], txn'[o].writes[p])
    BY DEF WriteInv
  <1>1. member' = member /\ disturbed' = disturbed
    BY DEF Moved
  <1>2. CASE o # q
    BY <1>1, <1>2 DEF Moved, WriteInv
  <1>3. CASE o = q
    <2>1. txn[q].writes[p] # Clean
      BY <1>3
    <2>2. txn[q].writes[p] # NoRow => RowOK(txn[q].writes[p], p[1], disturbed \cup txn[q].marks)
      BY <2>1 DEF WriteInv
    <2>3. member[p] # NoRow => WriteOK(txn[q], p[1], member[p], txn[q].writes[p])
      BY <2>1 DEF WriteInv
    <2>4. disturbed \cup txn[q].marks \subseteq disturbed \cup txn'[q].marks
      BY DEF Later
    <2>5. txn'[q].writes[p] # NoRow => RowOK(txn'[q].writes[p], p[1], disturbed \cup txn'[q].marks)
      BY <2>2, <2>4, RowOKLater
    <2>6. member[p] # NoRow => WriteOK(txn'[q], p[1], member[p], txn'[q].writes[p])
      BY <2>3, WriteOKLater
    <2> QED
      BY <2>5, <2>6, <1>1, <1>3
  <1> QED
    BY <1>2, <1>3

\* A step that writes one row in order keeps what holds of the writes.
LEMMA WriteInvNew ==
    ASSUME TypeOK, WriteInv, NEW q \in Client, Moved(q), Later(txn[q], txn'[q]),
           NEW p \in Id, NEW r,
           txn'[q].writes = [txn[q].writes EXCEPT ![p] = r],
           r # NoRow => RowOK(r, p[1], disturbed \cup txn'[q].marks),
           member[p] # NoRow => WriteOK(txn'[q], p[1], member[p], r)
    PROVE  WriteInv'
  <1> SUFFICES ASSUME NEW o \in Client, NEW x \in Id, txn'[o].writes[x] # Clean
               PROVE  /\ txn'[o].writes[x] # NoRow =>
                           RowOK(txn'[o].writes[x], x[1], disturbed' \cup txn'[o].marks)
                      /\ member'[x] # NoRow =>
                           WriteOK(txn'[o], x[1], member'[x], txn'[o].writes[x])
    BY DEF WriteInv
  <1>1. member' = member /\ disturbed' = disturbed
    BY DEF Moved
  <1>2. CASE o # q
    BY <1>1, <1>2 DEF Moved, WriteInv
  <1> DEFINE w == txn[q].writes
  <1>5. w \in [Id -> Row \cup {NoRow, Clean}]
    BY DEF TypeOK, Txn
  <1>3. CASE o = q /\ x # p
    <2>0. txn'[q].writes[x] = w[x]
      BY <1>3, <1>5
    <2>1. w[x] # Clean
      BY <1>3, <2>0
    <2>2. w[x] # NoRow => RowOK(w[x], x[1], disturbed \cup txn[q].marks)
      BY <2>1 DEF WriteInv
    <2>3. member[x] # NoRow => WriteOK(txn[q], x[1], member[x], w[x])
      BY <2>1 DEF WriteInv
    <2>4. disturbed \cup txn[q].marks \subseteq disturbed \cup txn'[q].marks
      BY DEF Later
    <2> HIDE DEF w
    <2>5. w[x] # NoRow => RowOK(w[x], x[1], disturbed \cup txn'[q].marks)
      BY <2>2, <2>4, RowOKLater
    <2>6. member[x] # NoRow => WriteOK(txn'[q], x[1], member[x], w[x])
      BY <2>3, WriteOKLater
    <2> QED
      BY <2>0, <2>5, <2>6, <1>1, <1>3
  <1>4. CASE o = q /\ x = p
    <2>1. txn'[q].writes[x] = r
      BY <1>4, <1>5
    <2> QED
      BY <1>1, <1>4, <2>1
  <1> QED
    BY <1>2, <1>3, <1>4

\* A transaction sees the row it has written.
LEMMA ViewNew ==
    ASSUME TypeOK, NEW q \in Client, Moved(q), NEW p \in Id, NEW r, r # Clean,
           txn'[q].writes = [txn[q].writes EXCEPT ![p] = r]
    PROVE  View(q)' = [View(q) EXCEPT ![p] = r]
  <1>1. txn[q].writes \in [Id -> Row \cup {NoRow, Clean}]
    BY DEF TypeOK, Txn
  <1> QED
    BY <1>1 DEF View, Moved

\* What the others see, and what is seen when nothing is written, stays.
LEMMA ViewKept ==
    ASSUME NEW q \in Client, Moved(q), NEW o \in Client,
           o = q => txn'[q].writes = txn[q].writes
    PROVE  View(o)' = View(o)
  <1>1. txn'[o].writes = txn[o].writes /\ member' = member
    BY DEF Moved
  <1> QED
    BY <1>1 DEF View

\* A step that writes nothing keeps the unique constraints.
LEMMA UniqueKept ==
    ASSUME UniqueInv, NEW q \in Client, Moved(q), txn'[q].writes = txn[q].writes
    PROVE  UniqueInv'
  <1>1. \A o \in Client : View(o)' = View(o) /\ txn'[o].writes = txn[o].writes
    BY ViewKept DEF Moved
  <1>2. member' = member
    BY DEF Moved
  <1> QED
    BY <1>1, <1>2 DEF UniqueInv

\* So does one that deletes a row or whose row passed the constraints.
LEMMA UniqueNew ==
    ASSUME TypeOK, UniqueInv, NEW q \in Client, Moved(q), NEW p \in Id, NEW r, r # Clean,
           txn'[q].writes = [txn[q].writes EXCEPT ![p] = r],
           r = NoRow \/ Unique(q, p, r)
    PROVE  UniqueInv'
  <1>1. txn[q].writes \in [Id -> Row \cup {NoRow, Clean}]
    BY DEF TypeOK, Txn
  <1>2. \A o \in Client : o # q => View(o)' = View(o) /\ txn'[o].writes = txn[o].writes
    BY ViewKept DEF Moved
  <1>3. View(q)' = [View(q) EXCEPT ![p] = r]
    BY ViewNew
  <1>4. View(q) \in [Id -> Row \cup {NoRow}]
    BY ViewType
  <1>5. member' = member
    BY DEF Moved
  <1>6. \A x, y : Clash(x, y) => Clash(y, x)
    BY DEF Clash
  <1>7. \A x \in Id \ {p} : x[1] = p[1] =>
            /\ ~Clash(View(q)[x], r)
            /\ \A t \in Client \ {q} : ~Clash(txn[t].writes[x], r)
    <2>1. CASE r = NoRow
      BY <2>1 DEF Clash
    <2>2. CASE Unique(q, p, r)
      BY <2>2 DEF Unique, Id
    <2> QED
      BY <2>1, <2>2
  <1> SUFFICES ASSUME NEW l \in List, NEW i \in Slot, NEW j \in Slot, i # j
               PROVE  /\ ~Clash(member'[<<l, i>>], member'[<<l, j>>])
                      /\ \A o \in Client : ~Clash(View(o)'[<<l, i>>], View(o)'[<<l, j>>])
                      /\ \A o, t \in Client : o # t =>
                           ~Clash(txn'[o].writes[<<l, i>>], txn'[t].writes[<<l, j>>])
    BY DEF UniqueInv
  <1> DEFINE x == <<l, i>>
             y == <<l, j>>
  <1>8. x \in Id /\ y \in Id /\ x # y /\ x[1] = l /\ y[1] = l
    BY DEF Id
  <1>9. /\ ~Clash(member[x], member[y])
        /\ \A o \in Client : ~Clash(View(o)[x], View(o)[y])
        /\ \A o, t \in Client : o # t => ~Clash(txn[o].writes[x], txn[t].writes[y])
    BY DEF UniqueInv
  <1> HIDE DEF x, y
  <1>10. ~Clash(View(q)'[x], View(q)'[y])
    BY <1>3, <1>4, <1>6, <1>7, <1>8, <1>9
  <1>11. \A o, t \in Client : o # t => ~Clash(txn'[o].writes[x], txn'[t].writes[y])
    <2> SUFFICES ASSUME NEW o \in Client, NEW t \in Client, o # t
                 PROVE  ~Clash(txn'[o].writes[x], txn'[t].writes[y])
      OBVIOUS
    <2>1. CASE o = q
      BY <2>1, <1>1, <1>2, <1>6, <1>7, <1>8, <1>9
    <2>2. CASE t = q
      BY <2>2, <1>1, <1>2, <1>7, <1>8, <1>9
    <2>3. CASE o # q /\ t # q
      BY <2>3, <1>2, <1>9
    <2> QED
      BY <2>1, <2>2, <2>3
  <1> QED
    BY <1>2, <1>5, <1>9, <1>10, <1>11 DEF x, y

\* The list locks q gets are free, and the keys it gets to know are not new
\* ones of another transaction.
LEMMA LockKept ==
    ASSUME LockInv, NEW q \in Client, Moved(q),
           txn'[q].writes = txn[q].writes,
           \A l \in txn'[q].locks : l \in txn[q].locks \/ ListFree(q, l),
           txn'[q].step # "idle" /\ txn'[q].kind # "remove" => txn'[q].list \in txn'[q].locks,
           \A p \in Id : p = txn'[q].found \/ p \in txn'[q].absent =>
               p = txn[q].found \/ p \in txn[q].absent \/ View(q)[p] # NoRow
    PROVE  LockInv'
  <1>1. member' = member
    BY DEF Moved
  <1> SUFFICES ASSUME NEW o \in Client, NEW t \in Client, o # t
               PROVE  /\ txn'[o].step # "idle" /\ txn'[o].kind # "remove" => txn'[o].list \in txn'[o].locks
                      /\ txn'[o].locks \cap txn'[t].locks = {}
                      /\ \A p \in Id : txn'[o].writes[p] # Clean =>
                           /\ txn'[t].writes[p] = Clean
                           /\ member'[p] = NoRow => p # txn'[t].found /\ p \notin txn'[t].absent
    <2>1. ASSUME NEW o \in Client
          PROVE  txn'[o].step # "idle" /\ txn'[o].kind # "remove" => txn'[o].list \in txn'[o].locks
      BY DEF Moved, LockInv
    <2> QED
      BY <2>1 DEF LockInv
  <1>2. txn'[o].step # "idle" /\ txn'[o].kind # "remove" => txn'[o].list \in txn'[o].locks
    BY DEF Moved, LockInv
  <1>3. txn'[o].locks \cap txn'[t].locks = {}
    <2>0. txn[o].locks \cap txn[t].locks = {}
      BY DEF LockInv
    <2>1. CASE o # q /\ t # q
      BY <2>0, <2>1 DEF Moved
    <2>2. CASE o = q
      BY <2>0, <2>2 DEF Moved, ListFree
    <2>3. CASE t = q
      BY <2>0, <2>3 DEF Moved, ListFree
    <2> QED
      BY <2>1, <2>2, <2>3
  <1>4. ASSUME NEW p \in Id, txn'[o].writes[p] # Clean
        PROVE  /\ txn'[t].writes[p] = Clean
               /\ member'[p] = NoRow => p # txn'[t].found /\ p \notin txn'[t].absent
    <2>0. txn[o].writes[p] # Clean
      BY <1>4 DEF Moved
    <2>1. /\ txn[t].writes[p] = Clean
          /\ member[p] = NoRow => p # txn[t].found /\ p \notin txn[t].absent
      BY <2>0 DEF LockInv
    <2>2. txn'[t].writes[p] = Clean
      BY <2>1 DEF Moved
    <2>3. CASE t # q
      BY <2>1, <2>2, <2>3, <1>1 DEF Moved
    <2>4. CASE t = q
      <3>1. member[p] = NoRow => View(q)[p] = NoRow
        BY <2>1, <2>4 DEF View
      <3> QED
        BY <2>1, <2>2, <2>4, <3>1, <1>1
    <2> QED
      BY <2>3, <2>4
  <1> QED
    BY <1>2, <1>3, <1>4

\* The row it writes is locked by no other, and new to all when it is inserted.
LEMMA LockNew ==
    ASSUME TypeOK, LockInv, NEW q \in Client, Moved(q), NEW p \in Id, NEW r,
           RowFree(q, p), Fresh(p) \/ View(q)[p] # NoRow,
           txn'[q].writes = [txn[q].writes EXCEPT ![p] = r],
           \A l \in txn'[q].locks : l \in txn[q].locks \/ ListFree(q, l),
           txn'[q].step # "idle" /\ txn'[q].kind # "remove" => txn'[q].list \in txn'[q].locks,
           \A x \in Id : x = txn'[q].found \/ x \in txn'[q].absent =>
               x = txn[q].found \/ x \in txn[q].absent \/ View(q)[x] # NoRow
    PROVE  LockInv'
  <1>1. member' = member
    BY DEF Moved
  <1>0. txn[q].writes \in [Id -> Row \cup {NoRow, Clean}]
    BY DEF TypeOK, Txn
  <1> SUFFICES ASSUME NEW o \in Client, NEW t \in Client, o # t
               PROVE  /\ txn'[o].step # "idle" /\ txn'[o].kind # "remove" => txn'[o].list \in txn'[o].locks
                      /\ txn'[o].locks \cap txn'[t].locks = {}
                      /\ \A x \in Id : txn'[o].writes[x] # Clean =>
                           /\ txn'[t].writes[x] = Clean
                           /\ member'[x] = NoRow => x # txn'[t].found /\ x \notin txn'[t].absent
    <2>1. ASSUME NEW o \in Client
          PROVE  txn'[o].step # "idle" /\ txn'[o].kind # "remove" => txn'[o].list \in txn'[o].locks
      BY DEF Moved, LockInv
    <2> QED
      BY <2>1 DEF LockInv
  <1>2. txn'[o].step # "idle" /\ txn'[o].kind # "remove" => txn'[o].list \in txn'[o].locks
    BY DEF Moved, LockInv
  <1>3. txn'[o].locks \cap txn'[t].locks = {}
    <2>0. txn[o].locks \cap txn[t].locks = {}
      BY DEF LockInv
    <2>1. CASE o # q /\ t # q
      BY <2>0, <2>1 DEF Moved
    <2>2. CASE o = q
      BY <2>0, <2>2 DEF Moved, ListFree
    <2>3. CASE t = q
      BY <2>0, <2>3 DEF Moved, ListFree
    <2> QED
      BY <2>1, <2>2, <2>3
  <1>5. \A x \in Id : txn[o].writes[x] # Clean =>
            /\ txn[t].writes[x] = Clean
            /\ member[x] = NoRow => x # txn[t].found /\ x \notin txn[t].absent
    BY DEF LockInv
  <1>6. \A x \in Id \ {p} : txn'[q].writes[x] = txn[q].writes[x]
    BY <1>0
  <1>7. CASE o = q
    <2>1. txn'[t] = txn[t]
      BY <1>7 DEF Moved
    <2>2. txn[t].writes[p] = Clean
      BY <1>7 DEF RowFree
    <2>3. member[p] = NoRow => p # txn[t].found /\ p \notin txn[t].absent
      <3>1. CASE Fresh(p)
        BY <3>1 DEF Fresh
      <3>2. CASE View(q)[p] # NoRow
        BY <3>2, <1>5, <1>7 DEF View
      <3> QED
        BY <3>1, <3>2
    <2> QED
      BY <1>1, <1>2, <1>3, <1>5, <1>6, <1>7, <2>1, <2>2, <2>3
  <1>8. CASE t = q
    <2>1. txn'[o] = txn[o]
      BY <1>8 DEF Moved
    <2>2. txn[o].writes[p] = Clean
      BY <1>8 DEF RowFree
    <2>3. ASSUME NEW x \in Id, txn[o].writes[x] # Clean
          PROVE  /\ txn'[t].writes[x] = Clean
                 /\ member[x] = NoRow => x # txn'[t].found /\ x \notin txn'[t].absent
      <3>1. member[x] = NoRow => View(q)[x] = NoRow
        BY <2>3, <1>5, <1>8 DEF View
      <3> QED
        BY <2>2, <2>3, <3>1, <1>5, <1>6, <1>8
    <2> QED
      BY <1>1, <1>2, <1>3, <2>1, <2>3
  <1>9. CASE o # q /\ t # q
    BY <1>1, <1>2, <1>3, <1>5, <1>9 DEF Moved
  <1> QED
    BY <1>7, <1>8, <1>9

\* What holds of the committed rows holds while nothing is committed.
LEMMA CommittedKept ==
    ASSUME NEW q \in Client, Moved(q), MemberInv, ReasonInv, ListedIsActive
    PROVE  MemberInv' /\ ReasonInv' /\ ListedIsActive'
  <1>1. member' = member /\ listed' \subseteq listed /\ disturbed' = disturbed
    BY DEF Moved
  <1>2. MemberInv'
    BY <1>1 DEF MemberInv
  <1>3. ReasonInv'
    BY <1>1 DEF ReasonInv
  <1>4. ListedIsActive'
    BY <1>1 DEF ListedIsActive
  <1> QED
    BY <1>2, <1>3, <1>4

\* A transaction begins or is rolled back.
LEMMA Restarted ==
    ASSUME IInv, NEW q \in Client, Moved(q), NEW t \in Txn, txn' = [txn EXCEPT ![q] = t],
           TxnOK(q)',
           \A p \in Id : t.writes[p] = Clean,
           t.absent = {},
           t.found # NoKey => member[t.found] # NoRow,
           \A l \in t.locks : ListFree(q, l),
           t.step # "idle" /\ t.kind # "remove" => t.list \in t.locks
    PROVE  IInv'
  <1>1. txn'[q] = t
    BY DEF IInv, TypeOK
  <1>2. TypeOK'
    BY DEF IInv, TypeOK, Moved
  <1>3. TxnInv'
    BY TxnKept DEF IInv, TxnInv, Moved
  <1>4. member' = member /\ disturbed' = disturbed /\ \A o \in Client \ {q} : txn'[o] = txn[o]
    BY DEF Moved
  <1>5. WriteInv'
    BY <1>1, <1>4 DEF IInv, WriteInv
  <1>6. LockInv'
    <2>1. \A o \in Client : o # q => txn[o].locks \cap t.locks = {}
      BY DEF ListFree
    <2>2. \A p \in Id : p = t.found => member[p] # NoRow
      BY TreeAssumption
    <2>3. LockInv
      BY DEF IInv
    <2> SUFFICES ASSUME NEW o \in Client, NEW x \in Client, o # x
                 PROVE  /\ txn'[o].step # "idle" /\ txn'[o].kind # "remove" => txn'[o].list \in txn'[o].locks
                        /\ txn'[o].locks \cap txn'[x].locks = {}
                        /\ \A p \in Id : txn'[o].writes[p] # Clean =>
                             /\ txn'[x].writes[p] = Clean
                             /\ member'[p] = NoRow => p # txn'[x].found /\ p \notin txn'[x].absent
      <3>1. ASSUME NEW o \in Client
            PROVE  txn'[o].step # "idle" /\ txn'[o].kind # "remove" => txn'[o].list \in txn'[o].locks
        BY <1>1, <1>4, <2>3 DEF LockInv
      <3> QED
        BY <3>1 DEF LockInv
    <2>4. CASE o = q
      BY <1>1, <1>4, <2>1, <2>2, <2>4
    <2>5. CASE x = q
      BY <1>1, <1>4, <2>1, <2>2, <2>3, <2>5 DEF LockInv
    <2>6. CASE o # q /\ x # q
      BY <1>4, <2>3, <2>6 DEF LockInv
    <2> QED
      BY <2>4, <2>5, <2>6
  <1>7. UniqueInv'
    <2>1. \A p \in Id : View(q)'[p] = member[p]
      BY <1>1, <1>4 DEF View
    <2>2. \A o \in Client \ {q} : View(o)' = View(o)
      BY ViewKept
    <2>3. \A x : ~Clash(x, Clean) /\ ~Clash(Clean, x)
      BY DEF Clash
    <2>4. \A l \in List, i \in Slot : <<l, i>> \in Id
      BY DEF Id
    <2>5. UniqueInv
      BY DEF IInv
    <2> SUFFICES ASSUME NEW l \in List, NEW i \in Slot, NEW j \in Slot, i # j
                 PROVE  /\ ~Clash(member'[<<l, i>>], member'[<<l, j>>])
                        /\ \A o \in Client : ~Clash(View(o)'[<<l, i>>], View(o)'[<<l, j>>])
                        /\ \A o, x \in Client : o # x =>
                             ~Clash(txn'[o].writes[<<l, i>>], txn'[x].writes[<<l, j>>])
      BY DEF UniqueInv
    <2>6. /\ ~Clash(member[<<l, i>>], member[<<l, j>>])
          /\ \A o \in Client : ~Clash(View(o)[<<l, i>>], View(o)[<<l, j>>])
          /\ \A o, x \in Client : o # x =>
               ~Clash(txn[o].writes[<<l, i>>], txn[x].writes[<<l, j>>])
      BY <2>5 DEF UniqueInv
    <2>7. \A o \in Client : ~Clash(View(o)'[<<l, i>>], View(o)'[<<l, j>>])
      BY <2>1, <2>2, <2>4, <2>6
    <2>8. \A o, x \in Client : o # x => ~Clash(txn'[o].writes[<<l, i>>], txn'[x].writes[<<l, j>>])
      BY <1>1, <1>4, <2>3, <2>4, <2>6
    <2> QED
      BY <1>4, <2>6, <2>7, <2>8
  <1> QED
    BY <1>2, <1>3, <1>5, <1>6, <1>7, CommittedKept DEF IInv

\* A step that writes no row.
LEMMA Stepped ==
    ASSUME IInv, NEW q \in Client, Moved(q), TypeOK', TxnOK(q)',
           Later(txn[q], txn'[q]),
           txn'[q].writes = txn[q].writes,
           \A l \in txn'[q].locks : l \in txn[q].locks \/ ListFree(q, l),
           txn'[q].step # "idle" /\ txn'[q].kind # "remove" => txn'[q].list \in txn'[q].locks,
           \A p \in Id : p = txn'[q].found \/ p \in txn'[q].absent =>
               p = txn[q].found \/ p \in txn[q].absent \/ View(q)[p] # NoRow
    PROVE  IInv'
  <1>1. TxnInv'
    BY TxnKept DEF IInv, TxnInv, Moved
  <1>2. WriteInv'
    BY WriteInvKept DEF IInv
  <1>3. UniqueInv'
    BY UniqueKept DEF IInv
  <1>4. LockInv'
    BY LockKept DEF IInv
  <1> QED
    BY <1>1, <1>2, <1>3, <1>4, CommittedKept DEF IInv

\* A step that writes the row p.
LEMMA Saved ==
    ASSUME IInv, NEW q \in Client, Moved(q), TypeOK', TxnOK(q)',
           Later(txn[q], txn'[q]),
           NEW p \in Id, NEW r, r # Clean,
           RowFree(q, p), Fresh(p) \/ View(q)[p] # NoRow,
           r = NoRow \/ Unique(q, p, r),
           txn'[q].writes = [txn[q].writes EXCEPT ![p] = r],
           r # NoRow => RowOK(r, p[1], disturbed \cup txn'[q].marks),
           member[p] # NoRow => WriteOK(txn'[q], p[1], member[p], r),
           \A l \in txn'[q].locks : l \in txn[q].locks \/ ListFree(q, l),
           txn'[q].step # "idle" /\ txn'[q].kind # "remove" => txn'[q].list \in txn'[q].locks,
           \A x \in Id : x = txn'[q].found \/ x \in txn'[q].absent =>
               x = txn[q].found \/ x \in txn[q].absent \/ View(q)[x] # NoRow
    PROVE  IInv'
  <1>1. TxnInv'
    BY TxnKept DEF IInv, TxnInv, Moved
  <1>2. WriteInv'
    BY WriteInvNew DEF IInv
  <1>3. UniqueInv'
    BY UniqueNew DEF IInv
  <1>4. LockInv'
    BY LockNew DEF IInv
  <1> QED
    BY <1>1, <1>2, <1>3, <1>4, CommittedKept DEF IInv

\* A closed connection has the type of a transaction.
LEMMA IdleType == Idle \in Txn
  <1>1. (CHOOSE l \in List : TRUE) \in List
    BY TreeAssumption
  <1> QED
    BY <1>1 DEF Idle, Txn

\* Nothing is asked of a closed connection.
LEMMA IdleOK ==
    ASSUME NEW q \in Client, txn'[q] = Idle
    PROVE  TxnOK(q)'
  <1>1. /\ Idle.step = "idle" /\ Idle.kind = "upsert" /\ Idle.found = NoKey
        /\ Idle.said = {} /\ Idle.absent = {} /\ Idle.asked = {} /\ Idle.todo = {}
    BY DEF Idle
  <1>2. StepOK(Idle)
    BY <1>1 DEF StepOK, Cascading
  <1>3. FoundOK(Idle) /\ SaidOK(Idle, disturbed' \cup Idle.marks)
    BY <1>1 DEF FoundOK, SaidOK
  <1>4. SeenOK(q)' /\ AbsentOK(q)'
    BY <1>1 DEF SeenOK, AbsentOK
  <1> QED
    BY <1>2, <1>3, <1>4 DEF TxnOK

\* A transaction that fails is rolled back.
LEMMA AbortKeeps ==
    ASSUME IInv, NEW q \in Client, Abort(q)
    PROVE  IInv'
  <1>1. txn' = [txn EXCEPT ![q] = Idle] /\ UNCHANGED <<member, listed, disturbed>>
    BY DEF Abort
  <1>2. Moved(q) /\ txn'[q] = Idle
    BY <1>1 DEF Moved, IInv, TypeOK
  <1>3. TxnOK(q)'
    BY <1>2, IdleOK
  <1>4. /\ Idle.step = "idle" /\ Idle.found = NoKey
        /\ Idle.absent = {} /\ Idle.locks = {} /\ \A p \in Id : Idle.writes[p] = Clean
    BY DEF Idle
  <1> QED
    BY <1>1, <1>2, <1>3, <1>4, IdleType, Restarted

\* A request with members begins with the lock of its list.
LEMMA BeginUpsertKeeps ==
    ASSUME IInv, NEW q \in Client, NEW l \in Written, NEW kind \in {"upsert", "reconcile"},
           NEW asked \in SUBSET Payload, BeginUpsert(q, l, kind, asked)
    PROVE  IInv'
  <1> DEFINE t == [Idle EXCEPT !.step = "next", !.kind = kind, !.list = l,
                               !.asked = asked, !.todo = asked, !.locks = {l}]
  <1>1. txn' = [txn EXCEPT ![q] = t] /\ UNCHANGED <<member, listed, disturbed>>
    BY DEF BeginUpsert, Begin
  <1>2. /\ t.step = "next" /\ t.kind = kind /\ t.list = l /\ t.asked = asked /\ t.todo = asked
        /\ t.locks = {l} /\ t.said = {} /\ t.absent = {} /\ t.found = NoKey /\ t.marks = {}
        /\ t.writes = [p \in Id |-> Clean]
    BY DEF Idle
  <1>3. t \in Txn
    <2>1. asked \in SUBSET Object /\ l \in List
      BY TreeAssumption DEF Payload, Object, Key
    <2>2. {l} \in SUBSET List /\ kind \in {"upsert", "reconcile", "remove", "drop"}
      BY <2>1
    <2> QED
      BY <2>1, <2>2, IdleType DEF Txn
  <1> HIDE DEF t
  <1>4. Moved(q) /\ txn'[q] = t
    BY <1>1 DEF Moved, IInv, TypeOK
  <1>5. TxnOK(q)'
    <2>1. StepOK(t)
      BY <1>2 DEF StepOK, Cascading
    <2>2. FoundOK(t) /\ SaidOK(t, disturbed' \cup t.marks)
      BY <1>2 DEF FoundOK, SaidOK
    <2>3. SeenOK(q)' /\ AbsentOK(q)'
      BY <1>2, <1>4 DEF SeenOK, AbsentOK
    <2> QED
      BY <1>4, <2>1, <2>2, <2>3 DEF TxnOK
  <1>6. \A x \in t.locks : ListFree(q, x)
    BY <1>2 DEF BeginUpsert
  <1> QED
    BY <1>1, <1>2, <1>3, <1>4, <1>5, <1>6, Restarted

\* The first of some keys is one of them.
LEMMA FirstKey ==
    ASSUME NEW S \in SUBSET Id, First(S) # NoKey
    PROVE  First(S) \in S
  BY DEF First

\* The member found by source is a row of the list with that source.
LEMMA BySourceRow ==
    ASSUME NEW rows, NEW l, NEW s, BySource(rows, l, s) # NoKey
    PROVE  LET p == BySource(rows, l, s) IN
           p \in Id /\ rows[p] # NoRow /\ p[1] = l /\ rows[p].source = s
  <1> DEFINE S == {p \in Id : rows[p] # NoRow /\ p[1] = l /\ rows[p].source = s}
  <1>1. First(S) \in S
    BY FirstKey DEF BySource
  <1> QED
    BY <1>1 DEF BySource

\* The member found by contact is a row of the list with that contact.
LEMMA ByContactRow ==
    ASSUME NEW rows, NEW l, NEW c, ByContact(rows, l, c) # NoKey
    PROVE  LET p == ByContact(rows, l, c) IN
           p \in Id /\ rows[p] # NoRow /\ p[1] = l /\ rows[p].contact = c
  <1> DEFINE S == {p \in Id : rows[p] # NoRow /\ p[1] = l /\ rows[p].contact = c}
  <1>1. First(S) \in S
    BY FirstKey DEF ByContact
  <1> QED
    BY <1>1 DEF ByContact

\* A removal begins with what it read of its member, and no lock.
LEMMA BeginRemoveKeeps ==
    ASSUME IInv, NEW q \in Client, NEW l \in Written, NEW s \in Source, BeginRemove(q, l, s)
    PROVE  IInv'
  <1> DEFINE p == BySource(member, l, s)
             m == member[p]
             o == [contact |-> m.contact, source |-> s, active |-> FALSE]
             t == [Idle EXCEPT !.step = "save", !.kind = "remove", !.list = l,
                               !.asked = {o}, !.object = o, !.found = p, !.seen = m]
  <1>1. txn' = [txn EXCEPT ![q] = t] /\ UNCHANGED <<member, listed, disturbed>> /\ p # NoKey
    BY DEF BeginRemove, Begin
  <1>2. p \in Id /\ m # NoRow /\ p[1] = l /\ m.source = s
    BY <1>1, BySourceRow
  <1>3. m \in Row /\ o \in Payload /\ o \in Object /\ l \in List
    BY <1>2, TreeAssumption DEF IInv, TypeOK, Row, Payload, Object, Key
  <1>4. /\ o.contact = m.contact /\ o.source = s
    OBVIOUS
  <1> HIDE DEF o, m, p
  <1>5. /\ t.step = "save" /\ t.kind = "remove" /\ t.list = l /\ t.asked = {o} /\ t.todo = {}
        /\ t.locks = {} /\ t.said = {} /\ t.absent = {} /\ t.found = p /\ t.marks = {}
        /\ t.writes = [x \in Id |-> Clean] /\ t.object = o /\ t.seen = m
    BY DEF Idle
  <1>6. t \in Txn
    BY <1>2, <1>3, IdleType DEF Txn
  <1> HIDE DEF t
  <1>7. Moved(q) /\ txn'[q] = t
    BY <1>1 DEF Moved, IInv, TypeOK
  <1>8. TxnOK(q)'
    <2>1. StepOK(t)
      BY <1>1, <1>3, <1>5 DEF StepOK, Cascading
    <2>2. FoundOK(t)
      BY <1>2, <1>3, <1>4, <1>5 DEF FoundOK
    <2>3. SaidOK(t, disturbed' \cup t.marks)
      BY <1>5 DEF SaidOK
    <2>4. View(q)'[p] = m
      BY <1>1, <1>2, <1>5, <1>7 DEF View, m
    <2>5. SeenOK(q)' /\ AbsentOK(q)'
      BY <1>5, <1>7, <2>4 DEF SeenOK, AbsentOK
    <2> QED
      BY <1>7, <2>1, <2>2, <2>3, <2>5 DEF TxnOK
  <1>9. member[t.found] # NoRow
    BY <1>2, <1>5 DEF m
  <1> QED
    BY <1>1, <1>2, <1>5, <1>6, <1>7, <1>8, <1>9, Restarted

\* A removal of what is not there only takes back what was listed.
LEMMA RemoveNothingKeeps ==
    ASSUME IInv, NEW q \in Client, NEW l \in Written, NEW s \in Source, RemoveNothing(q, l, s)
    PROVE  IInv'
  <1>1. UNCHANGED <<member, txn, disturbed>> /\ listed' \subseteq listed
    BY DEF RemoveNothing
  <1>2. Moved(q) /\ txn'[q] = txn[q] /\ Later(txn[q], txn'[q])
    BY <1>1 DEF Moved, Later
  <1>3. TypeOK'
    BY <1>1 DEF IInv, TypeOK
  <1>4. TxnOK(q)'
    BY <1>1, TxnKept DEF IInv, TxnInv
  <1>5. txn[q].step # "idle" /\ txn[q].kind # "remove" => txn[q].list \in txn[q].locks
    BY DEF IInv, LockInv
  <1> QED
    BY <1>2, <1>3, <1>4, <1>5, Stepped

\* Going up changes the level and the step, and ends above the last list.
LEMMA UpShape ==
    ASSUME NEW t \in Txn, NEW i \in Nat \ {0}
    PROVE  LET u == Up(t, i) IN
           /\ u \in Txn
           /\ u.step \in {"up", "next"} /\ u.level = i
           /\ u.step = "up" => i \in DOMAIN Ancestors[t.list]
           /\ i \in DOMAIN Ancestors[t.list] => u.step = "up"
           /\ u.kind = t.kind /\ u.list = t.list /\ u.asked = t.asked /\ u.todo = t.todo
           /\ u.said = t.said /\ u.absent = t.absent /\ u.object = t.object /\ u.found = t.found
           /\ u.seen = t.seen /\ u.writes = t.writes /\ u.locks = t.locks /\ u.marks = t.marks
  <1> DEFINE s == IF i <= Len(Ancestors[t.list]) THEN "up" ELSE "next"
  <1>1. Ancestors[t.list] \in Seq(List)
    BY TreeAssumption DEF Txn
  <1>2. s \in {"up", "next"} /\ (s = "up" <=> i \in DOMAIN Ancestors[t.list])
    BY <1>1
  <1> HIDE DEF s
  <1>3. Up(t, i) = [t EXCEPT !.level = i, !.step = s]
    BY DEF Up, s
  <1> QED
    BY <1>2, <1>3, UpType DEF Txn

\* What Write does to the transaction.
LEMMA WriteShape ==
    ASSUME TypeOK, NEW q \in Client, NEW p \in Id, NEW l \in List, NEW r \in Row,
           NEW t \in Txn, t.marks = txn[q].marks \/ txn[q].marks \subseteq t.marks,
           Write(q, l, p, r, t)
    PROVE  LET u == txn'[q] IN
           /\ TypeOK' /\ Moved(q)
           /\ RowFree(q, p) /\ Unique(q, p, r)
           /\ IF t.found = NoKey THEN p[1] = l /\ Fresh(p)
                                 ELSE p = t.found /\ View(q)[p] # NoRow
           /\ u.step = t.step /\ u.kind = t.kind /\ u.list = t.list /\ u.asked = t.asked
           /\ u.todo = t.todo /\ u.said = t.said /\ u.absent = t.absent
           /\ u.object = t.object /\ u.level = t.level /\ u.locks = t.locks
           /\ u.found = NoKey /\ u.seen = NoRow
           /\ u.writes = [t.writes EXCEPT ![p] = r]
           /\ u.marks = t.marks \cup Marks(p[1], View(q)[p], r, t.seen)
  <1>1. txn' = [txn EXCEPT ![q] = [t EXCEPT
         !.writes[p] = r, !.marks = @ \cup Marks(p[1], View(q)[p], r, t.seen),
         !.found = NoKey, !.seen = NoRow]]
    BY DEF Write
  <1>2. txn'[q] = [t EXCEPT
         !.writes[p] = r, !.marks = @ \cup Marks(p[1], View(q)[p], r, t.seen),
         !.found = NoKey, !.seen = NoRow]
    BY <1>1 DEF TypeOK
  <1>3. Moved(q)
    BY <1>1 DEF Moved, Write, TypeOK
  <1>4. TypeOK'
    BY WriteType
  <1>5. /\ RowFree(q, p) /\ Unique(q, p, r)
        /\ IF t.found = NoKey THEN p[1] = l /\ Fresh(p)
                              ELSE p = t.found /\ View(q)[p] # NoRow
    BY DEF Write, NextId
  <1> QED
    BY <1>2, <1>3, <1>4, <1>5 DEF Txn

\* A row loses only what one of two changes in turn makes it lose.
LEMMA WriteOKTrans ==
    ASSUME NEW u, NEW l, NEW m, NEW old, NEW new, IsRow(old),
           WriteOK(u, l, m, old), WriteOK(u, l, old, new)
    PROVE  WriteOK(u, l, m, new)
  BY DEF WriteOK

\* What a transaction sees of a committed row is in order.
LEMMA ViewWriteOK ==
    ASSUME TypeOK, WriteInv, NEW q \in Client, NEW p \in Id, member[p] # NoRow
    PROVE  WriteOK(txn[q], p[1], member[p], View(q)[p])
  <1>1. CASE txn[q].writes[p] = Clean
    <2>1. View(q)[p] = member[p]
      BY <1>1 DEF View
    <2>2. member[p] \in Row
      BY DEF TypeOK
    <2>3. IsRow(member[p])
      BY <2>2, TreeAssumption DEF IsRow
    <2> QED
      BY <2>1, <2>3 DEF WriteOK
  <1>2. CASE txn[q].writes[p] # Clean
    BY <1>2 DEF WriteInv, View
  <1> QED
    BY <1>1, <1>2

\* What a saving action shows of its own transaction and of the row is enough.
LEMMA SavedRow ==
    ASSUME IInv, NEW q \in Client, Moved(q), TypeOK', TxnOK(q)',
           txn'[q].list = txn[q].list, txn'[q].asked = txn[q].asked,
           txn'[q].kind = txn[q].kind, txn[q].marks \subseteq txn'[q].marks,
           NEW p \in Id, NEW r \in Row \cup {NoRow},
           RowFree(q, p), Fresh(p) \/ View(q)[p] # NoRow,
           r = NoRow \/ Unique(q, p, r),
           txn'[q].writes = [txn[q].writes EXCEPT ![p] = r],
           r # NoRow => RowOK(r, p[1], disturbed \cup txn'[q].marks),
           View(q)[p] # NoRow => WriteOK(txn'[q], p[1], View(q)[p], r),
           \A l \in txn'[q].locks : l \in txn[q].locks \/ ListFree(q, l),
           txn[q].locks \subseteq txn'[q].locks, txn[q].step # "idle",
           txn'[q].absent \subseteq txn[q].absent,
           \A x \in Id : x = txn'[q].found => x = txn[q].found \/ View(q)[x] # NoRow
    PROVE  IInv'
  <1>1. Later(txn[q], txn'[q])
    BY DEF Later
  <1>2. ASSUME member[p] # NoRow
        PROVE  WriteOK(txn'[q], p[1], member[p], r)
    <2>1. View(q)[p] # NoRow
      BY <1>2 DEF Fresh
    <2>2. View(q)[p] \in Row
      BY <2>1, ViewType DEF IInv
    <2>3. IsRow(View(q)[p])
      BY <2>2, TreeAssumption DEF IsRow
    <2>4. WriteOK(txn'[q], p[1], member[p], View(q)[p])
      BY <1>1, <1>2, ViewWriteOK, WriteOKLater DEF IInv
    <2> QED
      BY <2>1, <2>3, <2>4, WriteOKTrans
  <1>3. txn'[q].step # "idle" /\ txn'[q].kind # "remove" => txn'[q].list \in txn'[q].locks
    BY DEF IInv, LockInv
  <1>4. r # Clean
    BY TreeAssumption
  <1> QED
    BY <1>1, <1>2, <1>3, <1>4, Saved

\* A write over a row that is not the one read marks the row's contact.
LEMMA MarksOf ==
    ASSUME NEW l, NEW old, NEW new, NEW seen, old # NoRow
    PROVE  LET k == Marks(l, old, new, seen) IN
           /\ new = NoRow \/ new.contact # old.contact \/ seen # old => <<l, old.contact>> \in k
  BY DEF Marks

\* With no row at hand and nothing more to remove, only two facts are left.
LEMMA TxnOKIntro ==
    ASSUME NEW q \in Client, StepOK(txn'[q]), txn'[q].found = NoKey,
           SaidOK(txn'[q], disturbed' \cup txn'[q].marks), AbsentOK(q)'
    PROVE  TxnOK(q)'
  <1>1. FoundOK(txn'[q])
    BY DEF FoundOK
  <1>2. SeenOK(q)'
    BY DEF SeenOK
  <1> QED
    BY <1>1, <1>2 DEF TxnOK

\* The levels above a list are the numbers up to its depth, and it is not above itself.
LEMMA AncestorFacts ==
    ASSUME NEW l \in List, NEW j \in DOMAIN Ancestors[l]
    PROVE  /\ Ancestors[l][j] \in List /\ Ancestors[l][j] # l
           /\ j \in Nat \ {0} /\ 1 \in DOMAIN Ancestors[l]
           /\ j + 1 \in DOMAIN Ancestors[l] \/ \A k \in DOMAIN Ancestors[l] : k < j + 1
  <1>1. Ancestors[l] \in Seq(List)
    BY TreeAssumption
  <1>2. Ancestors[l][j] \in List /\ Ancestors[l][j] # l
    BY <1>1, TreeAssumption
  <1>3. DOMAIN Ancestors[l] = 1..Len(Ancestors[l]) /\ Len(Ancestors[l]) \in Nat
    BY <1>1
  <1> HIDE DEF TreeAssumption
  <1> QED
    BY <1>2, <1>3

\* A write to another row leaves the row of a contact made active.
LEMMA SaidRowKept ==
    ASSUME NEW t \in Txn, NEW u, u.list = t.list, NEW p \in Id, NEW r,
           u.writes = [t.writes EXCEPT ![p] = r],
           NEW x, NEW i \in Slot, SaidRow(t, x, i), p # <<t.list, i>>
    PROVE  SaidRow(u, x, i)
  <1>1. <<t.list, i>> \in Id
    BY DEF Txn, Id
  <1>2. u.writes[<<t.list, i>>] = t.writes[<<t.list, i>>]
    BY <1>1 DEF Txn
  <1> QED
    BY <1>2 DEF SaidRow

\* A write to another list leaves the reason there.
LEMMA SaidAboveKept ==
    ASSUME NEW t \in Txn, NEW u, u.list = t.list, NEW p \in Id, NEW r,
           u.writes = [t.writes EXCEPT ![p] = r],
           NEW x, NEW l \in List, p[1] # l, SaidAbove(t, x, l)
    PROVE  SaidAbove(u, x, l)
  <1>1. \A i \in Slot : u.writes[<<l, i>>] = t.writes[<<l, i>>]
    BY DEF Txn, Id
  <1> QED
    BY <1>1 DEF SaidAbove

\* The save of a member: its row is in order, and the contact is among those made active.
LEMMA SaveMemberKeeps ==
    ASSUME IInv, NEW q \in Client, NEW p \in Id, SaveMember(q, p)
    PROVE  IInv'
  <1> DEFINE t       == txn[q]
             o       == t.object
             reasons == IF t.found = NoKey THEN {} ELSE t.seen.reasons
             active  == StatusOf(o.active, reasons)
             new     == IF o.active THEN {<<o.source, o.contact>>} ELSE {}
             r       == [contact |-> o.contact, source |-> o.source,
                         reasons |-> reasons, active |-> active]
             v       == [t EXCEPT !.object.active = active, !.said = @ \cup new]
             u       == txn'[q]
             old     == View(q)[p]
  <1>1. t.step = "save" /\ t.kind \in {"upsert", "reconcile"} /\ Write(q, t.list, p, r, Up(v, 1))
    BY DEF SaveMember
  <1>2. t \in Txn /\ StepOK(t) /\ FoundOK(t) /\ SaidOK(t, disturbed \cup t.marks)
    BY DEF IInv, TypeOK, TxnInv, TxnOK
  <1>3. o \in Object /\ t.absent = {} /\ t.said \subseteq Known(t.asked) /\ t.asked \subseteq Payload
    BY <1>1, <1>2 DEF StepOK
  <1>4. PICK x \in t.asked : x.source = o.source /\ x.contact = o.contact
    BY <1>1, <1>2 DEF StepOK
  <1>5. o.source \in Source /\ o.contact \in Contact
    BY <1>3, <1>4 DEF Payload
  <1>6. t.found # NoKey => t.seen \in Row
    BY <1>2 DEF FoundOK
  <1>7. reasons \in SUBSET Reason /\ active \in BOOLEAN
    BY <1>3, <1>6 DEF Row, Object, StatusOf
  <1>8. r \in Row
    BY <1>5, <1>7 DEF Row, Key
  <1>9. new \in SUBSET (Source \X Contact)
    BY <1>5
  <1>20. [o EXCEPT !.active = active] \in Object
    BY <1>3, <1>7 DEF Object
  <1> HIDE DEF new
  <1>10. /\ v \in Txn
         /\ v.kind = t.kind /\ v.list = t.list /\ v.asked = t.asked /\ v.todo = t.todo
         /\ v.said = t.said \cup new /\ v.absent = t.absent /\ v.found = t.found /\ v.seen = t.seen
         /\ v.writes = t.writes /\ v.locks = t.locks /\ v.marks = t.marks
         /\ v.object = [o EXCEPT !.active = active]
    BY <1>2, <1>9, <1>20 DEF Txn
  <1>11. v.object.source = o.source /\ v.object.contact = o.contact /\ v.object.active = active
    BY <1>3, <1>10 DEF Object
  <1> HIDE DEF v, r
  <1>12. t.list \in List
    BY <1>2 DEF Txn
  <1>13. /\ TypeOK' /\ Moved(q) /\ RowFree(q, p) /\ Unique(q, p, r)
         /\ IF t.found = NoKey THEN p[1] = t.list /\ Fresh(p) ELSE p = t.found /\ old # NoRow
         /\ u.step \in {"up", "next"} /\ u.kind = t.kind /\ u.list = t.list /\ u.asked = t.asked
         /\ u.step = "up" => u.level \in DOMAIN Ancestors[t.list]
         /\ 1 \in DOMAIN Ancestors[t.list] => u.step = "up"
         /\ u.level = 1
         /\ u.todo = t.todo /\ u.said = t.said \cup new /\ u.absent = {}
         /\ u.object = v.object /\ u.locks = t.locks
         /\ u.found = NoKey /\ u.seen = NoRow
         /\ u.writes = [t.writes EXCEPT ![p] = r]
         /\ u.marks = t.marks \cup Marks(p[1], old, r, t.seen)
    BY <1>1, <1>3, <1>8, <1>10, <1>12, UpShape, WriteShape DEF IInv
  <1>14. p[1] = t.list
    BY <1>1, <1>2, <1>13 DEF FoundOK
  <1>15. r.contact = o.contact /\ r.source = o.source /\ r.reasons = reasons /\ r.active = active
    BY DEF r
  <1>16. StepOK(u)
    <2>1. u.object \in Object /\ u.object.source = o.source /\ u.object.contact = o.contact
      BY <1>10, <1>11, <1>13, <1>20
    <2>2. t.todo \subseteq t.asked /\ t.kind \notin {"remove", "drop"}
      BY <1>1, <1>2 DEF StepOK
    <2>3. u.said \subseteq Known(t.asked)
      BY <1>3, <1>4, <1>13 DEF Known, new
    <2> QED
      BY <1>3, <1>4, <1>13, <2>1, <2>2, <2>3 DEF StepOK, Cascading
  <1>17. SaidOK(u, disturbed' \cup u.marks)
    <2>1. t.writes \in [Id -> Row \cup {NoRow, Clean}]
      BY <1>2 DEF Txn
    <2>2. IsRow(r)
      BY <1>8, TreeAssumption DEF IsRow
    <2>3. disturbed \cup t.marks \subseteq disturbed' \cup u.marks
      BY <1>13 DEF Moved
    <2>4. /\ u.object.source = o.source /\ u.object.contact = o.contact
          /\ u.object.active = active /\ u.list = t.list /\ u.step # "save"
      BY <1>11, <1>13
    <2>5. ASSUME NEW y \in t.said
          PROVE  /\ \E i \in Slot : SaidRow(u, y, i)
                 /\ \A j \in DOMAIN Ancestors[t.list] :
                      \/ <<Ancestors[t.list][j], y[2]>> \in disturbed' \cup u.marks
                      \/ SaidAbove(u, y, Ancestors[t.list][j])
                 /\ y[2] # o.contact
      <3>1. PICK i \in Slot : SaidRow(t, y, i)
        BY <1>2 DEF SaidOK
      <3>2. y[1] # o.source /\ y[2] # o.contact
        BY <1>1, <1>2 DEF SaidOK
      <3>3. p # <<t.list, i>>
        <4> SUFFICES ASSUME p = <<t.list, i>>
                     PROVE  FALSE
          OBVIOUS
        <4>1. t.writes[p] # Clean
          BY <3>1 DEF IsRow, SaidRow
        <4>2. t.found = p
          BY <4>1, <1>13 DEF Fresh
        <4>3. t.seen = t.writes[p] /\ (t.seen.contact = o.contact \/ t.seen.source = o.source)
          BY <4>1, <4>2, <1>1, <1>2, TreeAssumption DEF FoundOK
        <4> QED
          BY <4>3, <3>1, <3>2 DEF SaidRow
      <3>4. SaidRow(u, y, i)
        BY <3>1, <3>3, <1>2, <2>4, <1>13, SaidRowKept
      <3>5. ASSUME NEW j \in DOMAIN Ancestors[t.list]
            PROVE  \/ <<Ancestors[t.list][j], y[2]>> \in disturbed' \cup u.marks
                   \/ SaidAbove(u, y, Ancestors[t.list][j])
        <4>1. \/ <<Ancestors[t.list][j], y[2]>> \in disturbed \cup t.marks
              \/ SaidAbove(t, y, Ancestors[t.list][j])
          BY <1>1, <1>2 DEF SaidOK, Pending, Cascading
        <4>2. Ancestors[t.list][j] \in List /\ Ancestors[t.list][j] # p[1]
          BY <1>12, <1>14, AncestorFacts
        <4>3. CASE SaidAbove(t, y, Ancestors[t.list][j])
          <5>1. u.list = t.list /\ u.writes = [t.writes EXCEPT ![p] = r] /\ t \in Txn
            BY <1>2, <1>13
          <5> HIDE DEF t, u
          <5>2. SaidAbove(u, y, Ancestors[t.list][j])
            BY <4>2, <4>3, <5>1, SaidAboveKept
          <5> QED
            BY <5>2
        <4> QED
          BY <4>1, <4>3, <2>3
      <3> QED
        BY <3>2, <3>4, <3>5
    <2>6. ASSUME NEW y \in new
          PROVE  /\ \E i \in Slot : SaidRow(u, y, i)
                 /\ \A j \in DOMAIN Ancestors[t.list] : Pending(u, y, j)
                 /\ y[1] = o.source /\ active
      <3>1. o.active /\ y = <<o.source, o.contact>>
        BY <2>6 DEF new
      <3>2. active
        BY <1>3, <3>1 DEF StatusOf, Object
      <3>3. PICK i \in Slot : p = <<t.list, i>>
        BY <1>14 DEF Id
      <3>4. u.writes[<<t.list, i>>] = r
        BY <2>1, <3>3, <1>13
      <3>5. SaidRow(u, y, i)
        BY <2>2, <2>4, <3>1, <3>2, <3>4, <1>15 DEF SaidRow
      <3>6. ASSUME NEW j \in DOMAIN Ancestors[t.list]
            PROVE  Pending(u, y, j)
        <4>1. j \in Nat \ {0} /\ 1 \in DOMAIN Ancestors[t.list]
          BY <1>12, AncestorFacts
        <4>2. u.step = "up" /\ u.level = 1
          BY <4>1, <1>13
        <4> QED
          BY <4>1, <4>2, <2>4, <3>1 DEF Pending, Cascading
      <3> QED
        BY <3>1, <3>2, <3>5, <3>6
    <2>7. u.said = t.said \cup new
      BY <1>13
    <2> QED
      BY <2>4, <2>5, <2>6, <2>7 DEF SaidOK
  <1>18. RowOK(r, p[1], disturbed \cup u.marks)
    <2>1. r.source # Cascade
      BY <1>5, <1>15, TreeAssumption
    <2>2. r.reasons # {} => r.active
      BY <1>15 DEF StatusOf
    <2> QED
      BY <2>1, <2>2 DEF RowOK
  <1>19. ASSUME old # NoRow
         PROVE  WriteOK(u, p[1], old, r)
    <2>1. t.found # NoKey
      BY <1>13, <1>19 DEF Fresh, View
    <2>2. IsRow(r) /\ r.source # Cascade
      BY <1>5, <1>8, <1>15, TreeAssumption DEF IsRow
    <2>3. r.contact # old.contact \/ t.seen # old => <<p[1], old.contact>> \in u.marks
      BY <1>13, <1>19, MarksOf
    <2>4. r.contact = old.contact => Dropped(u, old.source, old.contact)
      BY <1>4, <1>13, <1>15 DEF Dropped
    <2>5. t.seen = old => r.reasons = old.reasons
      BY <2>1, <1>15
    <2>6. p[1] = u.list /\ u.kind # "remove"
      BY <1>1, <1>13, <1>14
    <2> QED
      BY <2>2, <2>3, <2>4, <2>5, <2>6 DEF WriteOK
  <1>21. AbsentOK(q)'
    BY <1>13 DEF AbsentOK
  <1>22. TxnOK(q)'
    BY <1>13, <1>16, <1>17, <1>21, TxnOKIntro
  <1> QED
    <2>1. \A i \in Id : i # u.found
      BY <1>13, TreeAssumption
    <2>2. t.marks \subseteq u.marks /\ t.step # "idle" /\ u.locks = t.locks /\ u.absent \subseteq t.absent
      BY <1>1, <1>13
    <2>3. r \in Row \cup {NoRow} /\ (Fresh(p) \/ View(q)[p] # NoRow)
      BY <1>8, <1>13
    <2>4. u.writes = [txn[q].writes EXCEPT ![p] = r] /\ u.kind = t.kind /\ u.list = t.list /\ u.asked = t.asked
      BY <1>13
    <2> HIDE DEF reasons, active, o
    <2> QED
      BY <2>1, <2>2, <2>3, <2>4, <1>13, <1>18, <1>19, <1>22, SavedRow

\* The save of a removed member writes the row that is there with what was read.
LEMMA SaveRemovedKeeps ==
    ASSUME IInv, NEW q \in Client, NEW p \in Id, SaveRemoved(q, p)
    PROVE  IInv'
  <1> DEFINE t       == txn[q]
             reasons == t.seen.reasons
             active  == StatusOf(FALSE, reasons)
             old     == View(q)[p]
             r       == [old EXCEPT !.active = active, !.reasons = reasons]
             v       == [t EXCEPT !.object.active = active]
             u       == txn'[q]
  <1>1. t.step = "save" /\ t.kind = "remove" /\ Write(q, t.list, p, r, Up(v, 1))
    BY DEF SaveRemoved
  <1>2. t \in Txn /\ StepOK(t) /\ FoundOK(t) /\ t.list \in List
    BY DEF IInv, TypeOK, TxnInv, TxnOK, Txn
  <1>3. /\ t.object \in Object /\ t.absent = {} /\ t.said = {} /\ t.todo = {}
        /\ t.found # NoKey /\ t.asked \subseteq Payload
    BY <1>1, <1>2 DEF StepOK
  <1>4. PICK x \in t.asked : x.source = t.object.source /\ x.contact = t.object.contact
    BY <1>1, <1>2 DEF StepOK
  <1>5. /\ t.seen \in Row /\ t.found[1] = t.list
        /\ t.seen.contact = t.object.contact /\ t.seen.source = t.object.source
    BY <1>1, <1>2, <1>3 DEF FoundOK
  <1>6. active \in BOOLEAN /\ (active <=> reasons # {}) /\ reasons \in SUBSET Reason
    BY <1>5 DEF StatusOf, Row
  <1> HIDE DEF active
  <1>7. /\ v \in Txn
        /\ v.kind = t.kind /\ v.list = t.list /\ v.asked = t.asked /\ v.todo = t.todo
        /\ v.said = t.said /\ v.absent = t.absent /\ v.found = t.found /\ v.seen = t.seen
        /\ v.writes = t.writes /\ v.locks = t.locks /\ v.marks = t.marks
        /\ v.object = [t.object EXCEPT !.active = active]
    <2>1. [t.object EXCEPT !.active = active] \in Object
      BY <1>3, <1>6 DEF Object
    <2> QED
      BY <1>2, <2>1 DEF Txn
  <1>8. v.object \in Object /\ v.object.source = t.object.source /\ v.object.contact = t.object.contact
    BY <1>3, <1>6, <1>7 DEF Object
  <1> HIDE DEF v
  <1>9. old # NoRow
    <2>1. Up(v, 1).found = t.found
      BY <1>7, UpShape
    <2> QED
      BY <1>1, <1>3, <2>1 DEF Write
  <1>10. old \in Row
    BY <1>9, ViewType DEF IInv
  <1>11. /\ r \in Row /\ r.contact = old.contact /\ r.source = old.source
         /\ r.reasons = reasons /\ r.active = active
    BY <1>6, <1>10 DEF Row
  <1> HIDE DEF r
  <1>12. /\ TypeOK' /\ Moved(q) /\ RowFree(q, p) /\ Unique(q, p, r) /\ p = t.found
         /\ u.step \in {"up", "next"} /\ u.kind = t.kind /\ u.list = t.list /\ u.asked = t.asked
         /\ u.step = "up" => u.level \in DOMAIN Ancestors[t.list]
         /\ u.todo = t.todo /\ u.said = {} /\ u.absent = {}
         /\ u.object = v.object /\ u.locks = t.locks
         /\ u.found = NoKey /\ u.seen = NoRow
         /\ u.writes = [t.writes EXCEPT ![p] = r]
         /\ u.marks = t.marks \cup Marks(p[1], old, r, t.seen)
    BY <1>1, <1>2, <1>3, <1>7, <1>11, UpShape, WriteShape DEF IInv
  <1>13. StepOK(u)
    BY <1>1, <1>3, <1>4, <1>8, <1>12 DEF StepOK, Cascading
  <1>14. SaidOK(u, disturbed' \cup u.marks) /\ AbsentOK(q)'
    BY <1>12 DEF SaidOK, AbsentOK
  <1>15. TxnOK(q)'
    BY <1>12, <1>13, <1>14, TxnOKIntro
  <1>16. RowOK(r, p[1], disturbed \cup u.marks)
    BY <1>6, <1>11 DEF RowOK
  <1>17. WriteOK(u, p[1], old, r)
    <2>1. IsRow(r)
      BY <1>11, TreeAssumption DEF IsRow
    <2>2. t.seen # old => <<p[1], old.contact>> \in u.marks
      BY <1>9, <1>12, MarksOf
    <2>3. t.seen = old => Dropped(u, old.source, old.contact)
      BY <1>4, <1>5, <1>12 DEF Dropped
    <2>4. p[1] = u.list
      BY <1>5, <1>12
    <2> QED
      BY <1>11, <2>1, <2>2, <2>3, <2>4 DEF WriteOK
  <1> QED
    <2>1. \A i \in Id : i # u.found
      BY <1>12, TreeAssumption
    <2>2. t.marks \subseteq u.marks /\ t.step # "idle" /\ u.locks = t.locks /\ u.absent \subseteq t.absent
      BY <1>1, <1>12
    <2>3. r \in Row \cup {NoRow} /\ (Fresh(p) \/ View(q)[p] # NoRow)
      BY <1>9, <1>11
    <2> QED
      BY <2>1, <2>2, <2>3, <1>12, <1>15, <1>16, <1>17, SavedRow

\* A member the payload leaves out is written inactive.
LEMMA DropKeeps ==
    ASSUME IInv, NEW q \in Client, NEW p \in Id, Drop(q, p)
    PROVE  IInv'
  <1> DEFINE t     == txn[q]
             old   == View(q)[p]
             r     == [old EXCEPT !.active = FALSE]
             o     == [contact |-> old.contact, source |-> old.source, active |-> FALSE]
             marks == IF old.reasons = {} THEN t.marks ELSE t.marks \cup {<<t.list, old.contact>>}
             v     == [t EXCEPT !.absent = @ \ {p}, !.found = p, !.seen = old,
                                !.marks = marks, !.object = o]
             u     == txn'[q]
  <1>1. t.step = "next" /\ p \in t.absent /\ old # NoRow /\ Write(q, t.list, p, r, Up(v, 1))
    BY DEF Drop
  <1>2. /\ t \in Txn /\ StepOK(t) /\ t.list \in List
        /\ SaidOK(t, disturbed \cup t.marks) /\ AbsentOK(q)
    BY DEF IInv, TypeOK, TxnInv, TxnOK, Txn
  <1>3. /\ t.kind = "drop" /\ t.todo = {} /\ t.asked \subseteq Payload
        /\ p[1] = t.list /\ t.said \subseteq Known(t.asked) /\ \A x \in t.absent : x[1] = t.list
    BY <1>1, <1>2 DEF StepOK
  <1>4. old \in Row
    BY <1>1, ViewType DEF IInv
  <1>5. /\ r \in Row /\ r.contact = old.contact /\ r.source = old.source
        /\ r.reasons = old.reasons /\ r.active = FALSE
    BY <1>4 DEF Row
  <1>6. o \in Object /\ o.contact = old.contact /\ o.source = old.source
    BY <1>4 DEF Row, Object
  <1>7. /\ t.marks \subseteq marks /\ marks \in SUBSET (List \X Contact)
        /\ old.reasons # {} => <<t.list, old.contact>> \in marks
    BY <1>2, <1>4 DEF Row, Txn
  <1> HIDE DEF o, r, marks
  <1>8. /\ v \in Txn
        /\ v.kind = t.kind /\ v.list = t.list /\ v.asked = t.asked /\ v.todo = t.todo
        /\ v.said = t.said /\ v.absent = t.absent \ {p} /\ v.found = p /\ v.seen = old
        /\ v.writes = t.writes /\ v.locks = t.locks /\ v.marks = marks /\ v.object = o
    BY <1>2, <1>4, <1>6, <1>7 DEF Txn
  <1> HIDE DEF v
  <1>9. /\ TypeOK' /\ Moved(q) /\ RowFree(q, p) /\ Unique(q, p, r)
        /\ u.step \in {"up", "next"} /\ u.kind = t.kind /\ u.list = t.list /\ u.asked = t.asked
        /\ u.step = "up" => u.level \in DOMAIN Ancestors[t.list]
        /\ u.todo = t.todo /\ u.said = t.said /\ u.absent = t.absent \ {p}
        /\ u.object = o /\ u.locks = t.locks
        /\ u.found = NoKey /\ u.seen = NoRow
        /\ u.writes = [t.writes EXCEPT ![p] = r]
        /\ u.marks = marks \cup Marks(p[1], old, r, old)
    BY <1>1, <1>2, <1>5, <1>7, <1>8, UpShape, WriteShape DEF IInv
  <1>10. StepOK(u)
    BY <1>3, <1>6, <1>9 DEF StepOK, Cascading
  <1>11. View(q)' = [View(q) EXCEPT ![p] = r]
    <2>1. r # Clean
      BY <1>5, TreeAssumption
    <2> QED
      BY <1>9, <2>1, ViewNew DEF IInv
  <1>12. AbsentOK(q)'
    <2>1. \A x \in u.absent : View(q)'[x] = View(q)[x] /\ x \in t.absent
      BY <1>2, <1>9, <1>11, ViewType DEF IInv, Txn
    <2> QED
      BY <1>2, <1>9, <2>1 DEF AbsentOK, Sources
  <1>13. SaidOK(u, disturbed' \cup u.marks)
    <2>1. disturbed \cup t.marks \subseteq disturbed' \cup u.marks
      BY <1>7, <1>9 DEF Moved
    <2>2. u.list = t.list /\ u.writes = [t.writes EXCEPT ![p] = r] /\ u.step # "save"
      BY <1>9
    <2> SUFFICES ASSUME NEW y \in t.said
                 PROVE  /\ \E i \in Slot : SaidRow(u, y, i)
                        /\ \A j \in DOMAIN Ancestors[t.list] :
                             \/ <<Ancestors[t.list][j], y[2]>> \in disturbed' \cup u.marks
                             \/ SaidAbove(u, y, Ancestors[t.list][j])
                        /\ y[2] # o.contact
      BY <1>9, <2>2 DEF SaidOK
    <2>3. PICK i \in Slot : SaidRow(t, y, i)
      BY <1>2 DEF SaidOK
    <2> DEFINE x == <<t.list, i>>
    <2>4. x \in Id
      BY <1>2 DEF Id
    <2>5. View(q)[x] = t.writes[x] /\ IsRow(View(q)[x]) /\ View(q)[x].contact = y[2] /\ View(q)[x].source = y[1]
      BY <2>3, <2>4 DEF SaidRow, View, IsRow
    <2>6. y[1] \in Sources(t)
      BY <1>3 DEF Known, Sources
    <2>7. p # x
      BY <1>1, <1>2, <2>5, <2>6 DEF AbsentOK
    <2>8. y[2] # o.contact
      <3>1. PICK k \in Slot : p = <<t.list, k>>
        BY <1>3 DEF Id
      <3>2. k # i
        BY <2>7, <3>1
      <3>3. ~Clash(View(q)[x], View(q)[p])
        BY <1>2, <3>1, <3>2 DEF IInv, UniqueInv
      <3>4. IsRow(old)
        BY <1>4, TreeAssumption DEF IsRow
      <3> QED
        BY <1>6, <2>5, <3>3, <3>4 DEF Clash, IsRow
    <2>9. SaidRow(u, y, i)
      <3> HIDE DEF t, u
      <3> QED
        BY <1>2, <2>2, <2>3, <2>7, SaidRowKept
    <2>10. ASSUME NEW j \in DOMAIN Ancestors[t.list]
           PROVE  \/ <<Ancestors[t.list][j], y[2]>> \in disturbed' \cup u.marks
                  \/ SaidAbove(u, y, Ancestors[t.list][j])
      <3>1. \/ <<Ancestors[t.list][j], y[2]>> \in disturbed \cup t.marks
            \/ SaidAbove(t, y, Ancestors[t.list][j])
        BY <1>1, <1>2 DEF SaidOK, Pending, Cascading
      <3>2. Ancestors[t.list][j] \in List /\ Ancestors[t.list][j] # p[1]
        BY <1>2, <1>3, AncestorFacts
      <3>3. CASE SaidAbove(t, y, Ancestors[t.list][j])
        <4> HIDE DEF t, u
        <4> QED
          BY <1>2, <2>2, <3>2, <3>3, SaidAboveKept
      <3> QED
        BY <2>1, <3>1, <3>3
    <2> QED
      BY <2>8, <2>9, <2>10
  <1>14. TxnOK(q)'
    BY <1>9, <1>10, <1>12, <1>13, TxnOKIntro
  <1>15. RowOK(r, p[1], disturbed \cup u.marks)
    BY <1>3, <1>5, <1>7, <1>9 DEF RowOK
  <1>16. WriteOK(u, p[1], old, r)
    <2>1. IsRow(r)
      BY <1>5, TreeAssumption DEF IsRow
    <2>2. p[1] = u.list /\ u.kind = "drop"
      BY <1>3, <1>9
    <2> QED
      BY <1>5, <2>1, <2>2 DEF WriteOK, Dropped
  <1> QED
    <2>1. \A x \in Id : x # u.found
      BY <1>9, TreeAssumption
    <2>2. t.marks \subseteq u.marks /\ t.step # "idle" /\ u.locks = t.locks /\ u.absent \subseteq t.absent
      BY <1>1, <1>7, <1>9
    <2>3. r \in Row \cup {NoRow} /\ (Fresh(p) \/ View(q)[p] # NoRow)
      BY <1>1, <1>5
    <2> QED
      BY <2>1, <2>2, <2>3, <1>9, <1>14, <1>15, <1>16, SavedRow

\* The save of a row above: its reasons decide whether it is active.
LEMMA SaveAncestorKeeps ==
    ASSUME IInv, NEW q \in Client, NEW p \in Id, SaveAncestor(q, p)
    PROVE  IInv'
  <1> DEFINE t       == txn[q]
             o       == t.object
             anc     == Ancestor(q)
             own     == [list |-> t.list, source |-> o.source]
             reasons == NewReasons(t)
             old     == View(q)[p]
             active  == StatusAfter(t.seen, reasons, old.active)
             created == [contact |-> o.contact, source |-> Cascade,
                         reasons |-> {own}, active |-> TRUE]
             updated == [old EXCEPT !.reasons = reasons, !.active = active]
             r       == IF t.found = NoKey THEN created ELSE updated
             v       == [t EXCEPT !.locks = @ \cup {anc}]
             u       == txn'[q]
  <1>1. t.step = "keep" /\ ListFree(q, anc) /\ Write(q, anc, p, r, Up(v, t.level + 1))
    BY DEF SaveAncestor
  <1>2. /\ t \in Txn /\ StepOK(t) /\ FoundOK(t) /\ t.list \in List
        /\ SaidOK(t, disturbed \cup t.marks) /\ AbsentOK(q) /\ SeenOK(q)
    BY DEF IInv, TypeOK, TxnInv, TxnOK, Txn
  <1>3. /\ o \in Object /\ t.asked \subseteq Payload /\ t.level \in DOMAIN Ancestors[t.list]
        /\ \A x \in t.absent : x[1] = t.list
    BY <1>1, <1>2 DEF StepOK, Cascading
  <1>4. /\ anc = Ancestors[t.list][t.level] /\ anc \in List /\ anc # t.list
        /\ t.level + 1 \in Nat \ {0}
    BY <1>2, <1>3, AncestorFacts DEF Ancestor
  <1>5. own \in Reason /\ o.contact \in Contact
    BY <1>2, <1>3 DEF Reason, Object
  <1>6. /\ created \in Row /\ created.contact = o.contact /\ created.source = Cascade
        /\ created.reasons = {own} /\ created.active = TRUE
    BY <1>5 DEF Row, Key
  <1> HIDE DEF created
  <1>7. /\ v \in Txn
        /\ v.step = t.step /\ v.kind = t.kind /\ v.list = t.list /\ v.asked = t.asked /\ v.todo = t.todo
        /\ v.said = t.said /\ v.absent = t.absent /\ v.found = t.found /\ v.seen = t.seen
        /\ v.writes = t.writes /\ v.locks = t.locks \cup {anc} /\ v.marks = t.marks
        /\ v.object = o
    BY <1>2, <1>4 DEF Txn
  <1> HIDE DEF v, anc
  <1>8. t.found # NoKey =>
          /\ t.seen \in Row /\ p = t.found /\ old # NoRow /\ old \in Row
          /\ p[1] = anc /\ t.seen.contact = o.contact
    <2>1. Up(v, t.level + 1).found = t.found
      BY <1>4, <1>7, UpShape
    <2>2. t.found # NoKey => p = t.found /\ old # NoRow
      BY <1>1, <2>1 DEF Write
    <2> QED
      BY <1>1, <1>2, <1>4, <2>2, ViewType DEF IInv, FoundOK
  <1>9. t.found # NoKey => /\ reasons \in SUBSET Reason
                           /\ reasons = (t.seen.reasons \ {own}) \cup (IF o.active THEN {own} ELSE {})
    BY <1>5, <1>8 DEF NewReasons, Row
  <1> HIDE DEF reasons, own
  <1>10. t.found # NoKey =>
           /\ active \in BOOLEAN
           /\ active <=> reasons # {} \/ (t.seen.source # Cascade /\ old.active)
    BY <1>8 DEF StatusAfter, Row
  <1> HIDE DEF active
  <1>11. t.found # NoKey =>
           /\ updated \in Row /\ updated.contact = old.contact /\ updated.source = old.source
           /\ updated.reasons = reasons /\ updated.active = active
    BY <1>8, <1>9, <1>10 DEF Row
  <1> HIDE DEF updated
  <1>12. r \in Row
    BY <1>6, <1>11
  <1> HIDE DEF r
  <1>13. /\ TypeOK' /\ Moved(q) /\ RowFree(q, p) /\ Unique(q, p, r)
         /\ IF t.found = NoKey THEN p[1] = anc /\ Fresh(p) ELSE p = t.found /\ old # NoRow
         /\ u.step \in {"up", "next"} /\ u.kind = t.kind /\ u.list = t.list /\ u.asked = t.asked
         /\ u.level = t.level + 1
         /\ u.step = "up" => u.level \in DOMAIN Ancestors[t.list]
         /\ u.level \in DOMAIN Ancestors[t.list] => u.step = "up"
         /\ u.todo = t.todo /\ u.said = t.said /\ u.absent = t.absent
         /\ u.object = o /\ u.locks = t.locks \cup {anc}
         /\ u.found = NoKey /\ u.seen = NoRow
         /\ u.writes = [t.writes EXCEPT ![p] = r]
         /\ u.marks = t.marks \cup Marks(p[1], old, r, t.seen)
    BY <1>1, <1>4, <1>7, <1>12, UpShape, WriteShape DEF IInv
  <1>14. p[1] = anc
    BY <1>8, <1>13
  <1>15. StepOK(u)
    <2>1. t.said \subseteq Known(t.asked) /\ t.todo \subseteq t.asked
      BY <1>2 DEF StepOK
    <2> QED
      BY <1>1, <1>2, <1>3, <1>13, <2>1 DEF StepOK, Cascading
  <1>16. AbsentOK(q)'
    <2>1. r # Clean
      BY <1>12, TreeAssumption
    <2>2. View(q)' = [View(q) EXCEPT ![p] = r]
      BY <1>13, <2>1, ViewNew DEF IInv
    <2>3. \A x \in t.absent : View(q)'[x] = View(q)[x]
      BY <1>2, <1>3, <1>4, <1>14, <2>2, ViewType DEF IInv, Txn
    <2> QED
      BY <1>2, <1>13, <2>3 DEF AbsentOK, Sources
  <1>17. SaidOK(u, disturbed' \cup u.marks)
    <2>1. disturbed \cup t.marks \subseteq disturbed' \cup u.marks
      BY <1>13 DEF Moved
    <2>2. u.list = t.list /\ u.writes = [t.writes EXCEPT ![p] = r] /\ u.step # "save" /\ u.object = o
      BY <1>13
    <2>3. IsRow(r)
      BY <1>12, TreeAssumption DEF IsRow
    <2>4. t.writes \in [Id -> Row \cup {NoRow, Clean}]
      BY <1>2 DEF Txn
    <2> SUFFICES ASSUME NEW y \in t.said
                 PROVE  /\ \E i \in Slot : SaidRow(u, y, i)
                        /\ \A j \in DOMAIN Ancestors[t.list] :
                             \/ Pending(u, y, j)
                             \/ <<Ancestors[t.list][j], y[2]>> \in disturbed' \cup u.marks
                             \/ SaidAbove(u, y, Ancestors[t.list][j])
                        /\ y[2] = o.contact => y[1] = o.source /\ o.active
      BY <1>13, <2>2 DEF SaidOK
    <2>5. y[2] = o.contact => y[1] = o.source /\ o.active
      BY <1>1, <1>2 DEF SaidOK, Cascading
    <2>6. \E i \in Slot : SaidRow(u, y, i)
      <3>1. PICK i \in Slot : SaidRow(t, y, i)
        BY <1>2 DEF SaidOK
      <3>2. p # <<t.list, i>>
        BY <1>4, <1>14
      <3> HIDE DEF t, u
      <3>3. SaidRow(u, y, i)
        BY <1>2, <2>2, <3>1, <3>2, SaidRowKept
      <3> QED
        BY <3>3
    \* The row written has the reason of what was said of its contact.
    <2>7. ASSUME y[2] = o.contact
          PROVE  <<anc, y[2]>> \in disturbed' \cup u.marks \/ SaidAbove(u, y, anc)
      <3>1. PICK k \in Slot : p = <<anc, k>>
        BY <1>14 DEF Id
      <3>2. u.writes[<<anc, k>>] = r
        BY <2>2, <2>4, <3>1
      <3>3. [list |-> t.list, source |-> y[1]] = own
        BY <2>5, <2>7 DEF own
      <3>4. CASE t.found = NoKey
        <4>1. r.contact = y[2] /\ own \in r.reasons
          BY <1>6, <2>7, <3>4 DEF r
        <4> QED
          BY <2>2, <2>3, <3>2, <3>3, <4>1 DEF SaidAbove
      <3>5. CASE t.found # NoKey
        <4>1. r.contact = old.contact /\ own \in r.reasons
          BY <1>9, <1>11, <2>5, <2>7, <3>5 DEF r
        <4>2. old.contact = y[2] \/ <<anc, y[2]>> \in disturbed \cup t.marks
          BY <1>2, <1>8, <2>7, <3>5 DEF SeenOK
        <4> QED
          BY <2>1, <2>2, <2>3, <3>2, <3>3, <4>1, <4>2 DEF SaidAbove
      <3> QED
        BY <3>4, <3>5
    <2>8. ASSUME NEW j \in DOMAIN Ancestors[t.list]
          PROVE  \/ Pending(u, y, j)
                 \/ <<Ancestors[t.list][j], y[2]>> \in disturbed' \cup u.marks
                 \/ SaidAbove(u, y, Ancestors[t.list][j])
      <3> DEFINE l == Ancestors[t.list][j]
      <3>1. l \in List /\ j \in Nat /\ t.level \in Nat
        BY <1>2, AncestorFacts DEF Txn
      <3>2. \/ Pending(t, y, j)
            \/ <<l, y[2]>> \in disturbed \cup t.marks
            \/ SaidAbove(t, y, l)
        BY <1>2 DEF SaidOK
      <3>3. CASE Pending(t, y, j)
        <4>1. y[2] = o.contact /\ j >= t.level
          BY <3>3 DEF Pending
        <4>2. CASE j = t.level
          BY <1>4, <2>7, <4>1, <4>2
        <4>3. CASE j >= t.level + 1
          <5>1. t.level + 1 \in DOMAIN Ancestors[t.list]
            BY <1>2, <1>3, <3>1, <4>3, AncestorFacts
          <5>2. u.step = "up" /\ u.level = t.level + 1
            BY <1>13, <5>1
          <5> QED
            BY <2>2, <4>1, <4>3, <5>2 DEF Pending, Cascading
        <4> QED
          BY <3>1, <4>1, <4>2, <4>3
      <3>4. CASE SaidAbove(t, y, l)
        <4>1. CASE l # anc
          <5>1. p[1] # l
            BY <1>14, <4>1
          <5> HIDE DEF t, u, l
          <5>2. SaidAbove(u, y, l)
            BY <1>2, <2>2, <3>1, <3>4, <5>1, SaidAboveKept
          <5> QED
            BY <5>2 DEF l
        <4>2. CASE l = anc /\ y[2] = o.contact
          BY <2>7, <4>2
        <4>3. CASE l = anc /\ y[2] # o.contact
          <5>1. PICK i \in Slot : LET w == t.writes[<<l, i>>] IN
                  IsRow(w) /\ w.contact = y[2] /\ [list |-> t.list, source |-> y[1]] \in w.reasons
            BY <3>4 DEF SaidAbove
          <5>2. <<l, i>> # p
            <6> SUFFICES ASSUME <<l, i>> = p PROVE FALSE
              OBVIOUS
            <6>1. t.writes[p] # Clean /\ t.writes[p].contact = y[2]
              BY <5>1 DEF IsRow
            <6>2. t.found # NoKey
              BY <6>1, <1>13 DEF Fresh
            <6>3. t.seen = t.writes[p] /\ t.seen.contact = o.contact
              BY <1>2, <1>8, <6>1, <6>2 DEF FoundOK
            <6> QED
              BY <4>3, <6>1, <6>3
          <5>3. u.writes[<<l, i>>] = t.writes[<<l, i>>]
            BY <2>2, <2>4, <3>1, <5>2 DEF Id
          <5> QED
            BY <2>2, <5>1, <5>3 DEF SaidAbove
        <4> QED
          BY <4>1, <4>2, <4>3
      <3> QED
        BY <2>1, <3>2, <3>3, <3>4
    <2> QED
      BY <2>5, <2>6, <2>8
  <1>18. TxnOK(q)'
    BY <1>13, <1>15, <1>16, <1>17, TxnOKIntro
  <1>19. RowOK(r, p[1], disturbed \cup u.marks)
    <2>1. CASE t.found = NoKey
      BY <1>6, <2>1 DEF RowOK, r
    <2>2. CASE t.found # NoKey
      <3>1. old.source = Cascade => t.seen.source = Cascade
        BY <1>2, <1>8, <2>2 DEF SeenOK
      <3> QED
        BY <1>10, <1>11, <2>2, <3>1 DEF RowOK, r
    <2> QED
      BY <2>1, <2>2
  <1>20. ASSUME old # NoRow
         PROVE  WriteOK(u, p[1], old, r)
    <2>1. t.found # NoKey
      BY <1>13, <1>20 DEF Fresh, View
    <2>2. r = updated
      BY <2>1 DEF r
    <2>3. IsRow(r)
      BY <1>12, TreeAssumption DEF IsRow
    <2>4. t.seen # old => <<p[1], old.contact>> \in u.marks
      BY <1>13, <1>20, MarksOf
    <2>5. t.seen = old => (old.active /\ old.source # Cascade => r.active)
      BY <1>10, <1>11, <2>1, <2>2
    <2>6. t.seen = old => \A x \in old.reasons : x \in r.reasons \/ x = own
      BY <1>9, <1>11, <2>1, <2>2
    <2>7. own.list = t.list /\ Dropped(u, own.source, old.contact)
      BY <1>1, <1>2, <1>13 DEF own, StepOK, Dropped, Sources
    <2> QED
      BY <1>11, <1>13, <2>1, <2>2, <2>3, <2>4, <2>5, <2>6, <2>7 DEF WriteOK
  <1> QED
    <2>1. \A x \in Id : x # u.found
      BY <1>13, TreeAssumption
    <2>2. /\ t.marks \subseteq u.marks /\ t.step # "idle" /\ t.locks \subseteq u.locks
          /\ u.absent \subseteq t.absent /\ \A l \in u.locks : l \in t.locks \/ ListFree(q, l)
      BY <1>1, <1>13
    <2>3. r \in Row \cup {NoRow} /\ (Fresh(p) \/ View(q)[p] # NoRow)
      BY <1>12, <1>13
    <2>4. u.writes = [txn[q].writes EXCEPT ![p] = r] /\ u.kind = t.kind /\ u.list = t.list /\ u.asked = t.asked
      BY <1>13
    <2> HIDE DEF old
    <2> QED
      BY <2>1, <2>2, <2>3, <2>4, <1>13, <1>18, <1>19, <1>20, SavedRow DEF old

\* A member is read with the list locked; what was said of its keys before is taken back.
LEMMA LoadMemberKeeps ==
    ASSUME IInv, NEW q \in Client, NEW o \in txn[q].todo, LoadMember(q, o)
    PROVE  IInv'
  <1> DEFINE t         == txn[q]
             bySource  == BySource(View(q), t.list, o.source)
             byContact == ByContact(View(q), t.list, o.contact)
             found     == IF byContact # NoKey THEN byContact ELSE bySource
             both      == bySource # NoKey /\ byContact # NoKey /\ bySource # byContact
             seen      == IF found = NoKey THEN NoRow ELSE View(q)[found]
             said      == {x \in t.said : x[1] # o.source /\ x[2] # o.contact}
             loaded    == [t EXCEPT !.step = "save", !.todo = @ \ {o}, !.object = o,
                                    !.found = found, !.seen = seen, !.said = said]
             lost      == Marks(t.list, View(q)[bySource], NoRow, NoRow)
             u         == txn'[q]
  <1>1. /\ t.step = "next" /\ UNCHANGED <<member, listed, disturbed>>
        /\ IF both
           THEN /\ RowFree(q, bySource)
                /\ txn' = [txn EXCEPT ![q] = [loaded EXCEPT !.writes[bySource] = NoRow,
                                                           !.marks = @ \cup lost]]
           ELSE txn' = [txn EXCEPT ![q] = loaded]
    BY DEF LoadMember
  <1>2. /\ t \in Txn /\ StepOK(t) /\ t.list \in List /\ SaidOK(t, disturbed \cup t.marks)
        /\ View(q) \in [Id -> Row \cup {NoRow}]
    BY ViewType DEF IInv, TypeOK, TxnInv, TxnOK, Txn
  <1>3. /\ t.kind \in {"upsert", "reconcile"} /\ t.absent = {} /\ o \in t.asked
        /\ t.asked \subseteq Payload /\ t.todo \subseteq t.asked /\ t.said \subseteq Known(t.asked)
    BY <1>2 DEF StepOK, Txn
  <1>4. o \in Object
    BY <1>2 DEF Txn
  <1>5. bySource # NoKey => /\ bySource \in Id /\ View(q)[bySource] # NoRow
                            /\ bySource[1] = t.list /\ View(q)[bySource].source = o.source
    BY BySourceRow
  <1>6. byContact # NoKey => /\ byContact \in Id /\ View(q)[byContact] # NoRow
                             /\ byContact[1] = t.list /\ View(q)[byContact].contact = o.contact
    BY ByContactRow
  <1> HIDE DEF bySource, byContact
  <1>7. found # NoKey =>
          /\ found \in Id /\ View(q)[found] # NoRow /\ found[1] = t.list
          /\ seen = View(q)[found] /\ seen \in Row
          /\ seen.contact = o.contact \/ seen.source = o.source
    BY <1>2, <1>5, <1>6
  <1>8. both => found # bySource /\ bySource \in Id
    BY <1>5
  <1>9. found \in Id \cup {NoKey} /\ seen \in Row \cup {NoRow} /\ said \in SUBSET (Source \X Contact)
    BY <1>2, <1>7 DEF Txn
  <1>10. both => lost \subseteq List \X Contact /\ <<t.list, View(q)[bySource].contact>> \in lost
    <2>1. both => View(q)[bySource] \in Row /\ View(q)[bySource] # NoRow
      BY <1>2, <1>5
    <2> QED
      BY <1>2, <2>1 DEF Marks, Row
  <1> HIDE DEF found, seen, said, lost
  <1>11. /\ loaded \in Txn /\ loaded.step = "save" /\ loaded.kind = t.kind /\ loaded.list = t.list
         /\ loaded.asked = t.asked /\ loaded.todo = t.todo \ {o} /\ loaded.object = o
         /\ loaded.found = found /\ loaded.seen = seen /\ loaded.said = said /\ loaded.absent = t.absent
         /\ loaded.locks = t.locks /\ loaded.writes = t.writes /\ loaded.marks = t.marks
    BY <1>2, <1>4, <1>9 DEF Txn
  <1> HIDE DEF loaded, both
  <1>12. /\ u \in Txn /\ u.step = "save" /\ u.kind = t.kind /\ u.list = t.list
         /\ u.asked = t.asked /\ u.todo = t.todo \ {o} /\ u.object = o
         /\ u.found = found /\ u.seen = seen /\ u.said = said /\ u.absent = {} /\ u.locks = t.locks
         /\ both => /\ u.writes = [t.writes EXCEPT ![bySource] = NoRow]
                    /\ u.marks = t.marks \cup lost
         /\ ~both => u.writes = t.writes /\ u.marks = t.marks
         /\ Moved(q) /\ TypeOK'
    <2>1. CASE both
      <3>1. [loaded EXCEPT !.writes[bySource] = NoRow, !.marks = @ \cup lost] \in Txn
        BY <1>8, <1>10, <1>11, <2>1 DEF Txn
      <3>2. txn' = [txn EXCEPT ![q] = [loaded EXCEPT !.writes[bySource] = NoRow, !.marks = @ \cup lost]]
        BY <1>1, <2>1
      <3>3. u = [loaded EXCEPT !.writes[bySource] = NoRow, !.marks = @ \cup lost]
        BY <3>2 DEF IInv, TypeOK
      <3>4. Moved(q) /\ TypeOK'
        BY <1>1, <3>1, <3>2 DEF Moved, IInv, TypeOK
      <3> QED
        BY <1>3, <1>11, <2>1, <3>1, <3>3, <3>4 DEF Txn
    <2>2. CASE ~both
      <3>1. txn' = [txn EXCEPT ![q] = loaded]
        BY <1>1, <2>2
      <3>2. u = loaded /\ Moved(q) /\ TypeOK'
        BY <1>1, <1>11, <3>1 DEF Moved, IInv, TypeOK
      <3> QED
        BY <1>3, <1>11, <2>2, <3>2
    <2> QED
      BY <2>1, <2>2
  <1>13. \A x \in Id : u.writes[x] = t.writes[x] \/ (both /\ x = bySource)
    BY <1>2, <1>8, <1>12 DEF Txn
  <1>14. StepOK(u)
    <2>1. u.said \subseteq Known(t.asked)
      BY <1>3, <1>12 DEF said
    <2> QED
      BY <1>3, <1>4, <1>12, <2>1 DEF StepOK, Cascading
  <1>15. FoundOK(u)
    <2>1. ASSUME found # NoKey, u.writes[found] # Clean
          PROVE  seen = u.writes[found]
      <3>1. u.writes[found] = t.writes[found]
        BY <1>7, <1>8, <1>13, <2>1
      <3> QED
        BY <1>7, <2>1, <3>1 DEF View
    <2> QED
      BY <1>3, <1>7, <1>12, <2>1 DEF FoundOK
  <1>16. SeenOK(q)' /\ AbsentOK(q)'
    <2>1. found # NoKey => View(q)'[found] = seen
      <3>1. found # NoKey => u.writes[found] = t.writes[found]
        BY <1>7, <1>8, <1>13
      <3> QED
        BY <1>7, <1>12, <3>1 DEF View, Moved
    <2> QED
      BY <1>12, <2>1 DEF SeenOK, AbsentOK
  <1>17. SaidOK(u, disturbed' \cup u.marks)
    <2> SUFFICES ASSUME NEW y \in said
                 PROVE  /\ \E i \in Slot : SaidRow(u, y, i)
                        /\ \A j \in DOMAIN Ancestors[t.list] :
                             \/ <<Ancestors[t.list][j], y[2]>> \in disturbed' \cup u.marks
                             \/ SaidAbove(u, y, Ancestors[t.list][j])
                        /\ y[1] # o.source /\ y[2] # o.contact
      BY <1>12 DEF SaidOK, Cascading
    <2>1. y \in t.said /\ y[1] # o.source /\ y[2] # o.contact
      BY DEF said
    <2>2. \E i \in Slot : SaidRow(u, y, i)
      <3>1. PICK i \in Slot : SaidRow(t, y, i)
        BY <1>2, <2>1 DEF SaidOK
      <3>2. <<t.list, i>> \in Id
        BY <1>2 DEF Id
      <3>3. View(q)[<<t.list, i>>] = t.writes[<<t.list, i>>] /\ t.writes[<<t.list, i>>].source = y[1]
        BY <3>1, <3>2 DEF SaidRow, IsRow, View
      <3>4. u.writes[<<t.list, i>>] = t.writes[<<t.list, i>>]
        BY <1>5, <1>13, <2>1, <3>2, <3>3 DEF both
      <3>5. SaidRow(u, y, i)
        BY <1>12, <3>1, <3>4 DEF SaidRow
      <3> QED
        BY <3>5
    <2>3. ASSUME NEW j \in DOMAIN Ancestors[t.list]
          PROVE  \/ <<Ancestors[t.list][j], y[2]>> \in disturbed' \cup u.marks
                 \/ SaidAbove(u, y, Ancestors[t.list][j])
      <3> DEFINE l == Ancestors[t.list][j]
      <3>1. <<l, y[2]>> \in disturbed \cup t.marks \/ SaidAbove(t, y, l)
        BY <1>1, <1>2, <2>1 DEF SaidOK, Pending, Cascading
      <3>2. l \in List /\ l # t.list
        BY <1>2, AncestorFacts
      <3> HIDE DEF l
      <3>3. \A i \in Slot : u.writes[<<l, i>>] = t.writes[<<l, i>>]
        BY <1>5, <1>13, <3>2 DEF Id, both
      <3>4. disturbed \cup t.marks \subseteq disturbed' \cup u.marks
        BY <1>12 DEF Moved
      <3>5. SaidAbove(t, y, l) => SaidAbove(u, y, l)
        BY <1>12, <3>3 DEF SaidAbove
      <3> QED
        BY <3>1, <3>4, <3>5 DEF l
    <2> QED
      BY <2>1, <2>2, <2>3
  <1>18. TxnOK(q)'
    BY <1>14, <1>15, <1>16, <1>17 DEF TxnOK
  <1>19. \A x \in Id : x = u.found => View(q)[x] # NoRow
    BY <1>7, <1>12, TreeAssumption
  <1>20. CASE both
    <2>1. WriteOK(u, bySource[1], View(q)[bySource], NoRow)
      BY <1>5, <1>10, <1>12, <1>20 DEF WriteOK, IsRow, both
    <2>2. t.marks \subseteq u.marks /\ RowFree(q, bySource) /\ bySource \in Id /\ View(q)[bySource] # NoRow
      BY <1>1, <1>5, <1>12, <1>20 DEF both
    <2>3. t.step # "idle" /\ u.locks = t.locks /\ u.absent \subseteq t.absent
      BY <1>1, <1>12
    <2>4. u.writes = [t.writes EXCEPT ![bySource] = NoRow]
      BY <1>12, <1>20
    <2> QED
      BY <1>12, <1>18, <1>19, <2>1, <2>2, <2>3, <2>4, SavedRow
  <1>21. CASE ~both
    <2>1. Later(t, u) /\ u.writes = t.writes /\ u.locks = t.locks /\ u.absent = {}
      BY <1>12, <1>21 DEF Later
    <2>2. u.list \in u.locks
      BY <1>1, <1>3, <1>12 DEF IInv, LockInv
    <2> QED
      BY <1>12, <1>18, <1>19, <2>1, <2>2, Stepped
  <1> QED
    BY <1>20, <1>21

\* A list above is locked and its row read, or passed when there is nothing to add.
LEMMA LoadAncestorKeeps ==
    ASSUME IInv, NEW q \in Client, LoadAncestor(q)
    PROVE  IInv'
  <1> DEFINE t     == txn[q]
             o     == t.object
             anc   == Ancestor(q)
             found == ByContact(View(q), anc, o.contact)
             seen  == IF found = NoKey THEN NoRow ELSE View(q)[found]
             skip  == found = NoKey /\ ~o.active
             v     == [t EXCEPT !.locks = @ \cup {anc}]
             u     == txn'[q]
  <1>1. /\ t.step = "up" /\ UNCHANGED <<member, listed, disturbed>>
        /\ IF skip
           THEN ListFree(q, anc) /\ txn' = [txn EXCEPT ![q] = Up(v, t.level + 1)]
           ELSE txn' = [txn EXCEPT ![q] = [t EXCEPT !.step = "keep", !.found = found, !.seen = seen]]
    BY DEF LoadAncestor
  <1>2. /\ t \in Txn /\ StepOK(t) /\ t.list \in List /\ SaidOK(t, disturbed \cup t.marks)
        /\ AbsentOK(q) /\ View(q) \in [Id -> Row \cup {NoRow}]
    BY ViewType DEF IInv, TypeOK, TxnInv, TxnOK, Txn
  <1>3. o \in Object /\ t.level \in DOMAIN Ancestors[t.list] /\ t.found = NoKey
    BY <1>1, <1>2 DEF StepOK, Cascading
  <1>4. anc = Ancestors[t.list][t.level] /\ anc \in List /\ t.level + 1 \in Nat \ {0}
    BY <1>2, <1>3, AncestorFacts DEF Ancestor
  <1>5. found # NoKey => /\ found \in Id /\ View(q)[found] # NoRow
                         /\ found[1] = anc /\ View(q)[found].contact = o.contact
    BY ByContactRow
  <1> HIDE DEF found
  <1>6. found # NoKey => seen = View(q)[found] /\ seen \in Row
    BY <1>2, <1>5
  <1>7. found \in Id \cup {NoKey} /\ seen \in Row \cup {NoRow}
    BY <1>5, <1>6
  <1>8. /\ v \in Txn /\ v.step = t.step /\ v.kind = t.kind /\ v.list = t.list /\ v.asked = t.asked
        /\ v.todo = t.todo /\ v.said = t.said /\ v.absent = t.absent /\ v.found = t.found
        /\ v.writes = t.writes /\ v.locks = t.locks \cup {anc} /\ v.marks = t.marks /\ v.object = o
    BY <1>2, <1>4 DEF Txn
  <1> HIDE DEF seen, skip, v, anc
  <1>9. /\ u \in Txn /\ u.kind = t.kind /\ u.list = t.list /\ u.asked = t.asked /\ u.todo = t.todo
        /\ u.said = t.said /\ u.absent = t.absent /\ u.writes = t.writes /\ u.marks = t.marks
        /\ u.object = o
        /\ skip => /\ u.step \in {"up", "next"} /\ u.level = t.level + 1 /\ u.found = NoKey
                   /\ u.step = "up" => u.level \in DOMAIN Ancestors[t.list]
                   /\ u.level \in DOMAIN Ancestors[t.list] => u.step = "up"
                   /\ u.locks = t.locks \cup {anc} /\ ListFree(q, anc)
        /\ ~skip => /\ u.step = "keep" /\ u.level = t.level /\ u.found = found /\ u.seen = seen
                    /\ u.locks = t.locks
        /\ Moved(q) /\ TypeOK'
    <2>1. CASE skip
      <3>1. u = Up(v, t.level + 1) /\ Moved(q)
        BY <1>1, <2>1 DEF Moved, IInv, TypeOK
      <3>2. u \in Txn
        BY <1>4, <1>8, <3>1, UpShape
      <3>3. TypeOK'
        BY <1>1, <2>1, <3>1, <3>2 DEF IInv, TypeOK
      <3> QED
        BY <1>1, <1>3, <1>4, <1>8, <2>1, <3>1, <3>3, UpShape
    <2>2. CASE ~skip
      <3> DEFINE w == [t EXCEPT !.step = "keep", !.found = found, !.seen = seen]
      <3>1. w \in Txn
        BY <1>2, <1>7 DEF Txn
      <3>2. u = w /\ Moved(q) /\ TypeOK'
        BY <1>1, <2>2, <3>1 DEF Moved, IInv, TypeOK
      <3> QED
        BY <1>2, <2>2, <3>1, <3>2 DEF Txn
    <2> QED
      BY <2>1, <2>2
  <1>10. StepOK(u)
    BY <1>1, <1>2, <1>3, <1>9 DEF StepOK, Cascading
  <1>11. View(q)' = View(q)
    BY <1>9, ViewKept
  <1>12. FoundOK(u)
    <2>1. CASE skip
      BY <1>9, <2>1 DEF FoundOK
    <2>2. CASE ~skip
      BY <1>4, <1>5, <1>6, <1>9, <2>2 DEF FoundOK, View
    <2> QED
      BY <2>1, <2>2
  <1>13. SeenOK(q)' /\ AbsentOK(q)'
    <2>1. u.found # NoKey => View(q)[u.found] = u.seen
      BY <1>6, <1>9
    <2> QED
      BY <1>2, <1>9, <1>11, <2>1 DEF SeenOK, AbsentOK, Sources
  <1>14. SaidOK(u, disturbed' \cup u.marks)
    <2>1. disturbed' = disturbed
      BY <1>1
    <2>2. \A y, i : SaidRow(t, y, i) => SaidRow(u, y, i)
      BY <1>9 DEF SaidRow
    <2>3. \A y, l : SaidAbove(t, y, l) => SaidAbove(u, y, l)
      BY <1>9 DEF SaidAbove
    <2>4. u.step # "save" /\ Cascading(t)
      BY <1>1, <1>9 DEF Cascading
    <2>5. ASSUME NEW y \in t.said, NEW j \in DOMAIN Ancestors[t.list], Pending(t, y, j)
          PROVE  Pending(u, y, j)
      <3>1. CASE ~skip
        BY <1>9, <2>5, <3>1 DEF Pending, Cascading
      <3>2. CASE skip
        BY <1>2, <2>4, <2>5, <3>2 DEF SaidOK, Pending, skip
      <3> QED
        BY <3>1, <3>2
    <2>6. ASSUME NEW y \in t.said
          PROVE  y[2] = o.contact => y[1] = o.source /\ o.active
      BY <1>2, <2>4 DEF SaidOK
    <2> QED
      BY <1>2, <1>9, <2>1, <2>2, <2>3, <2>4, <2>5, <2>6 DEF SaidOK
  <1>15. TxnOK(q)'
    BY <1>10, <1>12, <1>13, <1>14 DEF TxnOK
  <1> QED
    <2>1. Later(t, u)
      BY <1>9 DEF Later
    <2>2. \A x \in Id : x = u.found \/ x \in u.absent => x \in t.absent \/ View(q)[x] # NoRow
      BY <1>5, <1>9, TreeAssumption
    <2>3. \A l \in u.locks : l \in t.locks \/ ListFree(q, l)
      BY <1>9
    <2>4. u.step # "idle" /\ u.kind # "remove" => u.list \in u.locks
      BY <1>1, <1>9 DEF IInv, LockInv
    <2> QED
      BY <1>9, <1>15, <2>1, <2>2, <2>3, <2>4, Stepped

\* The active members the payload does not name are still to be removed.
LEMMA LoadAbsentKeeps ==
    ASSUME IInv, NEW q \in Client, LoadAbsent(q)
    PROVE  IInv'
  <1> DEFINE t      == txn[q]
             absent == {p \in Id : LET r == View(q)[p] IN
                          /\ r # NoRow
                          /\ p[1] = t.list /\ r.active /\ r.source \notin Sources(t)}
             u      == txn'[q]
  <1>1. /\ t.step = "next" /\ t.kind = "reconcile" /\ t.todo = {}
        /\ UNCHANGED <<member, listed, disturbed>>
        /\ txn' = [txn EXCEPT ![q] = [t EXCEPT !.kind = "drop", !.absent = absent]]
    BY DEF LoadAbsent
  <1>2. /\ t \in Txn /\ StepOK(t) /\ t.found = NoKey /\ SaidOK(t, disturbed \cup t.marks)
    BY <1>1 DEF IInv, TypeOK, TxnInv, TxnOK, StepOK
  <1>3. absent \in SUBSET Id
    OBVIOUS
  <1>4. \A x \in absent : x \in Id /\ x[1] = t.list /\ View(q)[x] # NoRow /\ View(q)[x].source \notin Sources(t)
    OBVIOUS
  <1> HIDE DEF absent
  <1>5. /\ u \in Txn /\ u.step = "next" /\ u.kind = "drop" /\ u.list = t.list /\ u.asked = t.asked
        /\ u.todo = {} /\ u.said = t.said /\ u.absent = absent /\ u.writes = t.writes
        /\ u.marks = t.marks /\ u.locks = t.locks /\ u.found = NoKey /\ u.object = t.object
        /\ Moved(q) /\ TypeOK'
    <2> DEFINE w == [t EXCEPT !.kind = "drop", !.absent = absent]
    <2>1. /\ w \in Txn /\ w.step = t.step /\ w.kind = "drop" /\ w.list = t.list /\ w.asked = t.asked
          /\ w.todo = t.todo /\ w.said = t.said /\ w.absent = absent /\ w.writes = t.writes
          /\ w.marks = t.marks /\ w.locks = t.locks /\ w.found = t.found /\ w.object = t.object
      BY <1>2, <1>3 DEF Txn
    <2>2. txn' = [txn EXCEPT ![q] = w]
      BY <1>1
    <2> HIDE DEF w
    <2>3. u = w /\ Moved(q) /\ TypeOK'
      BY <1>1, <2>1, <2>2 DEF Moved, IInv, TypeOK
    <2> QED
      BY <1>1, <1>2, <2>1, <2>3
  <1>6. StepOK(u)
    BY <1>1, <1>2, <1>4, <1>5 DEF StepOK, Cascading
  <1>7. View(q)' = View(q)
    BY <1>5, ViewKept
  <1>8. AbsentOK(q)'
    BY <1>4, <1>5, <1>7 DEF AbsentOK, Sources
  <1>9. SaidOK(u, disturbed' \cup u.marks)
    <2>1. disturbed' = disturbed /\ u.step = t.step
      BY <1>1, <1>5
    <2>2. \A y, i : SaidRow(t, y, i) => SaidRow(u, y, i)
      BY <1>5 DEF SaidRow
    <2>3. \A y, l : SaidAbove(t, y, l) => SaidAbove(u, y, l)
      BY <1>5 DEF SaidAbove
    <2> QED
      <3>1. ~Cascading(t) /\ ~Cascading(u) /\ u.step # "save"
        BY <1>1, <1>5 DEF Cascading
      <3>2. ASSUME NEW y \in t.said
            PROVE  /\ \E i \in Slot : SaidRow(u, y, i)
                   /\ \A j \in DOMAIN Ancestors[t.list] :
                        \/ <<Ancestors[t.list][j], y[2]>> \in disturbed' \cup u.marks
                        \/ SaidAbove(u, y, Ancestors[t.list][j])
        BY <1>2, <1>5, <2>1, <2>2, <2>3, <3>1 DEF SaidOK, Pending
      <3> QED
        BY <1>5, <3>1, <3>2 DEF SaidOK
  <1>10. TxnOK(q)'
    BY <1>5, <1>6, <1>8, <1>9, TxnOKIntro
  <1> QED
    <2>1. Later(t, u)
      BY <1>5 DEF Later
    <2>2. \A x \in Id : x = u.found \/ x \in u.absent => View(q)[x] # NoRow
      BY <1>4, <1>5, TreeAssumption
    <2>3. u.list \in u.locks
      BY <1>1, <1>5 DEF IInv, LockInv
    <2> QED
      BY <1>5, <1>10, <2>1, <2>2, <2>3, Stepped

\* What the commit of q makes of the committed rows and of its ghosts.
Committed(q) ==
    /\ txn[q].step = "next"
    /\ member' = View(q)
    /\ disturbed' = disturbed \cup txn[q].marks
    /\ txn'[q] = Idle
    /\ \A o \in Client \ {q} : txn'[o] = txn[o]

\* A commit of one client leaves what holds of another's transaction.
LEMMA CommitTxn ==
    ASSUME IInv, NEW q \in Client, Committed(q), NEW o \in Client \ {q}
    PROVE  TxnOK(o)'
  <1> DEFINE t == txn[o]
  <1>1. /\ member' = View(q) /\ disturbed' = disturbed \cup txn[q].marks /\ txn'[o] = t
        /\ txn[q].step = "next"
    BY DEF Committed
  <1>2. /\ StepOK(t) /\ FoundOK(t) /\ SaidOK(t, disturbed \cup t.marks) /\ SeenOK(o) /\ AbsentOK(o)
        /\ t \in Txn
    BY DEF IInv, TypeOK, TxnInv, TxnOK
  <1>3. SaidOK(t, disturbed' \cup t.marks)
    <2>1. disturbed \cup t.marks \subseteq disturbed' \cup t.marks
      BY <1>1
    <2> QED
      BY <1>2, <2>1 DEF SaidOK
  \* A row o knows of stays what it was, or q has changed it.
  <1>4. ASSUME NEW p \in Id, p = t.found \/ p \in t.absent
        PROVE  \/ View(o)'[p] = View(o)[p]
               \/ /\ member[p] # NoRow /\ View(o)[p] = member[p] /\ View(o)'[p] = txn[q].writes[p]
                  /\ View(o)'[p] # NoRow => IsRow(View(o)'[p])
                  /\ WriteOK(txn[q], p[1], member[p], View(o)'[p])
               \/ View(o)'[p] = NoRow
    <2>1. CASE t.writes[p] # Clean \/ txn[q].writes[p] = Clean
      BY <1>1, <2>1 DEF View
    <2>2. CASE t.writes[p] = Clean /\ txn[q].writes[p] # Clean
      <3>1. member[p] # NoRow
        BY <1>4, <2>2 DEF IInv, LockInv
      <3>2. View(o)[p] = member[p] /\ View(o)'[p] = txn[q].writes[p]
        BY <1>1, <2>2 DEF View
      <3>3. WriteOK(txn[q], p[1], member[p], txn[q].writes[p])
        BY <2>2, <3>1 DEF IInv, WriteInv
      <3> QED
        BY <2>2, <3>1, <3>2, <3>3 DEF IsRow
    <2> QED
      BY <2>1, <2>2
  <1>5. SeenOK(o)'
    <2> DEFINE p == t.found
               r == View(o)'[p]
    <2> SUFFICES ASSUME p # NoKey, r # NoRow
                 PROVE  /\ r.source = Cascade => t.seen.source = Cascade
                        /\ \/ r.contact = t.seen.contact
                           \/ <<p[1], t.seen.contact>> \in disturbed' \cup t.marks
      BY <1>1 DEF SeenOK
    <2>1. p \in Id
      BY <1>2 DEF Txn
    <2>2. CASE r = View(o)[p]
      BY <1>1, <1>2, <2>2 DEF SeenOK
    <2>3. CASE /\ member[p] # NoRow /\ View(o)[p] = member[p] /\ IsRow(r)
               /\ WriteOK(txn[q], p[1], member[p], r)
      <3>1. /\ member[p].source = Cascade => t.seen.source = Cascade
            /\ \/ member[p].contact = t.seen.contact
               \/ <<p[1], t.seen.contact>> \in disturbed \cup t.marks
        BY <1>2, <2>3 DEF SeenOK
      <3>2. r.source = Cascade => member[p].source = Cascade
        BY <2>3 DEF WriteOK
      <3>3. r.contact = member[p].contact \/ <<p[1], member[p].contact>> \in txn[q].marks
        BY <2>3 DEF WriteOK
      <3> QED
        BY <1>1, <3>1, <3>2, <3>3
    <2> QED
      BY <1>4, <2>1, <2>2, <2>3
  <1>6. AbsentOK(o)'
    <2> SUFFICES ASSUME NEW p \in t.absent, View(o)'[p] # NoRow
                 PROVE  View(o)'[p].source \notin Sources(t)
      BY <1>1 DEF AbsentOK, Sources
    <2>1. p \in Id /\ p[1] = t.list /\ t.kind = "drop" /\ t.step # "idle"
      BY <1>2 DEF Txn, StepOK, Idle
    <2>2. CASE View(o)'[p] = View(o)[p]
      BY <1>2, <2>2 DEF AbsentOK
    <2>3. CASE /\ member[p] # NoRow /\ View(o)[p] = member[p] /\ IsRow(View(o)'[p])
               /\ WriteOK(txn[q], p[1], member[p], View(o)'[p])
      <3>1. t.list \in t.locks /\ txn[q].locks \cap t.locks = {}
        BY <2>1 DEF IInv, LockInv
      <3>2. txn[q].kind # "remove" => txn[q].list \in txn[q].locks
        BY <1>1 DEF IInv, LockInv
      <3>3. View(o)'[p].source = member[p].source
        BY <2>1, <2>3, <3>1, <3>2 DEF WriteOK
      <3> QED
        BY <1>2, <2>3, <3>3 DEF AbsentOK
    <2> QED
      BY <1>4, <2>1, <2>2, <2>3
  <1> QED
    BY <1>1, <1>2, <1>3, <1>5, <1>6 DEF TxnOK

\* A commit leaves the others' writes, the locks and the rows in order.
LEMMA CommitWrites ==
    ASSUME IInv, NEW q \in Client, Committed(q)
    PROVE  WriteInv' /\ LockInv' /\ MemberInv'
  <1>1. /\ member' = View(q) /\ disturbed' = disturbed \cup txn[q].marks /\ txn'[q] = Idle
        /\ \A o \in Client \ {q} : txn'[o] = txn[o]
    BY DEF Committed
  <1>2. /\ Idle.step = "idle" /\ Idle.locks = {} /\ Idle.found = NoKey /\ Idle.absent = {}
        /\ \A p \in Id : Idle.writes[p] = Clean
    BY DEF Idle
  <1>3. ASSUME NEW o \in Client, NEW p \in Id, txn'[o].writes[p] # Clean
        PROVE  o # q /\ txn'[o] = txn[o] /\ member'[p] = member[p]
    <2>1. o # q /\ txn'[o] = txn[o]
      BY <1>1, <1>2, <1>3
    <2>2. txn[q].writes[p] = Clean
      BY <1>3, <2>1 DEF IInv, LockInv
    <2> QED
      BY <1>1, <2>1, <2>2 DEF View
  <1>4. WriteInv'
    <2> SUFFICES ASSUME NEW o \in Client, NEW p \in Id, txn'[o].writes[p] # Clean
                 PROVE  /\ txn'[o].writes[p] # NoRow =>
                             RowOK(txn'[o].writes[p], p[1], disturbed' \cup txn'[o].marks)
                        /\ member'[p] # NoRow =>
                             WriteOK(txn'[o], p[1], member'[p], txn'[o].writes[p])
      BY DEF WriteInv
    <2>1. o # q /\ txn'[o] = txn[o] /\ member'[p] = member[p]
      BY <1>3
    <2>2. /\ txn[o].writes[p] # NoRow => RowOK(txn[o].writes[p], p[1], disturbed \cup txn[o].marks)
          /\ member[p] # NoRow => WriteOK(txn[o], p[1], member[p], txn[o].writes[p])
      BY <2>1 DEF IInv, WriteInv
    <2>3. disturbed \cup txn[o].marks \subseteq disturbed' \cup txn[o].marks
      BY <1>1
    <2> QED
      BY <2>1, <2>2, <2>3, RowOKLater
  <1>5. LockInv'
    <2> SUFFICES ASSUME NEW o \in Client, NEW t \in Client, o # t
                 PROVE  /\ txn'[o].step # "idle" /\ txn'[o].kind # "remove" => txn'[o].list \in txn'[o].locks
                        /\ txn'[o].locks \cap txn'[t].locks = {}
                        /\ \A p \in Id : txn'[o].writes[p] # Clean =>
                             /\ txn'[t].writes[p] = Clean
                             /\ member'[p] = NoRow => p # txn'[t].found /\ p \notin txn'[t].absent
      <3>1. ASSUME NEW o \in Client
            PROVE  txn'[o].step # "idle" /\ txn'[o].kind # "remove" => txn'[o].list \in txn'[o].locks
        BY <1>1, <1>2 DEF IInv, LockInv
      <3> QED
        BY <3>1 DEF LockInv
    <2>1. CASE o = q
      BY <1>1, <1>2, <2>1
    <2>2. CASE t = q
      <3>1. \A p \in Id : p # NoKey
        BY TreeAssumption
      <3> QED
        BY <1>1, <1>2, <2>2, <3>1 DEF IInv, LockInv
    <2>3. CASE o # q /\ t # q
      BY <1>1, <1>3, <2>3 DEF IInv, LockInv
    <2> QED
      BY <2>1, <2>2, <2>3
  <1>6. MemberInv'
    <2> SUFFICES ASSUME NEW p \in Id, View(q)[p] # NoRow
                 PROVE  RowOK(View(q)[p], p[1], disturbed \cup txn[q].marks)
      BY <1>1 DEF MemberInv
    <2>1. CASE txn[q].writes[p] = Clean
      <3>1. View(q)[p] = member[p]
        BY <2>1 DEF View
      <3>2. RowOK(member[p], p[1], disturbed)
        BY <3>1 DEF IInv, MemberInv
      <3> QED
        BY <3>1, <3>2, RowOKLater
    <2>2. CASE txn[q].writes[p] # Clean
      <3>1. View(q)[p] = txn[q].writes[p]
        BY <2>2 DEF View
      <3> QED
        BY <2>2, <3>1 DEF IInv, WriteInv
    <2> QED
      BY <2>1, <2>2
  <1> QED
    BY <1>4, <1>5, <1>6

\* The rows that a transaction saw obey the constraints when they are committed.
LEMMA CommitUnique ==
    ASSUME IInv, NEW q \in Client, Committed(q)
    PROVE  UniqueInv'
  <1>1. /\ member' = View(q) /\ txn'[q] = Idle /\ \A o \in Client \ {q} : txn'[o] = txn[o]
    BY DEF Committed
  <1>2. \A p \in Id : Idle.writes[p] = Clean
    BY DEF Idle
  <1>3. \A x : ~Clash(x, Clean) /\ ~Clash(Clean, x)
    BY DEF Clash
  <1>4. \A x, y : Clash(x, y) => Clash(y, x)
    BY DEF Clash
  <1> SUFFICES ASSUME NEW l \in List, NEW i \in Slot, NEW j \in Slot, i # j
               PROVE  /\ ~Clash(member'[<<l, i>>], member'[<<l, j>>])
                      /\ \A o \in Client : ~Clash(View(o)'[<<l, i>>], View(o)'[<<l, j>>])
                      /\ \A o, t \in Client : o # t =>
                           ~Clash(txn'[o].writes[<<l, i>>], txn'[t].writes[<<l, j>>])
    BY DEF UniqueInv
  <1> DEFINE x == <<l, i>>
             y == <<l, j>>
  <1>5. x \in Id /\ y \in Id
    BY DEF Id
  <1>6. /\ \A o \in Client : ~Clash(View(o)[x], View(o)[y])
        /\ \A o, t \in Client : o # t => ~Clash(txn[o].writes[x], txn[t].writes[y])
        /\ \A o, t \in Client : o # t => ~Clash(txn[o].writes[y], txn[t].writes[x])
    BY DEF IInv, UniqueInv
  <1> HIDE DEF x, y
  <1>7. ~Clash(member'[x], member'[y])
    BY <1>1, <1>6
  <1>8. \A o, t \in Client : o # t => ~Clash(txn'[o].writes[x], txn'[t].writes[y])
    BY <1>1, <1>2, <1>3, <1>5, <1>6
  <1>9. ASSUME NEW o \in Client
        PROVE  ~Clash(View(o)'[x], View(o)'[y])
    <2>1. CASE o = q
      BY <1>1, <1>2, <1>5, <1>7, <2>1 DEF View
    <2>2. CASE o # q
      <3>1. \A z \in {x, y} : \/ txn[o].writes[z] # Clean /\ View(o)'[z] = txn[o].writes[z]
                                  /\ View(o)[z] = txn[o].writes[z]
                              \/ txn[o].writes[z] = Clean /\ View(o)'[z] = View(q)[z]
                                  /\ View(o)[z] = member[z]
        BY <1>1, <1>5, <2>2 DEF View
      <3>2. \A z \in {x, y} : \/ View(q)[z] = txn[q].writes[z]
                              \/ View(q)[z] = member[z]
        BY <1>5 DEF View
      <3> QED
        BY <1>4, <1>6, <2>2, <3>1, <3>2
    <2> QED
      BY <2>1, <2>2
  <1> QED
    BY <1>7, <1>8, <1>9 DEF x, y

\* What a listed entry has to show in a list.
LEMMA CommitListed ==
    ASSUME IInv, NEW q \in Client, Committed(q), listed' = ListedAfter(txn[q])
    PROVE  ReasonInv' /\ ListedIsActive'
  <1> DEFINE t == txn[q]
  <1>1. /\ member' = View(q) /\ disturbed' = disturbed \cup t.marks /\ t.step = "next"
    BY DEF Committed
  <1>2. /\ t \in Txn /\ t.list \in List /\ SaidOK(t, disturbed \cup t.marks) /\ member \in [Id -> Row \cup {NoRow}]
        /\ listed \subseteq List \X Source \X Contact
    BY DEF IInv, TypeOK, TxnInv, TxnOK, Txn
  <1>3. ASSUME NEW x \in listed', <<t.list, x[2], x[3]>> # x \/ <<x[2], x[3]>> \notin t.said
        PROVE  x \in listed /\ ~(x[1] = t.list /\ Dropped(t, x[2], x[3]))
    BY <1>2, <1>3 DEF ListedAfter, Dropped, Sources, Txn
  <1>4. ASSUME NEW x \in listed', x = <<t.list, x[2], x[3]>>, <<x[2], x[3]>> \in t.said
        PROVE  /\ \E i \in Slot : SaidRow(t, <<x[2], x[3]>>, i)
               /\ \A j \in DOMAIN Ancestors[t.list] :
                    \/ <<Ancestors[t.list][j], x[3]>> \in disturbed'
                    \/ SaidAbove(t, <<x[2], x[3]>>, Ancestors[t.list][j])
    BY <1>1, <1>2, <1>4 DEF SaidOK, Pending, Cascading
  \* What becomes of a committed row.
  <1>5. ASSUME NEW p \in Id, member[p] # NoRow
        PROVE  WriteOK(t, p[1], member[p], View(q)[p]) /\ View(q)[p] # Clean
    <2>1. View(q)[p] # Clean
      BY ViewType, TreeAssumption DEF IInv
    <2> QED
      BY <1>5, <2>1, ViewWriteOK DEF IInv
  <1>6. ReasonInv'
    <2> SUFFICES ASSUME NEW x \in listed', NEW l \in Above(x[1]), <<l, x[3]>> \notin disturbed'
                 PROVE  \E i \in Slot : LET r == View(q)[<<l, i>>] IN
                           Member(r, x[3]) /\ [list |-> x[1], source |-> x[2]] \in r.reasons
      BY <1>1 DEF ReasonInv, Above
    <2>1. CASE x = <<t.list, x[2], x[3]>> /\ <<x[2], x[3]>> \in t.said
      <3>1. x[1] = t.list
        BY <2>1
      <3>2. PICK j \in DOMAIN Ancestors[t.list] : l = Ancestors[t.list][j]
        BY <3>1 DEF Above
      <3>3. l \in List
        BY <1>2, <3>2, AncestorFacts
      <3>4. SaidAbove(t, <<x[2], x[3]>>, l)
        BY <1>4, <2>1, <3>2
      <3>5. PICK i \in Slot : LET r == t.writes[<<l, i>>] IN
              IsRow(r) /\ r.contact = x[3] /\ [list |-> t.list, source |-> x[2]] \in r.reasons
        BY <3>4 DEF SaidAbove
      <3>6. View(q)[<<l, i>>] = t.writes[<<l, i>>]
        BY <3>3, <3>5 DEF View, IsRow, Id
      <3> QED
        BY <3>1, <3>5, <3>6 DEF Member, IsRow
    <2>2. CASE ~(x = <<t.list, x[2], x[3]>> /\ <<x[2], x[3]>> \in t.said)
      <3>1. x \in listed /\ ~(x[1] = t.list /\ Dropped(t, x[2], x[3]))
        BY <1>3, <2>2
      <3>2. PICK i \in Slot : LET r == member[<<l, i>>] IN
              Member(r, x[3]) /\ [list |-> x[1], source |-> x[2]] \in r.reasons
        BY <1>1, <3>1 DEF IInv, ReasonInv
      <3>3. x[1] \in List
        BY <1>2, <3>1
      <3>4. l \in List
        BY <3>3, AncestorFacts DEF Above
      <3>5. <<l, i>> \in Id /\ <<l, i>>[1] = l
        BY <3>4 DEF Id
      <3>6. WriteOK(t, l, member[<<l, i>>], View(q)[<<l, i>>]) /\ View(q)[<<l, i>>] # Clean
        BY <1>5, <3>2, <3>5 DEF Member
      <3>7. <<l, x[3]>> \notin t.marks
        BY <1>1
      <3>8. /\ View(q)[<<l, i>>] # NoRow /\ View(q)[<<l, i>>].contact = x[3]
            /\ [list |-> x[1], source |-> x[2]] \in View(q)[<<l, i>>].reasons
        BY <3>1, <3>2, <3>6, <3>7 DEF WriteOK, Member, IsRow
      <3> QED
        BY <3>8 DEF Member
    <2> QED
      BY <2>1, <2>2
  <1>7. ListedIsActive'
    <2> SUFFICES ASSUME NEW x \in listed', <<x[1], x[3]>> \notin disturbed'
                 PROVE  \E i \in Slot : LET r == View(q)[<<x[1], i>>] IN
                           Member(r, x[3]) /\ r.source = x[2] /\ r.active
      BY <1>1 DEF ListedIsActive
    <2>1. CASE x = <<t.list, x[2], x[3]>> /\ <<x[2], x[3]>> \in t.said
      <3>1. x[1] = t.list
        BY <2>1
      <3>2. PICK i \in Slot : SaidRow(t, <<x[2], x[3]>>, i)
        BY <1>4, <2>1
      <3>3. View(q)[<<t.list, i>>] = t.writes[<<t.list, i>>]
        BY <1>2, <3>2 DEF SaidRow, View, IsRow, Id
      <3> QED
        BY <3>1, <3>2, <3>3 DEF SaidRow, Member, IsRow
    <2>2. CASE ~(x = <<t.list, x[2], x[3]>> /\ <<x[2], x[3]>> \in t.said)
      <3>1. x \in listed /\ ~(x[1] = t.list /\ Dropped(t, x[2], x[3]))
        BY <1>3, <2>2
      <3>2. PICK i \in Slot : LET r == member[<<x[1], i>>] IN
              Member(r, x[3]) /\ r.source = x[2] /\ r.active
        BY <1>1, <3>1 DEF IInv, ListedIsActive
      <3>3. x[1] \in List /\ x[2] \in Source /\ x[2] # Cascade
        BY <1>2, <3>1, TreeAssumption
      <3>4. <<x[1], i>> \in Id
        BY <3>3 DEF Id
      <3>5. WriteOK(t, x[1], member[<<x[1], i>>], View(q)[<<x[1], i>>]) /\ View(q)[<<x[1], i>>] # Clean
        BY <1>5, <3>2, <3>4 DEF Member
      <3>6. <<x[1], x[3]>> \notin t.marks
        BY <1>1
      <3>7. /\ View(q)[<<x[1], i>>] # NoRow /\ View(q)[<<x[1], i>>].contact = x[3]
            /\ View(q)[<<x[1], i>>].source = x[2] /\ View(q)[<<x[1], i>>].active
        BY <3>1, <3>2, <3>3, <3>5, <3>6 DEF WriteOK, Member, IsRow
      <3> QED
        BY <3>7 DEF Member
    <2> QED
      BY <2>1, <2>2
  <1> QED
    BY <1>6, <1>7

\* A commit keeps the invariant.
LEMMA CommitKeeps ==
    ASSUME IInv, NEW q \in Client, Commit(q)
    PROVE  IInv'
  <1>1. Committed(q) /\ listed' = ListedAfter(txn[q])
    BY DEF Commit, Committed, IInv, TypeOK
  <1>2. TypeOK'
    <2>1. View(q) \in [Id -> Row \cup {NoRow}]
      BY ViewType DEF IInv
    <2>2. txn[q] \in Txn
      BY DEF IInv, TypeOK
    <2>3. txn[q].marks \subseteq List \X Contact /\ ListedAfter(txn[q]) \subseteq List \X Source \X Contact
      BY <2>2 DEF Txn, ListedAfter, IInv, TypeOK
    <2>4. txn' \in [Client -> Txn]
      BY IdleType DEF Commit, IInv, TypeOK
    <2> QED
      BY <1>1, <2>1, <2>3, <2>4 DEF Committed, IInv, TypeOK
  <1>3. TxnInv'
    <2>1. TxnOK(q)'
      BY <1>1, IdleOK DEF Committed
    <2> QED
      BY <1>1, <2>1, CommitTxn DEF TxnInv
  <1> QED
    BY <1>1, <1>2, <1>3, CommitWrites, CommitUnique, CommitListed DEF IInv

\* No list has a member and no request is open.
LEMMA IInvInit == Init => IInv
  <1> SUFFICES ASSUME Init PROVE IInv
    OBVIOUS
  <1>1. /\ \A q \in Client : txn[q] = Idle
        /\ \A p \in Id : member[p] = NoRow
        /\ listed = {} /\ disturbed = {}
    BY DEF Init
  <1>2. TypeOK
    <2>1. [p \in Id |-> NoRow] \in [Id -> Row \cup {NoRow}]
      OBVIOUS
    <2>2. [q \in Client |-> Idle] \in [Client -> Txn]
      BY IdleType
    <2> QED
      BY <2>1, <2>2 DEF Init, TypeOK
  <1>3. /\ Idle.step = "idle" /\ Idle.kind = "upsert" /\ Idle.found = NoKey /\ Idle.locks = {}
        /\ Idle.said = {} /\ Idle.absent = {} /\ Idle.asked = {} /\ Idle.todo = {}
        /\ \A p \in Id : Idle.writes[p] = Clean
    BY DEF Idle
  <1>4. TxnInv
    <2> SUFFICES ASSUME NEW q \in Client PROVE TxnOK(q)
      BY DEF TxnInv
    <2>1. StepOK(Idle)
      BY <1>3 DEF StepOK, Cascading
    <2>2. FoundOK(Idle) /\ SaidOK(Idle, disturbed \cup Idle.marks)
      BY <1>3 DEF FoundOK, SaidOK
    <2>3. SeenOK(q) /\ AbsentOK(q)
      BY <1>1, <1>3 DEF SeenOK, AbsentOK
    <2> QED
      BY <1>1, <2>1, <2>2, <2>3 DEF TxnOK
  <1>5. WriteInv /\ MemberInv /\ ReasonInv /\ ListedIsActive
    BY <1>1, <1>3 DEF WriteInv, MemberInv, ReasonInv, ListedIsActive
  <1>6. LockInv
    BY <1>1, <1>3 DEF LockInv
  <1>7. UniqueInv
    <2>1. \A q \in Client, p \in Id : View(q)[p] = NoRow
      BY <1>1, <1>3 DEF View
    <2>3. \A l \in List, i \in Slot : <<l, i>> \in Id
      BY DEF Id
    <2> SUFFICES ASSUME NEW l \in List, NEW i \in Slot, NEW j \in Slot
                 PROVE  /\ ~Clash(member[<<l, i>>], member[<<l, j>>])
                        /\ \A q \in Client : ~Clash(View(q)[<<l, i>>], View(q)[<<l, j>>])
                        /\ \A q, o \in Client : ~Clash(txn[q].writes[<<l, i>>], txn[o].writes[<<l, j>>])
      BY DEF UniqueInv
    <2>4. member[<<l, j>>] = NoRow /\ \A q \in Client : View(q)[<<l, j>>] = NoRow
      BY <1>1, <2>1, <2>3
    <2>5. \A q \in Client : txn[q].writes[<<l, j>>] = Clean
      BY <1>1, <1>3, <2>3
    <2>6. ~Clash(member[<<l, i>>], member[<<l, j>>])
      BY <2>4 DEF Clash
    <2>7. \A q \in Client : ~Clash(View(q)[<<l, i>>], View(q)[<<l, j>>])
      BY <2>4 DEF Clash
    <2>8. \A q, o \in Client : ~Clash(txn[q].writes[<<l, i>>], txn[o].writes[<<l, j>>])
      BY <2>5 DEF Clash
    <2> QED
      BY <2>6, <2>7, <2>8
  <1> QED
    BY <1>2, <1>4, <1>5, <1>6, <1>7 DEF IInv

\* A step that changes nothing keeps the invariant.
LEMMA IInvStutters ==
    ASSUME IInv, UNCHANGED vars
    PROVE  IInv'
  <1>1. member' = member /\ txn' = txn /\ listed' = listed /\ disturbed' = disturbed
    BY DEF vars
  <1>2. \A q \in Client : View(q)' = View(q)
    BY <1>1 DEF View
  <1>3. TypeOK'
    BY <1>1 DEF IInv, TypeOK
  <1>7. WriteInv'
    BY <1>1 DEF IInv, WriteInv
  <1>8. LockInv'
    BY <1>1 DEF IInv, LockInv
  <1>4. TxnInv'
    BY <1>1, TxnKept DEF IInv, TxnInv
  <1>5. UniqueInv'
    BY <1>1, <1>2 DEF IInv, UniqueInv
  <1>6. MemberInv' /\ ReasonInv' /\ ListedIsActive'
    BY <1>1 DEF IInv, MemberInv, ReasonInv, ListedIsActive
  <1> QED
    BY <1>3, <1>4, <1>5, <1>6, <1>7, <1>8 DEF IInv

\* Every step keeps the invariant: one case per action.
LEMMA IInvNext == IInv /\ [Next]_vars => IInv'
  <1> SUFFICES ASSUME IInv, [Next]_vars PROVE IInv'
    OBVIOUS
  <1>1. ASSUME NEW q \in Client, Request(q) PROVE IInv'
    BY <1>1, BeginUpsertKeeps, BeginRemoveKeeps, RemoveNothingKeeps DEF Request
  <1>2. ASSUME NEW q \in Client, NEW o \in txn[q].todo, LoadMember(q, o) PROVE IInv'
    BY <1>2, LoadMemberKeeps
  <1>3. ASSUME NEW q \in Client, LoadAncestor(q) PROVE IInv'
    BY <1>3, LoadAncestorKeeps
  <1>4. ASSUME NEW q \in Client, NEW p \in Id, Save(q, p) PROVE IInv'
    BY <1>4, SaveMemberKeeps, SaveRemovedKeeps, SaveAncestorKeeps, DropKeeps DEF Save
  <1>5. ASSUME NEW q \in Client, LoadAbsent(q) PROVE IInv'
    BY <1>5, LoadAbsentKeeps
  <1>6. ASSUME NEW q \in Client, Commit(q) PROVE IInv'
    BY <1>6, CommitKeeps
  <1>7. ASSUME NEW q \in Client, Abort(q) PROVE IInv'
    BY <1>7, AbortKeeps
  <1>8. CASE UNCHANGED vars
    BY <1>8, IInvStutters
  <1> QED
    BY <1>1, <1>2, <1>3, <1>4, <1>5, <1>6, <1>7, <1>8 DEF Next

\* Whatever requests interleave on whatever tree, the inductive invariant holds
\* (lists_api.py and the recipient list services write without reading again).
THEOREM TreeInvariant == Spec => []IInv
  BY IInvInit, IInvNext, PTL DEF Spec

\* The rows, the open transactions and what was listed keep their types.
THEOREM TreeTypeCorrect == Spec => []TypeOK
  <1>1. IInv => TypeOK
    BY DEF IInv
  <1> QED
    BY <1>1, TreeInvariant, PTL

\* A contact that a finished request listed stays active in the list, under its
\* source key, with the same exceptions.
THEOREM ListedMembersActive == Spec => []ListedIsActive
  <1>1. IInv => ListedIsActive
    BY DEF IInv
  <1> QED
    BY <1>1, TreeInvariant, PTL

\* A row that a cascade put in a list above is active only while a list below it
\* gives a reason, and a reason makes a row active.
THEOREM CascadeMembersNeedReasons == Spec => []CascadeNeedsReason
  <1>1. IInv => CascadeNeedsReason
    BY DEF IInv, MemberInv, RowOK, CascadeNeedsReason
  <1> QED
    BY <1>1, TreeInvariant, PTL

\* A contact that a finished request listed is an active member of every list
\* above, unless its row there was given away or overwritten.
THEOREM AncestorsStayCurrent == Spec => []AncestorsCurrent
  <1>1. IInv => AncestorsCurrent
    <2> SUFFICES ASSUME IInv, NEW x \in listed, NEW l \in Above(x[1]), <<l, x[3]>> \notin disturbed
                 PROVE  ActiveIn(l, x[3])
      BY DEF AncestorsCurrent
    <2>1. PICK i \in Slot : LET r == member[<<l, i>>] IN
            Member(r, x[3]) /\ [list |-> x[1], source |-> x[2]] \in r.reasons
      BY DEF IInv, ReasonInv
    <2>2. l \in List
      <3>1. x[1] \in List
        BY DEF IInv, TypeOK
      <3> QED
        BY <3>1, AncestorFacts DEF Above
    <2>3. RowOK(member[<<l, i>>], l, disturbed)
      BY <2>1, <2>2 DEF IInv, MemberInv, Member, Id
    <2>4. member[<<l, i>>].active
      BY <2>1, <2>3 DEF RowOK, Member
    <2> QED
      BY <2>1, <2>4 DEF ActiveIn
  <1> QED
    BY <1>1, TreeInvariant, PTL

\* Both unique constraints of a list's members (models.py: one row per contact
\* and one per source key), whichever rows the requests lock.
THEOREM MembersStayUnique ==
    Spec => [](\A l \in List : \A i, j \in Slot : i # j =>
                 ~Clash(member[<<l, i>>], member[<<l, j>>]))
  <1>1. IInv => \A l \in List : \A i, j \in Slot : i # j =>
                  ~Clash(member[<<l, i>>], member[<<l, j>>])
    BY DEF IInv, UniqueInv
  <1> QED
    BY <1>1, TreeInvariant, PTL

=============================================================================

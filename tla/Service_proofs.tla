---------------------------- MODULE Service_proofs ----------------------------
(***************************************************************************)
(* A client and its keys, for any number of requests, and the pages of an  *)
(* answer, for any number of rows and any limit; then the five components  *)
(* of the service together, with what ContactState_proofs and              *)
(* Campaign_proofs prove of the others.                                    *)
(***************************************************************************)
EXTENDS MCService, ContactState_proofs, Campaign_proofs

-----------------------------------------------------------------------------
(* A client, its keys and its senders.                                     *)

\* Keys and callers there are only of a client that exists.
ClientThere ==
    acClient = NoClient =>
        /\ \A k \in Key : acKey[k] = "none"
        /\ \A c \in Requester : acAt[c] = Idle
        /\ acTemplate = NoTemplate

\* The default is one of the senders, if there are any.
Fits(row) == row.senders # {} => row.default \in row.senders

PairsFit ==
    /\ acClient # NoClient /\ ~ acTorn => Fits(acClient)
    /\ \A c \in Requester : acAt[c].step = "save" => Fits(acAt[c].form)

\* The template's sender, and those a request may still give it, are the client's
\* or were dropped since.
TemplateFits ==
    /\ acTemplate \notin {NoTemplate, NoSender} => acTemplate \in acLost \cup acClient.senders
    /\ \A c \in Requester :
         acAt[c].step \in {"touch", "serve"} /\ acAt[c].does = "template" =>
             acAt[c].senders \subseteq acClient.senders \cup acAt[c].lost

AcIInv == AcTypeOK /\ ClientThere /\ PairsFit /\ TemplateFits

\* The invariant holds before a client is provisioned.
LEMMA AcInitially == AcInit => AcIInv
  <1> SUFFICES ASSUME AcInit PROVE AcIInv
    OBVIOUS
  <1>1. AcTypeOK
    BY DEF AcInit, AcTypeOK
  <1>2. ClientThere
    BY DEF AcInit, ClientThere
  <1>3. PairsFit /\ TemplateFits
    BY DEF AcInit, PairsFit, TemplateFits, Idle
  <1> QED
    BY <1>1, <1>2, <1>3 DEF AcIInv

-----------------------------------------------------------------------------
\* Whoever writes the client's row: types are kept, and what the template and the
\* callers name is the client's or noted as dropped.
LEMMA WriteKeeps ==
  ASSUME AcIInv, NEW row \in ClientRow, NEW at \in [Requester -> LetIn \cup Saving \cup {Idle}],
         \A c \in Requester : at[c] = acAt[c] \/ at[c] = Idle,
         WriteClient(row, at), UNCHANGED <<acKey, acTemplate>>
  PROVE  /\ acClient' = row
         /\ acKey' = acKey /\ acTemplate' = acTemplate
         /\ acAt' \in [Requester -> LetIn \cup Saving \cup {Idle}]
         /\ acLost' \subseteq Sender
         /\ \A c \in Requester : acAt'[c].step = "save" => acAt'[c] = acAt[c]
         /\ TemplateFits'
  <1> USE DEF AcIInv, AcTypeOK, Idle
  <1> DEFINE dropped == IF acClient = NoClient THEN {} ELSE acClient.senders \ row.senders
  <1>1. /\ acClient' = row /\ acLost' = acLost \cup dropped
        /\ acAt' = [c \in Requester |->
                      IF at[c].step \in {"touch", "serve"} /\ at[c].does = "template"
                      THEN [at[c] EXCEPT !.lost = @ \cup dropped] ELSE at[c]]
    BY DEF WriteClient
  <1>2. dropped \subseteq Sender
    BY DEF ClientRow
  <1>3. ASSUME NEW c \in Requester
        PROVE  /\ acAt'[c] \in LetIn \cup Saving \cup {Idle}
               /\ acAt'[c].step = "save" => acAt'[c] = acAt[c]
               /\ acAt'[c].step \in {"touch", "serve"} /\ acAt'[c].does = "template" =>
                    acAt'[c].senders \subseteq row.senders \cup acAt'[c].lost
    <2>1. CASE at[c] = Idle
      BY <1>1, <2>1
    <2>2. CASE at[c] = acAt[c] /\ at[c] \in LetIn /\ at[c].does = "template"
      <3>1. acAt'[c] = [at[c] EXCEPT !.lost = @ \cup dropped]
        BY <1>1, <2>2 DEF LetIn
      <3>2. acAt[c].senders \subseteq acClient.senders \cup acAt[c].lost /\ acClient # NoClient
        BY <2>2 DEF TemplateFits, ClientThere, LetIn
      <3> QED
        BY <1>2, <2>2, <3>1, <3>2 DEF LetIn
    <2>3. CASE at[c] = acAt[c] /\ ~ (at[c] \in LetIn /\ at[c].does = "template")
      BY <1>1, <2>3 DEF LetIn, Saving
    <2> QED
      BY <2>1, <2>2, <2>3
  <1>4. acTemplate \notin {NoTemplate, NoSender} => acTemplate \in acLost' \cup row.senders
    BY <1>1 DEF TemplateFits, ClientThere
  <1>5. acAt' \in [Requester -> LetIn \cup Saving \cup {Idle}]
    BY <1>1, <1>3
  <1> QED
    BY <1>1, <1>2, <1>3, <1>4, <1>5 DEF TemplateFits

\* The step of every writer of the client's row, whose senders fit unless it
\* leaves them torn.
LEMMA WriteStep ==
  ASSUME AcIInv, NEW row \in ClientRow, NEW at \in [Requester -> LetIn \cup Saving \cup {Idle}],
         \A c \in Requester : at[c] = acAt[c] \/ at[c] = Idle,
         WriteClient(row, at), UNCHANGED <<acKey, acTemplate>>,
         acTorn' \in BOOLEAN, ~ acTorn' => Fits(row)
  PROVE  AcIInv'
  <1>1. /\ acClient' = row
        /\ acKey' = acKey /\ acTemplate' = acTemplate
        /\ acAt' \in [Requester -> LetIn \cup Saving \cup {Idle}]
        /\ acLost' \subseteq Sender
        /\ \A c \in Requester : acAt'[c].step = "save" => acAt'[c] = acAt[c]
        /\ TemplateFits'
    BY WriteKeeps
  <1>2. AcTypeOK'
    BY <1>1 DEF AcIInv, AcTypeOK
  <1>3. row # NoClient
    BY DEF ClientRow, NoClient
  <1>4. ClientThere' /\ PairsFit'
    BY <1>1, <1>3 DEF AcIInv, ClientThere, PairsFit, Fits
  <1> QED
    BY <1>1, <1>2, <1>4 DEF AcIInv

\* Every request, form and command keeps the invariant.
LEMMA AcStep == AcIInv /\ [AcNext]_acVars => AcIInv'
  <1> SUFFICES ASSUME AcIInv, [AcNext]_acVars PROVE AcIInv'
    OBVIOUS
  <1> USE AccessAssumption
  <1>1. /\ acAt \in [Requester -> LetIn \cup Saving \cup {Idle}]
        /\ acClient \in ClientRow \cup {NoClient} /\ acTorn \in BOOLEAN
    BY DEF AcIInv, AcTypeOK
  <1>2. ASSUME NEW s \in FormSenders, SetSenders(s) PROVE AcIInv'
    <2>1. With(acClient, s) \in ClientRow /\ Fits(With(acClient, s))
      BY <1>1, <1>2 DEF SetSenders, With, ClientRow, FormSenders, Senders, Fits
    <2> QED
      BY <1>1, <1>2, <2>1, WriteStep DEF SetSenders
  <1>3. CASE Provision
    <2> DEFINE row == IF acClient = NoClient
                      THEN [senders |-> {}, default |-> NoSender, active |-> TRUE]
                      ELSE [acClient EXCEPT !.active = TRUE]
    <2>1. row \in ClientRow /\ (~ acTorn => Fits(row))
      <3>1. CASE acClient = NoClient
        BY <3>1 DEF ClientRow, Fits
      <3>2. CASE acClient # NoClient
        BY <1>1, <3>2 DEF ClientRow, Fits, AcIInv, PairsFit
      <3> QED
        BY <3>1, <3>2
    <2>2. WriteClient(row, acAt) /\ UNCHANGED <<acKey, acTemplate, acTorn>>
      BY <1>3 DEF Provision
    <2> HIDE DEF row
    <2> QED
      BY <1>1, <2>1, <2>2, WriteStep
  <1>4. ASSUME NEW s \in FormSenders, NEW active \in BOOLEAN, CreateClient(s, active)
        PROVE  AcIInv'
    <2>1. Form(s, active) \in ClientRow /\ Fits(Form(s, active))
      BY DEF Form, ClientRow, FormSenders, Senders, Fits
    <2> QED
      BY <1>1, <1>4, <2>1, WriteStep DEF CreateClient
  <1>5. ASSUME NEW c \in Requester, SaveForm(c) PROVE AcIInv'
    <2> DEFINE form == acAt[c].form
               columns == acAt[c].columns
               row == [senders |-> IF "senders" \in columns THEN form.senders ELSE acClient.senders,
                       default |-> IF "default" \in columns THEN form.default ELSE acClient.default,
                       active |-> IF "active" \in columns THEN form.active ELSE acClient.active]
               at == [acAt EXCEPT ![c] = Idle]
    <2>1. /\ acAt[c].step = "save" /\ WriteClient(row, at) /\ UNCHANGED <<acKey, acTemplate>>
          /\ acTorn' = IF columns \subseteq {"active"} THEN acTorn
                       ELSE row.senders # form.senders \/ row.default # form.default
      BY <1>5 DEF SaveForm
    <2>2. acClient \in ClientRow /\ form \in ClientRow /\ columns \subseteq Column
      BY <1>1, <2>1 DEF AcIInv, ClientThere, LetIn, Saving, Idle
    <2>3. row \in ClientRow
      BY <2>2 DEF ClientRow
    <2>4. at \in [Requester -> LetIn \cup Saving \cup {Idle}]
          /\ \A o \in Requester : at[o] = acAt[o] \/ at[o] = Idle
      BY <1>1
    <2>5. Fits(form) /\ (~ acTorn => Fits(acClient))
      BY <2>1, <2>2 DEF AcIInv, PairsFit, ClientRow, NoClient
    <2>6. ~ acTorn' => Fits(row)
      BY <2>1, <2>5 DEF Fits
    <2>7. acTorn' \in BOOLEAN
      BY <1>1, <2>1
    <2> HIDE DEF row, at
    <2> QED
      BY <2>1, <2>3, <2>4, <2>6, <2>7, WriteStep
  <1>6. ASSUME NEW c \in Requester, NEW s \in PolicySenders, PutSenders(c, s) PROVE AcIInv'
    <2>1. acClient \in ClientRow
      BY <1>1, <1>6 DEF PutSenders, Serving, AcIInv, ClientThere, Idle
    <2>2. With(acClient, s) \in ClientRow /\ Fits(With(acClient, s))
      BY <2>1 DEF With, ClientRow, PolicySenders, FormSenders, Senders, Fits
    <2>3. [acAt EXCEPT ![c] = Idle] \in [Requester -> LetIn \cup Saving \cup {Idle}]
      BY <1>1
    <2> QED
      BY <1>1, <1>6, <2>2, <2>3, WriteStep DEF PutSenders
  <1>7. ASSUME NEW c \in Requester, NEW s \in FormSenders, NEW active \in BOOLEAN,
               ReadStored(c, s, active)
        PROVE  AcIInv'
    <2>1. Form(s, active) \in ClientRow /\ Fits(Form(s, active))
      BY DEF Form, ClientRow, FormSenders, Senders, Fits
    <2>2. \A relisted \in BOOLEAN : Changed(acClient, Form(s, active), relisted) \subseteq Column
      BY DEF Changed
    <2>3. PICK columns \in SUBSET Column :
            acAt' = [acAt EXCEPT ![c] = [step |-> "save", form |-> Form(s, active),
                                         columns |-> columns]]
      BY <1>7, <2>2 DEF ReadStored
    <2> QED
      BY <1>7, <2>1, <2>3 DEF ReadStored, AcIInv, AcTypeOK, ClientThere, PairsFit,
         TemplateFits, Saving
  <1>8. ASSUME NEW k \in Key, CreateKey(k) \/ RevokeKey(k) PROVE AcIInv'
    BY <1>8 DEF CreateKey, RevokeKey, AcIInv, AcTypeOK, ClientThere, PairsFit,
       TemplateFits, NoClient
  <1>9. ASSUME NEW c \in Requester, NEW k \in Key, NEW does \in Endpoint, Authenticate(c, k, does)
        PROVE  AcIInv'
    <2>1. acClient \in ClientRow
      BY <1>1, <1>9 DEF Authenticate, AcIInv, ClientThere
    <2> QED
      BY <1>9, <2>1 DEF Authenticate, AcIInv, AcTypeOK, ClientThere, PairsFit,
         TemplateFits, LetIn, ClientRow, NoClient
  <1>10. ASSUME NEW c \in Requester, NoteUse(c) PROVE AcIInv'
    <2>1. acAt[c] \in LetIn /\ acClient # NoClient
      BY <1>1, <1>10 DEF NoteUse, AcIInv, ClientThere, Saving, Idle
    <2>2. acKey' = acKey
      BY <1>10, <2>1 DEF NoteUse, UseNoted, AcIInv, AcTypeOK, LetIn
    <2> QED
      BY <1>10, <2>1, <2>2 DEF NoteUse, AcIInv, AcTypeOK, ClientThere, PairsFit,
         TemplateFits, LetIn
  <1>11. ASSUME NEW c \in Requester, NEW sender \in Sender \cup {NoSender},
                PutTemplate(c, sender)
         PROVE  AcIInv'
    <2>1. acAt[c] \in LetIn /\ acAt[c].does = "template" /\ acClient # NoClient
      BY <1>1, <1>11 DEF PutTemplate, Serving, AcIInv, ClientThere, Saving, Idle
    <2>2. acAt[c].senders \subseteq acClient.senders \cup acAt[c].lost
      BY <2>1 DEF AcIInv, TemplateFits, LetIn
    <2> QED
      BY <1>11, <2>1, <2>2 DEF PutTemplate, Configured, AcIInv, AcTypeOK, ClientThere,
         PairsFit, TemplateFits, LetIn, Idle
  <1>12. ASSUME NEW c \in Requester, Answer(c) PROVE AcIInv'
    BY <1>12 DEF Answer, AcIInv, AcTypeOK, ClientThere, PairsFit, TemplateFits, Idle
  <1>13. CASE UNCHANGED acVars
    BY <1>13 DEF acVars, AcIInv, AcTypeOK, ClientThere, PairsFit, TemplateFits
  <1> QED
    BY <1>2, <1>3, <1>4, <1>5, <1>6, <1>7, <1>8, <1>9, <1>10, <1>11, <1>12, <1>13
       DEF AcNext

-----------------------------------------------------------------------------
\* Whatever requests, forms and commands interleave, the invariant holds.
THEOREM AccessInvariance == AcSpec => []AcIInv
  BY AcInitially, AcStep, PTL DEF AcSpec

\* Every variable of a client keeps its type.
THEOREM AccessTypeCorrect == AcSpec => []AcTypeOK
  <1>1. AcIInv => AcTypeOK
    BY DEF AcIInv
  <1> QED
    BY <1>1, AccessInvariance, PTL

\* A default sender and a template's sender resolve, but for the two races that
\* acTorn and acLost name.
THEOREM SendersResolve == AcSpec => []AcSendersResolve
  <1>1. AcIInv => AcSendersResolve
    BY AccessAssumption DEF AcIInv, AcTypeOK, PairsFit, TemplateFits, ClientThere, Fits,
       ClientRow, AcSendersResolve, Resolves
  <1> QED
    BY <1>1, AccessInvariance, PTL

\* No interleaving of requests with a revocation brings a key back.
THEOREM RevokedStaysRevoked == AcSpec => AcRevokedForGood
  <1>1. AcIInv /\ [AcNext]_acVars =>
          [\A k \in Key : acKey[k] = "revoked" => acKey'[k] = "revoked"]_acVars
    <2> SUFFICES ASSUME AcIInv, AcNext, NEW k \in Key, acKey[k] = "revoked"
                 PROVE  acKey'[k] = "revoked"
      BY DEF acVars
    <2>1. ASSUME NEW o \in Key, CreateKey(o) \/ RevokeKey(o) PROVE acKey'[k] = "revoked"
      BY <2>1 DEF CreateKey, RevokeKey, AcIInv, AcTypeOK
    <2>2. ASSUME NEW c \in Requester, NoteUse(c) PROVE acKey'[k] = "revoked"
      BY <2>2 DEF NoteUse, UseNoted, AcIInv, AcTypeOK
    <2>3. ASSUME acKey' = acKey PROVE acKey'[k] = "revoked"
      BY <2>3
    <2> QED
      BY <2>1, <2>2, <2>3 DEF AcNext, SetSenders, Provision, CreateClient, ReadStored,
         SaveForm, Authenticate, PutSenders, PutTemplate, Answer
  <1> QED
    BY <1>1, AccessInvariance, PTL DEF AcSpec, AcRevokedForGood

-----------------------------------------------------------------------------
(* The pages of an answer.                                                 *)

\* A walk that goes down the ids (the events) or up (the export): which row comes
\* before which, and the first n of some rows.
Precedes(down, j, i) == IF down THEN j > i ELSE j < i
Ahead(down, ids, i) == {j \in ids : Precedes(down, j, i)}
FirstOf(down, ids, n) == {i \in ids : Cardinality(Ahead(down, ids, i)) < n}

\* The rows that the cursor has left behind.
Passed(i) ==
    IF pgWalk.of = "events" THEN pgCursor # NoCursor /\ i >= pgCursor ELSE i <= pgCursor

\* What is behind the cursor of a walk, and has passed the filters since the
\* first page, has been returned, and what has been returned is behind it.
CursorInv ==
    pgMore /\ pgWalk.of \in {"export", "events"} =>
        \A i \in RowId : /\ pgGot[i] = 1 => Passed(i)
                         /\ i \in pgAlways /\ Passed(i) => pgGot[i] = 1

PgIInv ==
    /\ PgTypeOK
    /\ pgWalk = NotBegun =>
         pgMore /\ pgCursor = NoCursor /\ pgAlways = {} /\ \A i \in RowId : pgGot[i] = 0
    /\ \A i \in pgAlways : pgRow[i] = "match"
    /\ CursorInv
    /\ PgWalkComplete

-----------------------------------------------------------------------------
(* Rows in the order of a walk.                                            *)

\* The order of a walk is an order.
LEMMA PrecedesOrders ==
  ASSUME NEW down \in BOOLEAN
  PROVE  /\ \A i \in RowId : ~ Precedes(down, i, i)
         /\ \A i, j \in RowId : i = j \/ Precedes(down, i, j) \/ Precedes(down, j, i)
         /\ \A i, j, k \in RowId :
              Precedes(down, i, j) /\ Precedes(down, j, k) => Precedes(down, i, k)
  BY PagesAssumption DEF Precedes, RowId

\* The rows are finitely many.
LEMMA RowsAreFinite ==
  ASSUME NEW S \in SUBSET RowId
  PROVE  IsFiniteSet(S) /\ Cardinality(S) \in Nat
  <1>1. MaxId \in Int /\ 1 \in Int
    BY PagesAssumption
  <1>2. IsFiniteSet(RowId)
    BY <1>1, FS_Interval DEF RowId
  <1>3. IsFiniteSet(S)
    BY <1>2, FS_Subset
  <1> QED
    BY <1>3, FS_CardinalityType

\* Some row comes first: the one with the fewest ahead of it.
LEMMA FirstExists ==
  ASSUME NEW down \in BOOLEAN, NEW S \in SUBSET RowId, S # {}
  PROVE  \E i \in S : \A j \in S : j = i \/ Precedes(down, i, j)
  <1> DEFINE T == {Ahead(down, S, i) : i \in S}
  <1>1. T \subseteq FiniteSubsetsOf(RowId) /\ T # {}
    <2>1. ASSUME NEW i \in S PROVE Ahead(down, S, i) \in FiniteSubsetsOf(RowId)
      <3>1. Ahead(down, S, i) \subseteq RowId
        BY DEF Ahead
      <3> QED
        BY <3>1, RowsAreFinite DEF FiniteSubsetsOf
    <2> QED
      BY <2>1
  <1>2. IsWellFoundedOn(StrictSubsetOrdering(RowId), FiniteSubsetsOf(RowId))
    BY FS_StrictSubsetOrderingWellFounded
  <1> HIDE DEF T
  <1>3. PICK x \in T : \A y \in T : ~ (<<y, x>> \in StrictSubsetOrdering(RowId))
    BY <1>1, <1>2, WFMin
  <1>4. PICK i \in S : x = Ahead(down, S, i)
    BY <1>3 DEF T
  <1>5. ASSUME NEW j \in S, Precedes(down, j, i) PROVE FALSE
    <2> DEFINE y == Ahead(down, S, j)
    <2>1. y \subseteq x /\ j \in x /\ j \notin y /\ x \subseteq RowId /\ y \subseteq RowId
      BY <1>4, <1>5, PrecedesOrders DEF Ahead
    <2>2. y \in T
      BY DEF T
    <2> QED
      BY <1>3, <2>1, <2>2 DEF StrictSubsetOrdering
  <1>6. \A j \in S : j = i \/ Precedes(down, i, j)
    BY <1>5, PrecedesOrders
  <1> QED
    BY <1>6

\* Some row comes last.
LEMMA LastExists ==
  ASSUME NEW down \in BOOLEAN, NEW S \in SUBSET RowId, S # {}
  PROVE  \E i \in S : \A j \in S : j = i \/ Precedes(down, j, i)
  <1>1. PICK i \in S : \A j \in S : j = i \/ Precedes(~ down, i, j)
    BY FirstExists
  <1>2. \A j \in S : Precedes(~ down, i, j) => Precedes(down, j, i)
    BY PagesAssumption DEF Precedes, RowId
  <1> QED
    BY <1>1, <1>2

-----------------------------------------------------------------------------
(* The first rows.                                                         *)

\* What comes before one of the first is one of the first.
LEMMA FirstIsClosed ==
  ASSUME NEW down \in BOOLEAN, NEW ids \in SUBSET RowId, NEW n \in Nat,
         NEW i \in FirstOf(down, ids, n), NEW j \in ids, Precedes(down, j, i)
  PROVE  j \in FirstOf(down, ids, n)
  <1> DEFINE A == Ahead(down, ids, i)  B == Ahead(down, ids, j)
  <1>1. B \subseteq A /\ A \subseteq RowId /\ Cardinality(A) < n
    BY PrecedesOrders DEF Ahead, FirstOf
  <1> HIDE DEF A, B
  <1>2. /\ IsFiniteSet(A) /\ Cardinality(A) \in Nat
        /\ IsFiniteSet(B) /\ Cardinality(B) \in Nat
    BY <1>1, RowsAreFinite
  <1>3. Cardinality(B) <= Cardinality(A)
    BY <1>1, <1>2, FS_Subset
  <1>4. Cardinality(B) < n
    BY <1>1, <1>2, <1>3
  <1> QED
    BY <1>4 DEF B, FirstOf

\* The last of the first n has fewer than n ahead of it: they are n at most.
LEMMA FirstAreFew ==
  ASSUME NEW down \in BOOLEAN, NEW ids \in SUBSET RowId, NEW n \in Nat
  PROVE  Cardinality(FirstOf(down, ids, n)) <= n
  <1> DEFINE F == FirstOf(down, ids, n)
  <1>1. F \in SUBSET RowId
    BY DEF FirstOf
  <1>2. CASE F = {}
    BY <1>2, FS_EmptySet
  <1>3. CASE F # {}
    <2>1. PICK m \in F : \A j \in F : j = m \/ Precedes(down, j, m)
      BY <1>1, <1>3, LastExists
    <2> DEFINE A == Ahead(down, ids, m)
    <2>2. Cardinality(A) < n /\ A \in SUBSET RowId
      BY <2>1 DEF FirstOf, Ahead
    <2>3. F \subseteq A \cup {m}
      BY <2>1 DEF FirstOf, Ahead
    <2> HIDE DEF A, F
    <2>4. IsFiniteSet(A) /\ Cardinality(A) \in Nat
      BY <2>2, RowsAreFinite
    <2>5. /\ IsFiniteSet(A \cup {m})
          /\ Cardinality(A \cup {m}) \in {Cardinality(A), Cardinality(A) + 1}
      BY <2>4, FS_AddElement
    <2>6. Cardinality(F) <= Cardinality(A \cup {m}) /\ Cardinality(F) \in Nat
      BY <1>1, <2>3, <2>5, FS_Subset, RowsAreFinite
    <2>7. Cardinality(F) <= n
      BY <2>2, <2>4, <2>5, <2>6
    <2> QED
      BY <2>7 DEF F
  <1> QED
    BY <1>2, <1>3

\* Every row is one of the first n, unless more than n are among the first n + 1:
\* the first row that is not has exactly n ahead of it.
LEMMA FirstAreAll ==
  ASSUME NEW down \in BOOLEAN, NEW ids \in SUBSET RowId, NEW n \in Nat,
         ~ (Cardinality(FirstOf(down, ids, n + 1)) > n)
  PROVE  FirstOf(down, ids, n) = ids
  <1> SUFFICES ASSUME FirstOf(down, ids, n) # ids PROVE FALSE
    OBVIOUS
  <1> DEFINE F == FirstOf(down, ids, n)  G == FirstOf(down, ids, n + 1)
             rest == ids \ F
  <1>1. rest # {} /\ rest \in SUBSET RowId /\ F \in SUBSET ids /\ G \in SUBSET RowId
    BY DEF FirstOf
  <1>2. PICK i \in rest : \A j \in rest : j = i \/ Precedes(down, i, j)
    BY <1>1, FirstExists
  <1> DEFINE A == Ahead(down, ids, i)
  <1>3. A \in SUBSET RowId /\ i \notin A /\ i \in ids
    BY <1>2, PrecedesOrders DEF Ahead
  <1>4. A \subseteq F
    <2> SUFFICES ASSUME NEW j \in A, j \in rest PROVE FALSE
      BY DEF Ahead
    <2>1. Precedes(down, j, i) /\ j \in RowId /\ i \in RowId
      BY <1>3 DEF Ahead
    <2>2. j = i \/ Precedes(down, i, j)
      BY <1>2
    <2> QED
      BY <2>1, <2>2, PrecedesOrders
  <1>5. ~ (Cardinality(A) < n)
    BY <1>2 DEF FirstOf
  <1>6. IsFiniteSet(A) /\ Cardinality(A) \in Nat /\ IsFiniteSet(F) /\ Cardinality(F) \in Nat
    <2> HIDE DEF A, F
    <2> QED
      BY <1>1, <1>3, RowsAreFinite
  <1>7. Cardinality(A) = n
    <2>1. Cardinality(F) <= n
      BY FirstAreFew
    <2> HIDE DEF A, F
    <2>2. Cardinality(A) <= Cardinality(F)
      BY <1>4, <1>6, FS_Subset
    <2> QED
      BY <1>5, <1>6, <2>1, <2>2
  <1>8. A \cup {i} \subseteq G
    <2>1. i \in G
      BY <1>3, <1>7 DEF FirstOf
    <2>2. F \subseteq G
      <3> SUFFICES ASSUME NEW k \in F PROVE k \in G
        OBVIOUS
      <3>1. Ahead(down, ids, k) \in SUBSET RowId
        BY DEF Ahead
      <3>2. Cardinality(Ahead(down, ids, k)) \in Nat
        BY <3>1, RowsAreFinite
      <3>3. Cardinality(Ahead(down, ids, k)) < n /\ k \in ids
        BY DEF FirstOf
      <3>4. Cardinality(Ahead(down, ids, k)) < n + 1
        BY <3>2, <3>3
      <3> QED
        BY <3>3, <3>4 DEF FirstOf
    <2> QED
      BY <1>4, <2>1, <2>2
  <1>9. Cardinality(A \cup {i}) = n + 1
    <2> HIDE DEF A
    <2> QED
      BY <1>3, <1>6, <1>7, FS_AddElement
  <1>10. ~ (Cardinality(G) > n)
    OBVIOUS
  <1> HIDE DEF A, G
  <1>11. IsFiniteSet(G) /\ Cardinality(G) \in Nat
    BY <1>1, RowsAreFinite
  <1>12. Cardinality(A \cup {i}) <= Cardinality(G)
    BY <1>8, <1>11, FS_Subset
  <1> QED
    BY <1>9, <1>10, <1>11, <1>12

\* When one more than a page is read, the page is not empty and not all of it.
LEMMA MoreToRead ==
  ASSUME NEW down \in BOOLEAN, NEW ids \in SUBSET RowId, NEW n \in Nat \ {0},
         Cardinality(FirstOf(down, ids, n + 1)) > n
  PROVE  /\ FirstOf(down, ids, n) # {}
         /\ FirstOf(down, ids, n + 1) # FirstOf(down, ids, n)
  <1>1. FirstOf(down, ids, n + 1) # FirstOf(down, ids, n)
    <2>1. Cardinality(FirstOf(down, ids, n)) <= n
      BY FirstAreFew
    <2>2. FirstOf(down, ids, n) \in SUBSET RowId
      BY DEF FirstOf
    <2>3. Cardinality(FirstOf(down, ids, n)) \in Nat
      BY <2>2, RowsAreFinite
    <2> QED
      BY <2>1, <2>3
  <1>2. ids # {}
    <2>1. SUFFICES ASSUME ids = {} PROVE FALSE
      OBVIOUS
    <2>2. FirstOf(down, ids, n + 1) = {}
      BY <2>1 DEF FirstOf
    <2> QED
      BY <2>2, FS_EmptySet
  <1>3. PICK i \in ids : \A j \in ids : j = i \/ Precedes(down, i, j)
    BY <1>2, FirstExists
  <1>4. Ahead(down, ids, i) = {}
    BY <1>3, PrecedesOrders DEF Ahead
  <1>5. i \in FirstOf(down, ids, n)
    BY <1>4, FS_EmptySet DEF FirstOf
  <1> QED
    BY <1>1, <1>5

-----------------------------------------------------------------------------
(* The pages.                                                              *)

\* The directions of the two walks that have a cursor.
LEMMA WalksAreOrdered ==
  ASSUME NEW ids \in SUBSET RowId, NEW n \in Nat
  PROVE  FirstUp(ids, n) = FirstOf(FALSE, ids, n) /\ FirstDown(ids, n) = FirstOf(TRUE, ids, n)
  <1>1. FirstUp(ids, n) = FirstOf(FALSE, ids, n)
    BY DEF FirstUp, FirstOf, Ahead, Precedes
  <1>2. FirstDown(ids, n) = FirstOf(TRUE, ids, n)
    BY DEF FirstDown, FirstOf, Ahead, Precedes
  <1> QED
    BY <1>1, <1>2

\* A limit is at least one.
LEMMA LimitsFit ==
  ASSUME PgTypeOK, pgWalk.of \in Walk
  PROVE  pgWalk.limit \in Nat \ {0} /\ pgWalk # NotBegun
  <1>1. pgWalk # NotBegun
    BY DEF NotBegun, Walk
  <1>2. pgWalk.limit \in Limits
    BY <1>1 DEF PgTypeOK
  <1>3. Limits \subseteq Nat \ {0}
    <2> SUFFICES ASSUME NEW l \in Limits PROVE l \in Nat \ {0}
      OBVIOUS
    <2>1. l \in 1..500
      BY PagesAssumption
    <2> QED
      BY <2>1
  <1> QED
    BY <1>1, <1>2, <1>3

\* A page of a walk with a cursor keeps the invariant: it returns what was not
\* behind the cursor, up to the new one, or all there is.
LEMMA PageKeeps ==
  ASSUME PgIInv, pgMore, NEW down \in BOOLEAN,
         pgWalk.of = IF down THEN "events" ELSE "export",
         NEW beyond, beyond = {i \in Matching : ~ Passed(i)},
         NEW page, page = FirstOf(down, beyond, pgWalk.limit),
         NEW read, read = FirstOf(down, beyond, pgWalk.limit + 1),
         NEW last,
         read # page /\ page # {} => last \in page /\ \A j \in page : j = last \/ Precedes(down, j, last),
         AnswerPage(page, read, IF read = page THEN NoCursor ELSE last)
  PROVE  PgIInv'
  <1> DEFINE n == pgWalk.limit
  <1>1. /\ PgTypeOK /\ pgWalk.of \in Walk /\ pgWalk.of \in {"export", "events"}
        /\ CursorInv /\ PgWalkComplete /\ \A i \in pgAlways : pgRow[i] = "match"
    BY DEF PgIInv, Walk
  <1>2. n \in Nat \ {0} /\ pgWalk # NotBegun
    BY <1>1, LimitsFit
  <1> HIDE DEF n
  <1>3. beyond \in SUBSET RowId /\ page \subseteq beyond
    BY DEF Matching, FirstOf
  <1>4. /\ pgMore' = (Cardinality(read) > n)
        /\ pgGot' = [i \in RowId |-> pgGot[i] + (IF i \in page THEN 1 ELSE 0)]
        /\ pgRow' = pgRow /\ pgWalk' = pgWalk /\ pgAlways' = pgAlways
    BY DEF AnswerPage, n
  <1>5. \A i \in RowId : pgGot[i] \in {0, 1} /\ (i \in page => pgGot[i] = 0)
    <2>1. \A i \in RowId : pgGot[i] \in Nat /\ pgGot[i] <= 1
      BY <1>1 DEF PgTypeOK, PgWalkComplete
    <2>2. \A i \in RowId : i \in page => pgGot[i] # 1
      BY <1>1, <1>3 DEF CursorInv
    <2> QED
      BY <2>1, <2>2
  <1>6. \A i \in RowId : /\ pgGot'[i] \in {0, 1}
                         /\ pgGot'[i] = 1 <=> i \in page \/ pgGot[i] = 1
    BY <1>4, <1>5
  <1>7. \A i \in pgAlways : i \in RowId /\ (i \in beyond \/ Passed(i))
    BY <1>1 DEF Matching, PgTypeOK
  <1>8. PgTypeOK' /\ CursorInv'
    <2>1. pgGot' \in [RowId -> Nat]
      BY <1>4, <1>6
    <2>2. CASE ~ pgMore'
      <3>1. pgCursor' = NoCursor
        BY <2>2 DEF AnswerPage
      <3>2. pgMore' \in BOOLEAN
        BY <1>4
      <3> QED
        BY <1>1, <1>4, <2>1, <2>2, <3>1, <3>2 DEF PgTypeOK, CursorInv
    <2>3. CASE pgMore'
      <3>1. Cardinality(FirstOf(down, beyond, n + 1)) > n
        BY <1>4, <2>3 DEF n
      <3>2. page # {} /\ read # page
        BY <1>2, <1>3, <3>1, MoreToRead DEF n
      <3>3. pgCursor' = last /\ last \in page /\ \A j \in page : j = last \/ Precedes(down, j, last)
        BY <2>3, <3>2 DEF AnswerPage
      <3>4. last \in RowId /\ last # NoCursor
        BY <1>3, <3>3, PagesAssumption DEF RowId, NoCursor
      <3>5. PgTypeOK'
        BY <1>1, <1>4, <2>1, <2>3, <3>3, <3>4 DEF PgTypeOK
      <3>6. \A i \in RowId : Passed(i)' <=> (i = last \/ Precedes(down, i, last))
        BY <1>4, <3>3, <3>4, PagesAssumption DEF Passed, Precedes, RowId
      <3>7. \A i \in RowId : Passed(i) => Precedes(down, i, last)
        <4>1. ~ Passed(last)
          BY <1>3, <3>3
        <4> QED
          BY <3>4, <4>1, PagesAssumption, <1>1 DEF Passed, Precedes, RowId, NoCursor, PgTypeOK
      <3>8. ASSUME NEW i \in RowId, pgGot'[i] = 1 PROVE Passed(i)'
        <4>1. i \in page \/ Passed(i)
          BY <1>1, <1>6, <3>8 DEF CursorInv
        <4> QED
          BY <3>3, <3>6, <3>7, <4>1
      <3>9. ASSUME NEW i \in RowId, i \in pgAlways, Passed(i)' PROVE pgGot'[i] = 1
        <4>1. CASE Passed(i)
          BY <1>1, <1>6, <3>9, <4>1 DEF CursorInv
        <4>2. CASE i \in beyond
          <5>1. i = last \/ Precedes(down, i, last)
            BY <3>6, <3>9
          <5>2. last \in FirstOf(down, beyond, n) /\ n \in Nat
            BY <1>2, <3>3 DEF n
          <5>3. Precedes(down, i, last) => i \in FirstOf(down, beyond, n)
            BY <1>3, <4>2, <5>2, FirstIsClosed
          <5> QED
            BY <1>6, <3>3, <5>1, <5>3 DEF n
        <4> QED
          BY <1>7, <3>9, <4>1, <4>2
      <3> QED
        BY <1>4, <3>5, <3>8, <3>9 DEF CursorInv
    <2> QED
      BY <2>2, <2>3
  <1>9. PgWalkComplete'
    <2>1. ASSUME ~ pgMore', NEW i \in pgAlways PROVE pgGot'[i] = 1
      <3>1. ~ (Cardinality(FirstOf(down, beyond, n + 1)) > n)
        BY <1>4, <2>1 DEF n
      <3>2. FirstOf(down, beyond, n) = beyond
        BY <1>2, <1>3, <3>1, FirstAreAll
      <3>3. page = beyond
        BY <3>2 DEF n
      <3> QED
        BY <1>1, <1>6, <1>7, <3>3 DEF CursorInv
    <2>2. \A i \in RowId : pgGot'[i] <= 1
      BY <1>6
    <2> QED
      BY <1>4, <2>1, <2>2 DEF PgWalkComplete
  <1> QED
    BY <1>1, <1>2, <1>4, <1>8, <1>9 DEF PgIInv

\* A page of the export.
LEMMA ExportKeeps ==
  ASSUME PgIInv, ExportPage
  PROVE  PgIInv'
  <1> DEFINE beyond == {i \in Matching : i > pgCursor}
             page == FirstUp(beyond, pgWalk.limit)
             read == FirstUp(beyond, pgWalk.limit + 1)
  <1>1. /\ pgWalk.of = "export" /\ pgMore
        /\ AnswerPage(page, read, IF read = page THEN NoCursor ELSE LastReturned(page, read))
    BY DEF ExportPage
  <1>2. pgWalk.limit \in Nat \ {0}
    BY <1>1, LimitsFit DEF PgIInv, Walk
  <1>3. beyond = {i \in Matching : ~ Passed(i)} /\ beyond \in SUBSET RowId
    BY <1>1, PagesAssumption DEF Passed, Matching, PgIInv, PgTypeOK, RowId, NoCursor
  <1> HIDE DEF beyond
  <1>4. /\ page = FirstOf(FALSE, beyond, pgWalk.limit)
        /\ read = FirstOf(FALSE, beyond, pgWalk.limit + 1)
        /\ page \in SUBSET RowId
    <2>1. pgWalk.limit \in Nat /\ pgWalk.limit + 1 \in Nat
      BY <1>2
    <2>2. page = FirstOf(FALSE, beyond, pgWalk.limit)
      BY <1>3, <2>1, WalksAreOrdered
    <2>3. read = FirstOf(FALSE, beyond, pgWalk.limit + 1)
      BY <1>3, <2>1, WalksAreOrdered
    <2>4. page \subseteq beyond
      BY <2>2 DEF FirstOf
    <2> QED
      BY <1>3, <2>2, <2>3, <2>4
  <1> HIDE DEF page, read
  <1>5. page # {} => /\ LastReturned(page, read) \in page
                     /\ \A j \in page : j = LastReturned(page, read)
                                        \/ Precedes(FALSE, j, LastReturned(page, read))
    <2> SUFFICES ASSUME page # {}
                 PROVE  Max(page) \in page
                        /\ \A j \in page : j = Max(page) \/ Precedes(FALSE, j, Max(page))
      BY DEF LastReturned
    <2>1. \E i \in page : \A j \in page : j = i \/ Precedes(FALSE, j, i)
      <3>1. page \in SUBSET RowId /\ FALSE \in BOOLEAN
        BY <1>4
      <3> QED
        BY <3>1, LastExists
    <2>2. \A i \in page : i \in Nat
      <3>1. \A i \in RowId : i \in Nat
        BY DEF RowId
      <3>2. page \subseteq RowId
        BY <1>4
      <3> QED
        BY <3>1, <3>2
    <2>3. \E i \in page : \A j \in page : i >= j
      BY <2>1, <2>2 DEF Precedes
    <2>4. Max(page) \in page /\ \A j \in page : Max(page) >= j
      BY <2>3 DEF Max
    <2> QED
      BY <2>2, <2>4 DEF Precedes
  <1> QED
    BY <1>1, <1>3, <1>4, <1>5, PageKeeps

\* A page of a contact's events.
LEMMA EventsKeep ==
  ASSUME PgIInv, EventsPage
  PROVE  PgIInv'
  <1> DEFINE beyond == {i \in Matching : pgCursor = NoCursor \/ i < pgCursor}
             page == FirstDown(beyond, pgWalk.limit)
             read == FirstDown(beyond, pgWalk.limit + 1)
  <1>1. /\ pgWalk.of = "events" /\ pgMore
        /\ AnswerPage(page, read, IF read = page THEN NoCursor ELSE Min(page))
    BY DEF EventsPage
  <1>2. pgWalk.limit \in Nat \ {0}
    BY <1>1, LimitsFit DEF PgIInv, Walk
  <1>3. beyond = {i \in Matching : ~ Passed(i)} /\ beyond \in SUBSET RowId
    BY <1>1, PagesAssumption DEF Passed, Matching, PgIInv, PgTypeOK, RowId, NoCursor
  <1> HIDE DEF beyond
  <1>4. /\ page = FirstOf(TRUE, beyond, pgWalk.limit)
        /\ read = FirstOf(TRUE, beyond, pgWalk.limit + 1)
        /\ page \in SUBSET RowId
    <2>1. pgWalk.limit \in Nat /\ pgWalk.limit + 1 \in Nat
      BY <1>2
    <2>2. page = FirstOf(TRUE, beyond, pgWalk.limit)
      BY <1>3, <2>1, WalksAreOrdered
    <2>3. read = FirstOf(TRUE, beyond, pgWalk.limit + 1)
      BY <1>3, <2>1, WalksAreOrdered
    <2>4. page \subseteq beyond
      BY <2>2 DEF FirstOf
    <2> QED
      BY <1>3, <2>2, <2>3, <2>4
  <1> HIDE DEF page, read
  <1>5. page # {} => /\ Min(page) \in page
                     /\ \A j \in page : j = Min(page) \/ Precedes(TRUE, j, Min(page))
    <2> SUFFICES ASSUME page # {}
                 PROVE  Min(page) \in page
                        /\ \A j \in page : j = Min(page) \/ Precedes(TRUE, j, Min(page))
      OBVIOUS
    <2>1. \E i \in page : \A j \in page : j = i \/ Precedes(TRUE, j, i)
      <3>1. page \in SUBSET RowId /\ TRUE \in BOOLEAN
        BY <1>4
      <3> QED
        BY <3>1, LastExists
    <2>2. \A i \in page : i \in Nat
      <3>1. \A i \in RowId : i \in Nat
        BY DEF RowId
      <3>2. page \subseteq RowId
        BY <1>4
      <3> QED
        BY <3>1, <3>2
    <2>3. \E i \in page : \A j \in page : i =< j
      BY <2>1, <2>2 DEF Precedes
    <2>4. Min(page) \in page /\ \A j \in page : Min(page) =< j
      BY <2>3 DEF Min
    <2> QED
      BY <2>2, <2>4 DEF Precedes
  <1> QED
    BY <1>1, <1>3, <1>4, <1>5, PageKeeps

\* The one page of the members: it is all there is, or there is more.
LEMMA MembersKeep ==
  ASSUME PgIInv, MembersPage, pgGot = [i \in RowId |-> 0]
  PROVE  PgIInv'
  <1> DEFINE n == pgWalk.limit
             page == FirstUp(Matching, n)
             read == FirstUp(Matching, n + 1)
  <1>1. /\ pgWalk.of = "members" /\ pgMore /\ PgTypeOK /\ \A i \in pgAlways : pgRow[i] = "match"
        /\ AnswerPage(page, read, NoCursor)
    BY DEF MembersPage, PgIInv
  <1>2. n \in Nat \ {0} /\ pgWalk # NotBegun
    BY <1>1, LimitsFit DEF Walk
  <1> HIDE DEF n
  <1>3. Matching \in SUBSET RowId
    BY DEF Matching
  <1>4. page = FirstOf(FALSE, Matching, n) /\ read = FirstOf(FALSE, Matching, n + 1)
    <2>1. n \in Nat /\ n + 1 \in Nat
      BY <1>2
    <2>2. page = FirstOf(FALSE, Matching, n)
      BY <1>3, <2>1, WalksAreOrdered
    <2>3. read = FirstOf(FALSE, Matching, n + 1)
      BY <1>3, <2>1, WalksAreOrdered
    <2> QED
      BY <2>2, <2>3
  <1> HIDE DEF page, read
  <1>5. /\ pgMore' = (Cardinality(read) > n) /\ pgCursor' = NoCursor
        /\ pgRow' = pgRow /\ pgWalk' = pgWalk /\ pgAlways' = pgAlways
        /\ \A i \in RowId : pgGot'[i] = IF i \in page THEN 1 ELSE 0
        /\ pgGot' \in [RowId -> Nat]
    BY <1>1 DEF AnswerPage, n
  <1>6. PgTypeOK'
    BY <1>1, <1>5 DEF PgTypeOK
  <1>7. CursorInv'
    BY <1>1, <1>5 DEF CursorInv
  <1>8. PgWalkComplete'
    <2>1. ASSUME ~ pgMore', NEW i \in pgAlways PROVE pgGot'[i] = 1
      <3>1. page = Matching
        BY <1>2, <1>3, <1>4, <1>5, <2>1, FirstAreAll
      <3>2. i \in RowId /\ i \in Matching
        BY <1>1 DEF PgTypeOK, Matching
      <3> QED
        BY <1>5, <3>1, <3>2
    <2> QED
      BY <1>5, <2>1 DEF PgWalkComplete
  <1> QED
    BY <1>1, <1>2, <1>5, <1>6, <1>7, <1>8 DEF PgIInv

\* A row that is inserted, or begins or ceases to pass the filters.
LEMMA RowsKeep ==
  ASSUME PgIInv, NEW i \in RowId, InsertRow(i) \/ Refilter(i)
  PROVE  PgIInv'
  <1>1. /\ UNCHANGED <<pgWalk, pgCursor, pgMore, pgGot>>
        /\ pgAlways' \subseteq pgAlways
        /\ \E w \in {"other", "match"} : pgRow' = [pgRow EXCEPT ![i] = w]
        /\ i \notin pgAlways'
    BY DEF InsertRow, Refilter, PgIInv
  <1>2. PgTypeOK'
    BY <1>1 DEF PgIInv, PgTypeOK
  <1>3. \A j \in pgAlways' : pgRow'[j] = "match"
    BY <1>1 DEF PgIInv, PgTypeOK
  <1>4. CursorInv'
    <2>1. \A j : Passed(j)' <=> Passed(j)
      BY <1>1 DEF Passed
    <2> QED
      BY <1>1, <2>1 DEF PgIInv, CursorInv
  <1>5. PgWalkComplete'
    BY <1>1 DEF PgIInv, PgWalkComplete
  <1> QED
    BY <1>1, <1>2, <1>3, <1>4, <1>5 DEF PgIInv

\* A walk that begins has returned nothing and left nothing behind.
LEMMA WalksBegin ==
  ASSUME PgIInv, NEW of \in Walk, NEW limit \in Limits, BeginWalk(of, limit)
  PROVE  PgIInv'
  <1>1. /\ pgWalk = NotBegun /\ pgWalk' = [of |-> of, limit |-> limit]
        /\ pgAlways' = {i \in RowId : pgRow[i] = "match"}
        /\ UNCHANGED <<pgRow, pgCursor, pgMore, pgGot>>
    BY DEF BeginWalk
  <1>2. pgMore /\ pgCursor = NoCursor /\ \A i \in RowId : pgGot[i] = 0
    BY <1>1 DEF PgIInv
  <1>3. PgTypeOK'
    BY <1>1 DEF PgIInv, PgTypeOK
  <1>4. pgWalk' # NotBegun /\ pgWalk'.of = of
    BY <1>1 DEF NotBegun, Walk
  <1>5. \A i \in RowId : ~ Passed(i)'
    BY <1>1, <1>2, PagesAssumption DEF Passed, NoCursor, RowId
  <1>6. CursorInv'
    BY <1>1, <1>2, <1>5 DEF CursorInv
  <1>7. PgWalkComplete'
    BY <1>1, <1>2 DEF PgWalkComplete
  <1> QED
    BY <1>1, <1>3, <1>4, <1>6, <1>7 DEF PgIInv

\* Whatever rows there are, nobody has walked through them.
LEMMA PgInitially == PgInit => PgIInv
  <1> SUFFICES ASSUME PgInit PROVE PgIInv
    OBVIOUS
  <1>1. /\ pgWalk = NotBegun /\ pgCursor = NoCursor /\ pgMore = TRUE /\ pgAlways = {}
        /\ pgGot = [i \in RowId |-> 0] /\ pgRow \in [RowId -> {"none", "other", "match"}]
    BY DEF PgInit
  <1>2. PgTypeOK
    BY <1>1 DEF PgTypeOK
  <1>3. CursorInv
    BY <1>1 DEF CursorInv, NotBegun
  <1> QED
    BY <1>1, <1>2, <1>3 DEF PgIInv, PgWalkComplete

\* Every page, and every change of the rows between two pages, keeps the invariant.
LEMMA PgStep == PgIInv /\ [PgNext]_pgVars => PgIInv'
  <1> SUFFICES ASSUME PgIInv, [PgNext]_pgVars PROVE PgIInv'
    OBVIOUS
  <1>1. CASE UNCHANGED pgVars
    <2>1. \A i : Passed(i)' <=> Passed(i)
      BY <1>1 DEF pgVars, Passed
    <2> QED
      BY <1>1, <2>1 DEF pgVars, PgIInv, PgTypeOK, CursorInv, PgWalkComplete
  <1>2. CASE PgNext
    BY <1>2, RowsKeep, WalksBegin, ExportKeeps, EventsKeep, MembersKeep DEF PgNext
  <1> QED
    BY <1>1, <1>2

\* Whatever is inserted or changed between two pages, of any size and of any
\* number of rows, the invariant holds (services/contact_import_export.py).
THEOREM PagesInvariance == PgSpec => []PgIInv
  BY PgInitially, PgStep, PTL DEF PgSpec

\* The rows, the cursor and the counts keep their types.
THEOREM PagesTypeCorrect == PgSpec => []PgTypeOK
  BY PagesInvariance, PTL DEF PgIInv

\* A walk that was told there is no more has returned every row that has passed
\* the filters all along, and no walk returns a row twice.
THEOREM WalksAreComplete == PgSpec => []PgWalkComplete
  BY PagesInvariance, PTL DEF PgIInv

-----------------------------------------------------------------------------
(* The service.                                                            *)

\* A behaviour of the service is one of each component: the one in focus takes its
\* steps and the others stand still.
LEMMA ServiceIsItsParts ==
  ServiceSpec => CsSpec /\ EnSpec /\ AcSpec /\ DrSpec /\ PgSpec
  <1>1. ServiceInit => CsInit /\ EnInit /\ AcInit /\ DrInit /\ PgInit
    BY DEF ServiceInit
  <1>2. [ServiceNext]_serviceVars =>
          [CsNext]_csVars /\ [EnNext]_enVars /\ [AcNext]_acVars /\ [DrNext]_drVars /\ [PgNext]_pgVars
    BY DEF ServiceNext, serviceVars, ContactsAlone, ContactsOverlap, CsNext
  <1> QED
    BY <1>1, <1>2, PTL DEF ServiceSpec, CsSpec, EnSpec, AcSpec, DrSpec, PgSpec

\* The variables of all five components keep their types, and no step changes which
\* of them runs.
THEOREM ServiceTypeCorrect == ServiceSpec => []ServiceTypeOK
  <1>1. ServiceInit => focus \in Focus
    BY DEF ServiceInit
  <1>2. focus \in Focus /\ [ServiceNext]_serviceVars => (focus \in Focus)'
    BY DEF ServiceNext, serviceVars
  <1>3. ServiceSpec => [](focus \in Focus)
    BY <1>1, <1>2, PTL DEF ServiceSpec
  <1>4. CsTypeOK /\ EnTypeOK /\ AcTypeOK /\ DrTypeOK /\ PgTypeOK /\ focus \in Focus => ServiceTypeOK
    BY DEF ServiceTypeOK
  <1> QED
    BY <1>3, <1>4, ServiceIsItsParts, ContactTypeCorrect, EngagementTypeCorrect,
       AccessTypeCorrect, DraftTypeCorrect, PagesTypeCorrect, PTL

=============================================================================

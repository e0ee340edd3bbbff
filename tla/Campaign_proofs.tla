--------------------------- MODULE Campaign_proofs ---------------------------
(***************************************************************************)
(* A campaign before it is queued, for any number of connections that      *)
(* write it, and after it is sent, for any number of recipients and of     *)
(* visits and provider events.                                             *)
(***************************************************************************)
EXTENDS CampaignDraft, Engagement, FiniteSetTheorems, TLAPS

\* Types and the frozen content together: one step per action.
DrIInv == DrTypeOK /\ DrContentIsFrozen

\* The invariant holds while there is no campaign.
LEMMA DrInitially == DrInit => DrIInv
  BY DEF DrInit, DrIInv, DrTypeOK, DrContentIsFrozen, NoCampaign, NeverFrozen, Quiet

\* Every request, form and tag change keeps the invariant.
LEMMA DrStep == DrIInv /\ [DrNext]_drVars => DrIInv'
  <1> SUFFICES ASSUME DrIInv, [DrNext]_drVars PROVE DrIInv'
    OBVIOUS
  <1> USE DraftAssumption DEF DrIInv, DrTypeOK, DrContentIsFrozen, DraftRow, NoCampaign,
          NeverFrozen, Quiet, drPeople
  <1>1. ASSUME NEW in \in PutInput, PutFound(in) PROVE DrIInv'
    BY <1>1 DEF PutFound, Editable
  <1>2. ASSUME NEW in \in PutInput, NEW w \in Writer, PutMissing(w, in) PROVE DrIInv'
    BY <1>2 DEF PutMissing
  <1>3. ASSUME NEW w \in Writer, PutSave(w) PROVE DrIInv'
    <2>1. drAt[w].content \in Content
      BY <1>3 DEF PutSave
    <2>2. CASE drRow = NoCampaign
      BY <1>3, <2>1, <2>2 DEF PutSave
    <2>3. CASE drRow # NoCampaign
      BY <1>3, <2>1, <2>3 DEF PutSave
    <2> QED
      BY <2>2, <2>3
  <1>4. ASSUME NEW w \in Writer, SaveLoaded(w) PROVE DrIInv'
    BY <1>4 DEF SaveLoaded
  <1>5. ASSUME NEW w \in Writer, NEW in \in FormInput, LoadForm(w, in) PROVE DrIInv'
    <2>1. [in EXCEPT !.list = drRow.content.list] \in Content
      BY <1>5 DEF LoadForm, Content
    <2> QED
      BY <1>5, <2>1 DEF LoadForm
  <1>6. ASSUME NEW status \in {"queued", "cancelled"}, Leave(status),
               drRecipient' \subseteq Addressee
        PROVE  DrIInv'
    BY <1>6 DEF Leave
  <1>7. CASE QueueDraft
    <2>1. Candidates(drRow.content) \subseteq Addressee
      BY <1>7 DEF QueueDraft, Leave, Candidates, Base, Content
    <2> QED
      BY <1>6, <1>7, <2>1 DEF QueueDraft
  <1>8. CASE CancelAny
    BY <1>6, <1>8 DEF CancelAny
  <1>9. ASSUME NEW p \in Addressee, NEW t \in Tag, TagContact(p, t) \/ UntagContact(p, t)
        PROVE  DrIInv'
    BY <1>9 DEF TagContact, UntagContact
  <1>10. ASSUME NEW t \in Tag, NEW slug \in Slug, EditTag(t, slug) PROVE DrIInv'
    BY <1>10 DEF EditTag
  <1>11. CASE UNCHANGED drVars
    BY <1>11 DEF drVars
  <1> QED
    BY <1>1, <1>2, <1>3, <1>4, <1>5, <1>7, <1>8, <1>9, <1>10, <1>11 DEF DrNext

\* Whatever writers interleave, the invariant holds.
THEOREM DraftInvariance == DrSpec => []DrIInv
  BY DrInitially, DrStep, PTL DEF DrSpec

\* Every variable of a draft keeps its type.
THEOREM DraftTypeCorrect == DrSpec => []DrTypeOK
  <1>1. DrIInv => DrTypeOK
    BY DEF DrIInv
  <1> QED
    BY <1>1, DraftInvariance, PTL

\* Once queued or cancelled, a campaign keeps the content its recipients were
\* picked by, however many PUTs and forms had begun before.
THEOREM ContentStaysFrozen == DrSpec => []DrContentIsFrozen
  <1>1. DrIInv => DrContentIsFrozen
    BY DEF DrIInv
  <1> QED
    BY <1>1, DraftInvariance, PTL

-----------------------------------------------------------------------------
\* The count the query compares says that every tag to include is there.
LEMMA MatchesAll ==
  ASSUME NEW p, NEW content \in Content
  PROVE  Matches(p, content) <=>
           \A slug \in content.include : \E t \in OwnTags(p, content) : SlugOf[t] = slug
  <1> DEFINE have == SlugsIn(p, content.audience)
  <1>1. IsFiniteSet(content.include)
    BY DraftAssumption, FS_Subset DEF Content
  <1>2. have \cap content.include \in SUBSET content.include
    OBVIOUS
  <1>3. Matches(p, content) <=> have \cap content.include = content.include
    BY <1>1, <1>2, FS_Subset DEF Matches
  <1>4. \A slug : slug \in have <=> \E t \in OwnTags(p, content) : SlugOf[t] = slug
    BY DEF SlugsIn, OwnTags
  <1> QED
    BY <1>3, <1>4

\* Where no namesake is about, exclude() leaves out who carries an excluded tag of
\* the campaign's audience and nobody else.
LEMMA ExcludesOwn ==
  ASSUME NEW p, NEW content \in Content, ~ Namesake(p, content)
  PROVE  Excluded(p, content) <=>
           \E t \in OwnTags(p, content) : SlugOf[t] \in content.exclude
  <1>1. SlugsIn(p, content.audience) # {} <=> OwnTags(p, content) # {}
    BY DEF SlugsIn, OwnTags
  <1>2. OwnTags(p, content) \subseteq TagsOf(p)
    BY DEF OwnTags
  <1> QED
    BY <1>1, <1>2 DEF Excluded, Namesake

\* Queueing picks the contacts that were asked for, whatever their tags and those
\* of other audiences, but for the namesakes.
THEOREM PicksTheTagged == DrSpec => DrPicksTheTagged
  <1>1. DrIInv /\ [DrNext]_drVars =>
          [\A p \in Addressee :
             QueueDraft /\ p \notin drRecipient /\ ~ Namesake(p, drRow.content) =>
                 (p \in drRecipient' <=> AskedFor(p, drRow.content))]_drVars
    <2> SUFFICES ASSUME DrIInv, NEW p \in Addressee, QueueDraft, p \notin drRecipient,
                        ~ Namesake(p, drRow.content)
                 PROVE  p \in drRecipient' <=> AskedFor(p, drRow.content)
      OBVIOUS
    <2> DEFINE content == drRow.content
    <2>1. content \in Content
      BY DEF DrIInv, DrTypeOK, DraftRow, NoCampaign, QueueDraft, Leave
    <2>2. p \in drRecipient' <=> p \in Candidates(content)
      BY DEF QueueDraft
    <2>3. p \in Candidates(content) <=>
            p \in Base(content) /\ Matches(p, content) /\ ~ Excluded(p, content)
      BY DEF Candidates
    <2> QED
      BY <2>1, <2>2, <2>3, MatchesAll, ExcludesOwn DEF AskedFor
  <1> QED
    BY <1>1, DraftInvariance, PTL DEF DrSpec, DrPicksTheTagged

-----------------------------------------------------------------------------
Holding(v) == enAt[v].step \in {"written", "counted"}

\* What a connection is in the middle of: a person's visit touches the row as a
\* visit does, an event as the note says.
VisitsFit ==
    \A v \in Visit : enAt[v] # Closed =>
        /\ DOMAIN enAt[v] = {"step", "recipient", "what", "note", "row", "counts"}
        /\ enAt[v].recipient \in Recipient
        /\ enAt[v].note = NoNote => enAt[v].what \in Touch \cup {"unsubscribe"}
        /\ enAt[v].note # NoNote => enAt[v].what \in NoteKinds

RowsFit ==
    /\ enRow \in [Recipient -> SentRow]
    /\ enEvents \in [Recipient -> [Touch -> Nat]]
    /\ DOMAIN enAt = Visit

\* The campaign's row has one holder, and nothing has changed since it read.
OneHolder == \A u, v \in Visit : Holding(u) /\ Holding(v) => u = v
ReadsHold ==
    \A v \in Visit :
        /\ Holding(v) => enAt[v].row = Touched(enRow[enAt[v].recipient], enAt[v].what)
        /\ enAt[v].step = "counted" =>
             enAt[v].counts = IF enAt[v].note = NoNote
                              THEN EngagementCounts(enCount, RowsOf(v))
                              ELSE ProviderCounts(enCount, RowsOf(v))

EnIInv == VisitsFit /\ RowsFit /\ OneHolder /\ ReadsHold /\ EnCountsAgree

-----------------------------------------------------------------------------
\* What a visit or an event does to the row it touches.
LEMMA TouchesFit ==
  ASSUME NEW row \in SentRow, NEW what \in NoteKinds \cup {"unsubscribe"}
  PROVE  /\ Touched(row, what) \in SentRow
         /\ \A k \in Touch :
              /\ Touched(row, what).count[k] = IF k = what THEN row.count[k] + 1
                                                           ELSE row.count[k]
              /\ Touched(row, what).first[k] <=> k = what \/ row.first[k]
         /\ what \in Touch \cup {"unsubscribe"} =>
              /\ Touched(row, what).delivered = row.delivered
              /\ Touched(row, what).status \in {row.status, "unsubscribed"}
         /\ what \in NoteKinds =>
              Touched(row, what).status \in {row.status, "bounced", "complained", "failed"}
  <1>1. CASE what \in Touch
    <2>1. Touched(row, what) = [row EXCEPT !.count[what] = @ + 1, !.first[what] = TRUE]
      BY <1>1 DEF Touched, Touch
    <2>2. row.count \in [Touch -> Nat] /\ row.first \in [Touch -> BOOLEAN]
      BY DEF SentRow
    <2>3. /\ Touched(row, what).count = [row.count EXCEPT ![what] = @ + 1]
          /\ Touched(row, what).first = [row.first EXCEPT ![what] = TRUE]
          /\ Touched(row, what).status = row.status
          /\ Touched(row, what).delivered = row.delivered
      BY <2>1 DEF SentRow
    <2>4. /\ [row.count EXCEPT ![what] = @ + 1] \in [Touch -> Nat]
          /\ [row.first EXCEPT ![what] = TRUE] \in [Touch -> BOOLEAN]
      BY <1>1, <2>2
    <2>5. Touched(row, what) \in SentRow
      BY <2>1, <2>4 DEF SentRow
    <2>6. \A k \in Touch :
            /\ Touched(row, what).count[k] = IF k = what THEN row.count[k] + 1
                                                         ELSE row.count[k]
            /\ Touched(row, what).first[k] <=> k = what \/ row.first[k]
      BY <2>2, <2>3
    <2> QED
      BY <2>3, <2>5, <2>6
  <1>2. CASE what \notin Touch
    BY <1>2 DEF Touched, SentRow, Touch, NoteKinds, Outcome
  <1> QED
    BY <1>1, <1>2

\* Rows that differ at one recipient, there alike in what is counted, count the same.
LEMMA SameDelivered ==
  ASSUME NEW rows, NEW now, \A r \in Recipient : now[r].delivered = rows[r].delivered
  PROVE  DeliveredOf(now) = DeliveredOf(rows)
  <1>1. {r \in Recipient : now[r].delivered} = {r \in Recipient : rows[r].delivered}
    OBVIOUS
  <1> QED
    BY <1>1 DEF DeliveredOf

\* Rows that agree on who has an outcome agree on how many have it.
LEMMA SameOutcome ==
  ASSUME NEW rows, NEW now, NEW o,
         \A r \in Recipient : now[r].status = o <=> rows[r].status = o
  PROVE  OfOutcome(now, o) = OfOutcome(rows, o)
  <1>1. {r \in Recipient : now[r].status = o} = {r \in Recipient : rows[r].status = o}
    OBVIOUS
  <1> QED
    BY <1>1 DEF OfOutcome

-----------------------------------------------------------------------------
\* The invariant holds for a campaign just sent.
LEMMA EnInitially == EnInit => EnIInv
  <1> SUFFICES ASSUME EnInit PROVE EnIInv
    OBVIOUS
  <1>1. VisitsFit /\ RowsFit /\ OneHolder /\ ReadsHold
    BY DEF EnInit, VisitsFit, RowsFit, OneHolder, ReadsHold, Holding, Closed, SentRow
  <1>2. \A r \in Recipient : /\ enRow[r].status = "sent" /\ ~ enRow[r].delivered
                             /\ \A k \in Touch : enRow[r].count[k] = 0 /\ ~ enRow[r].first[k]
    BY DEF EnInit
  <1>3. Cardinality({}) = 0
    BY FS_EmptySet
  <1>4. enCount.delivered = DeliveredOf(enRow)
    <2>1. {r \in Recipient : enRow[r].delivered} = {}
      BY <1>2
    <2> QED
      BY <1>3, <2>1 DEF DeliveredOf, EnInit
  <1>5. enCount.total = Totals(enRow)
    <2>1. \A k \in Touch : UNION {{r} \X (1..enRow[r].count[k]) : r \in Recipient} = {}
      BY <1>2
    <2> QED
      BY <1>3, <2>1 DEF Totals, EnInit
  <1>6. enCount.unique = Uniques(enRow)
    <2>1. \A k \in Touch : {r \in Recipient : enRow[r].first[k]} = {}
      BY <1>2
    <2> QED
      BY <1>3, <2>1 DEF Uniques, EnInit
  <1>7. \A o \in Outcome : enCount.of[o] = OfOutcome(enRow, o)
    <2>1. \A o \in Outcome : {r \in Recipient : enRow[r].status = o} = {}
      BY <1>2 DEF Outcome
    <2> QED
      BY <1>3, <2>1 DEF OfOutcome, EnInit
  <1>8. \A r \in Recipient, k \in Touch : enEvents[r][k] = 0
    BY DEF EnInit
  <1>9. EnCountsAgree
    BY <1>2, <1>4, <1>5, <1>6, <1>7, <1>8 DEF EnCountsAgree
  <1> QED
    BY <1>1, <1>9 DEF EnIInv

\* Steps of one connection that leave the database alone.
LEMMA QuietSteps ==
  ASSUME EnIInv, NEW v \in Visit, UNCHANGED enDatabase, DOMAIN enAt' = Visit,
         \A u \in Visit \ {v} : enAt'[u] = enAt[u],
         enAt'[v] # Closed =>
           /\ DOMAIN enAt'[v] = {"step", "recipient", "what", "note", "row", "counts"}
           /\ enAt'[v].recipient \in Recipient
           /\ enAt'[v].note = NoNote => enAt'[v].what \in Touch \cup {"unsubscribe"}
           /\ enAt'[v].note # NoNote => enAt'[v].what \in NoteKinds,
         Holding(v)' => /\ \A u \in Visit \ {v} : ~ Holding(u)
                        /\ enAt'[v].row = Touched(enRow[enAt'[v].recipient], enAt'[v].what),
         enAt'[v].step = "counted" =>
           enAt'[v].counts = IF enAt'[v].note = NoNote
                             THEN EngagementCounts(enCount, RowsOf(v)')
                             ELSE ProviderCounts(enCount, RowsOf(v)')
  PROVE  EnIInv'
  <1> USE DEF EnIInv, enDatabase
  <1>1. VisitsFit'
    BY DEF VisitsFit
  <1>2. RowsFit'
    BY DEF RowsFit
  <1>3. OneHolder'
    BY DEF OneHolder, Holding
  <1>4. ReadsHold'
    <2>1. \A u \in Visit \ {v} : RowsOf(u)' = RowsOf(u)
      BY DEF RowsOf
    <2> QED
      BY <2>1 DEF ReadsHold, Holding
  <1>5. EnCountsAgree'
    BY DEF EnCountsAgree
  <1> QED
    BY <1>1, <1>2, <1>3, <1>4, <1>5

\* A visit or a notification that begins keeps the invariant.
LEMMA OpensKeep ==
  ASSUME EnIInv, NEW v \in Visit, NEW r \in Recipient,
         NEW what \in NoteKinds \cup {"unsubscribe"}, NEW note,
         note = NoNote => what \in Touch \cup {"unsubscribe"},
         note # NoNote => what \in NoteKinds,
         Open(v, r, what, note), UNCHANGED enDatabase
  PROVE  EnIInv'
  <1> DEFINE now == [step |-> "begun", recipient |-> r, what |-> what, note |-> note,
                     row |-> NoNote, counts |-> NoNote]
  <1>1. enAt' = [enAt EXCEPT ![v] = now] /\ DOMAIN enAt = Visit
    BY DEF Open, EnIInv, RowsFit
  <1>2. now.step = "begun" /\ now.recipient = r /\ now.what = what /\ now.note = note
        /\ DOMAIN now = {"step", "recipient", "what", "note", "row", "counts"}
    OBVIOUS
  <1> HIDE DEF now
  <1> QED
    BY <1>1, <1>2, QuietSteps DEF Holding

\* Locking, writing, counting and rolling back keep the invariant.
LEMMA LocksKeep ==
  ASSUME EnIInv, NEW v \in Visit,
         LockRecipient(v) \/ LockAndWrite(v) \/ CountRecipients(v) \/ RolledBack(v)
  PROVE  EnIInv'
  <1> USE DEF EnIInv
  <1>1. UNCHANGED enDatabase /\ DOMAIN enAt = Visit
    BY DEF LockRecipient, LockAndWrite, CountRecipients, RolledBack, RowsFit
  <1>2. CASE RolledBack(v)
    <2>1. enAt' = [enAt EXCEPT ![v] = Closed]
      BY <1>2 DEF RolledBack
    <2> QED
      BY <1>1, <2>1, QuietSteps DEF Holding, Closed
  <1> SUFFICES ASSUME LockRecipient(v) \/ LockAndWrite(v) \/ CountRecipients(v)
               PROVE  EnIInv'
    BY <1>2
  <1>3. enAt[v] # Closed
    BY DEF LockRecipient, LockAndWrite, CountRecipients, Closed
  <1>4. /\ DOMAIN enAt[v] = {"step", "recipient", "what", "note", "row", "counts"}
        /\ enAt[v].recipient \in Recipient
        /\ enAt[v].note = NoNote => enAt[v].what \in Touch \cup {"unsubscribe"}
        /\ enAt[v].note # NoNote => enAt[v].what \in NoteKinds
    BY <1>3 DEF VisitsFit
  <1>5. CASE LockRecipient(v)
    <2>1. enAt' = [enAt EXCEPT ![v] = [@ EXCEPT !.step = "row"]]
      BY <1>5 DEF LockRecipient
    <2> DEFINE now == [enAt[v] EXCEPT !.step = "row"]
    <2>2. /\ now.step = "row" /\ now.recipient = enAt[v].recipient
          /\ now.what = enAt[v].what /\ now.note = enAt[v].note
          /\ DOMAIN now = DOMAIN enAt[v]
      BY <1>4
    <2> HIDE DEF now
    <2>3. enAt'[v] = now /\ (\A u \in Visit \ {v} : enAt'[u] = enAt[u]) /\ DOMAIN enAt' = Visit
      BY <1>1, <2>1 DEF now
    <2> QED
      BY <1>1, <1>4, <2>2, <2>3, QuietSteps DEF Holding
  <1>6. CASE LockAndWrite(v)
    <2> DEFINE row == Touched(enRow[enAt[v].recipient], enAt[v].what)
               now == [enAt[v] EXCEPT !.step = "written", !.row = row]
    <2>1. /\ enAt' = [enAt EXCEPT ![v] = now] /\ CampaignUnlocked(v)
      BY <1>6 DEF LockAndWrite
    <2>2. /\ now.step = "written" /\ now.recipient = enAt[v].recipient /\ now.row = row
          /\ now.what = enAt[v].what /\ now.note = enAt[v].note
          /\ DOMAIN now = DOMAIN enAt[v]
      BY <1>4
    <2> HIDE DEF now
    <2>3. enAt'[v] = now /\ (\A u \in Visit \ {v} : enAt'[u] = enAt[u]) /\ DOMAIN enAt' = Visit
      BY <1>1, <2>1
    <2>4. \A u \in Visit \ {v} : ~ Holding(u)
      BY <2>1 DEF CampaignUnlocked, Holding
    <2> QED
      BY <1>1, <1>4, <2>2, <2>3, <2>4, QuietSteps
  <1>7. CASE CountRecipients(v)
    <2> DEFINE counts == IF enAt[v].note = NoNote THEN EngagementCounts(enCount, RowsOf(v))
                         ELSE ProviderCounts(enCount, RowsOf(v))
               now == [enAt[v] EXCEPT !.step = "counted", !.counts = counts]
    <2>1. enAt' = [enAt EXCEPT ![v] = now] /\ enAt[v].step = "written"
      BY <1>7 DEF CountRecipients
    <2>2. /\ now.step = "counted" /\ now.recipient = enAt[v].recipient
          /\ now.row = enAt[v].row /\ now.what = enAt[v].what /\ now.note = enAt[v].note
          /\ now.counts = counts /\ DOMAIN now = DOMAIN enAt[v]
      BY <1>4
    <2> HIDE DEF now
    <2>3. enAt'[v] = now /\ (\A u \in Visit \ {v} : enAt'[u] = enAt[u]) /\ DOMAIN enAt' = Visit
      BY <1>1, <2>1
    <2>4. /\ \A u \in Visit \ {v} : ~ Holding(u)
          /\ enAt[v].row = Touched(enRow[enAt[v].recipient], enAt[v].what)
      BY <2>1 DEF OneHolder, ReadsHold, Holding
    <2>5. RowsOf(v)' = RowsOf(v)
      BY <1>1, <2>2, <2>3 DEF RowsOf, enDatabase
    <2> QED
      BY <1>1, <1>4, <2>2, <2>3, <2>4, <2>5, QuietSteps
  <1> QED
    BY <1>5, <1>6, <1>7

-----------------------------------------------------------------------------
\* What a commit makes of one recipient's row.
LEMMA CommittedRows ==
  ASSUME EnIInv, NEW v \in Visit, CommitVisit(v)
  PROVE  LET r == enAt[v].recipient  what == enAt[v].what  note == enAt[v].note IN
         /\ r \in Recipient /\ what \in NoteKinds \cup {"unsubscribe"}
         /\ note = NoNote => what \in Touch \cup {"unsubscribe"}
         /\ note # NoNote => what \in NoteKinds
         /\ enRow[r] \in SentRow /\ enRow' = [enRow EXCEPT ![r] = Touched(enRow[r], what)]
         /\ enRow' = RowsOf(v) /\ enAt[v] # Closed
         /\ enAt[v].counts = IF note = NoNote THEN EngagementCounts(enCount, enRow')
                             ELSE ProviderCounts(enCount, enRow')
  <1> USE DEF EnIInv
  <1>1. enAt[v].step = "counted" /\ enRow' = RowsOf(v)
    BY DEF CommitVisit
  <1>2. enAt[v] # Closed
    BY <1>1 DEF Closed
  <1>3. /\ enAt[v].row = Touched(enRow[enAt[v].recipient], enAt[v].what)
        /\ enAt[v].counts = IF enAt[v].note = NoNote THEN EngagementCounts(enCount, RowsOf(v))
                            ELSE ProviderCounts(enCount, RowsOf(v))
    BY <1>1 DEF ReadsHold, Holding
  <1>4. /\ enAt[v].recipient \in Recipient
        /\ enAt[v].note = NoNote => enAt[v].what \in Touch \cup {"unsubscribe"}
        /\ enAt[v].note # NoNote => enAt[v].what \in NoteKinds
    BY <1>2 DEF VisitsFit
  <1>5. enAt[v].what \in NoteKinds \cup {"unsubscribe"}
    BY <1>4 DEF NoteKinds
  <1>6. enRow' = [enRow EXCEPT ![enAt[v].recipient]
                          = Touched(enRow[enAt[v].recipient], enAt[v].what)]
    BY <1>1, <1>3 DEF RowsOf
  <1> QED
    BY <1>1, <1>2, <1>3, <1>4, <1>5, <1>6 DEF RowsFit

\* A commit keeps the invariant: its counts were taken under the campaign's lock.
LEMMA CommitsKeep ==
  ASSUME EnIInv, NEW v \in Visit, CommitVisit(v)
  PROVE  EnIInv'
  <1> USE DEF EnIInv
  <1> DEFINE note == enAt[v].note
  <1>1. PICK r \in Recipient, what \in NoteKinds \cup {"unsubscribe"} :
          /\ r = enAt[v].recipient /\ what = enAt[v].what
          /\ note = NoNote => what \in Touch \cup {"unsubscribe"}
          /\ note # NoNote => what \in NoteKinds
          /\ enRow[r] \in SentRow /\ enRow' = [enRow EXCEPT ![r] = Touched(enRow[r], what)]
    BY CommittedRows
  <1>2. /\ enRow' = RowsOf(v) /\ enAt[v].step = "counted"
        /\ enAt[v].counts = IF note = NoNote THEN EngagementCounts(enCount, enRow')
                            ELSE ProviderCounts(enCount, enRow')
    BY CommittedRows DEF CommitVisit
  <1>3. /\ enCount' =
             [delivered |-> IF note = NoNote THEN enCount.delivered ELSE enAt[v].counts.delivered,
              of |-> [o \in Outcome |->
                        IF o \in RefreshedBy(note) THEN enAt[v].counts.of[o] ELSE enCount.of[o]],
              total |-> enAt[v].counts.total, unique |-> enAt[v].counts.unique]
        /\ enEvents' = IF what \in Touch THEN [enEvents EXCEPT ![r][what] = @ + 1] ELSE enEvents
        /\ enStale' = (enStale \cup ({enRow[r].status} \cap Outcome)) \ RefreshedBy(note)
        /\ enAt' = [enAt EXCEPT ![v] = Closed]
    BY <1>1 DEF CommitVisit
  <1> HIDE DEF note
  <1>4. /\ Touched(enRow[r], what) \in SentRow
        /\ enRow'[r] = Touched(enRow[r], what)
        /\ \A q \in Recipient \ {r} : enRow'[q] = enRow[q]
    BY <1>1, TouchesFit DEF RowsFit
  <1>5. RowsFit'
    <2>1. enRow' \in [Recipient -> SentRow]
      BY <1>1, <1>4 DEF RowsFit
    <2>2. enEvents' \in [Recipient -> [Touch -> Nat]]
      BY <1>3 DEF RowsFit
    <2> QED
      BY <1>3, <2>1, <2>2 DEF RowsFit
  <1>6. VisitsFit'
    BY <1>3 DEF VisitsFit, RowsFit
  <1>7. \A u \in Visit : ~ Holding(u)'
    <2>1. \A u \in Visit \ {v} : ~ Holding(u)
      BY <1>2 DEF OneHolder, Holding
    <2> QED
      BY <1>3, <2>1 DEF Holding, Closed, RowsFit
  <1>8. OneHolder' /\ ReadsHold'
    BY <1>7 DEF OneHolder, ReadsHold, Holding
  <1>9. \A q \in Recipient, k \in Touch :
          enRow'[q].count[k] = enEvents'[q][k] /\ (enRow'[q].first[k] <=> enEvents'[q][k] > 0)
    <2> SUFFICES ASSUME NEW q \in Recipient, NEW k \in Touch
                 PROVE  enRow'[q].count[k] = enEvents'[q][k]
                        /\ (enRow'[q].first[k] <=> enEvents'[q][k] > 0)
      OBVIOUS
    <2>1. enRow[q].count[k] = enEvents[q][k] /\ (enRow[q].first[k] <=> enEvents[q][k] > 0)
          /\ enEvents[q][k] \in Nat
      BY DEF EnCountsAgree, RowsFit
    <2>2. enEvents'[q][k] = IF q = r /\ k = what THEN enEvents[q][k] + 1 ELSE enEvents[q][k]
      BY <1>3 DEF RowsFit
    <2>3. /\ enRow'[q].count[k] = IF q = r /\ k = what THEN enRow[q].count[k] + 1
                                  ELSE enRow[q].count[k]
          /\ enRow'[q].first[k] <=> (q = r /\ k = what) \/ enRow[q].first[k]
      <3>1. CASE q = r
        <4>1. /\ Touched(enRow[r], what).count[k] = IF k = what THEN enRow[r].count[k] + 1
                                                    ELSE enRow[r].count[k]
              /\ Touched(enRow[r], what).first[k] <=> k = what \/ enRow[r].first[k]
          BY <1>1, TouchesFit
        <4> QED
          BY <1>4, <3>1, <4>1
      <3>2. CASE q # r
        BY <1>4, <3>2
      <3> QED
        BY <3>1, <3>2
    <2>4. CASE q = r /\ k = what
      BY <2>1, <2>2, <2>3, <2>4
    <2>5. CASE ~ (q = r /\ k = what)
      BY <2>1, <2>2, <2>3, <2>5
    <2> QED
      BY <2>4, <2>5
  <1>10. enCount'.delivered = DeliveredOf(enRow')
    <2>1. CASE note = NoNote
      <3>1. \A q \in Recipient : enRow'[q].delivered = enRow[q].delivered
        BY <1>1, <1>4, <2>1, TouchesFit
      <3>2. DeliveredOf(enRow') = DeliveredOf(enRow)
        BY <3>1, SameDelivered
      <3> QED
        BY <1>3, <2>1, <3>2 DEF EnCountsAgree
    <2>2. CASE note # NoNote
      BY <1>2, <1>3, <2>2 DEF ProviderCounts
    <2> QED
      BY <2>1, <2>2
  <1>11. enCount'.total = Totals(enRow') /\ enCount'.unique = Uniques(enRow')
    BY <1>2, <1>3 DEF EngagementCounts, ProviderCounts
  <1>12. \A o \in Outcome \ enStale' : enCount'.of[o] = OfOutcome(enRow', o)
    <2> SUFFICES ASSUME NEW o \in Outcome, o \notin enStale'
                 PROVE  enCount'.of[o] = OfOutcome(enRow', o)
      OBVIOUS
    <2>1. CASE o \in RefreshedBy(note)
      BY <1>2, <1>3, <2>1 DEF EngagementCounts, ProviderCounts, Recounted, RefreshedBy
    <2>2. CASE o \notin RefreshedBy(note)
      <3>1. o \notin enStale /\ enRow[r].status # o
        BY <1>3, <2>2
      <3>2. enRow'[r].status # o
        BY <1>1, <1>4, <2>2, <3>1, TouchesFit DEF RefreshedBy, Outcome
      <3>3. \A q \in Recipient : enRow'[q].status = o <=> enRow[q].status = o
        BY <1>4, <3>1, <3>2
      <3>4. OfOutcome(enRow', o) = OfOutcome(enRow, o)
        BY <3>3, SameOutcome
      <3> QED
        BY <1>3, <2>2, <3>1, <3>4 DEF EnCountsAgree
    <2> QED
      BY <2>1, <2>2
  <1>13. EnCountsAgree'
    BY <1>9, <1>10, <1>11, <1>12 DEF EnCountsAgree
  <1> QED
    BY <1>5, <1>6, <1>8, <1>13

\* What a connection that holds the campaign's row has read of it still holds.
THEOREM EngagementInvariance == EnSpec => []EnIInv
  <1>1. EnIInv /\ [EnNext]_enVars => EnIInv'
    <2> SUFFICES ASSUME EnIInv, [EnNext]_enVars PROVE EnIInv'
      OBVIOUS
    <2>1. CASE UNCHANGED enVars
      BY <2>1 DEF enVars, EnIInv, VisitsFit, RowsFit, OneHolder, ReadsHold, Holding,
         EnCountsAgree, RowsOf
    <2>2. ASSUME NEW v \in Visit, NEW r \in Recipient, Load(v, r) PROVE EnIInv'
      BY <2>2, OpensKeep DEF Load, NoteKinds
    <2>3. ASSUME NEW v \in Visit, NEW n \in ProviderNote, Notified(v, n) PROVE EnIInv'
      <3>1. n.recipient \in Recipient /\ n.what \in NoteKinds /\ n # NoNote
        BY EngagementAssumption DEF NoNote, NoteKinds, Touch
      <3> QED
        BY <2>3, <3>1, OpensKeep DEF Notified
    <2> QED
      BY <2>1, <2>2, <2>3, LocksKeep, CommitsKeep DEF EnNext
  <1> QED
    BY EnInitially, <1>1, PTL DEF EnSpec

\* However opens, clicks, unsubscribes and provider events overlap, the
\* campaign's counters are the sums over its recipients, but for an outcome a
\* row has left (refresh_campaign_engagement_counts, refresh_campaign_provider_counts).
THEOREM CountersAgree == EnSpec => []EnCountsAgree
  BY EngagementInvariance, PTL DEF EnIInv

-----------------------------------------------------------------------------
\* What is counted of the recipients is a number.
LEMMA CountsAreNumbers ==
  ASSUME NEW rows \in [Recipient -> SentRow], NEW c \in Counters
  PROVE  EngagementCounts(c, rows) \in Counters /\ ProviderCounts(c, rows) \in Counters
  <1>1. ASSUME NEW S, S \subseteq Recipient PROVE Cardinality(S) \in Nat
    BY <1>1, EngagementAssumption, FS_Subset, FS_CardinalityType
  <1>2. ASSUME NEW k \in Touch
        PROVE  Cardinality(UNION {{r} \X (1..rows[r].count[k]) : r \in Recipient}) \in Nat
    <2> DEFINE times == [r \in Recipient |-> {r} \X (1..rows[r].count[k])]
               sets == {times[r] : r \in Recipient}
    <2>1. ASSUME NEW r \in Recipient PROVE IsFiniteSet(times[r])
      <3>1. rows[r].count[k] \in Nat
        BY DEF SentRow
      <3>2. IsFiniteSet({r})
        BY FS_Singleton
      <3> DEFINE n == rows[r].count[k]
      <3>4. n \in Int /\ 1 \in Int
        BY <3>1
      <3> HIDE DEF n
      <3>5. IsFiniteSet(1..n)
        BY <3>4, FS_Interval
      <3>6. IsFiniteSet({r} \X (1..n))
        BY <3>2, <3>5, FS_Product
      <3> QED
        BY <3>6 DEF n
    <2>2. IsFiniteSet(sets)
      <3>1. times \in Surjection(Recipient, sets)
        BY DEF Surjection
      <3> HIDE DEF times, sets
      <3> QED
        BY <3>1, EngagementAssumption, FS_Surjection
    <2>3. \A S \in sets : IsFiniteSet(S)
      BY <2>1
    <2>4. IsFiniteSet(UNION sets)
      BY <2>2, <2>3, FS_UNION
    <2>5. sets = {{r} \X (1..rows[r].count[k]) : r \in Recipient}
      OBVIOUS
    <2> QED
      BY <2>4, <2>5, FS_CardinalityType
  <1>3. Totals(rows) \in [Touch -> Nat]
    BY <1>2 DEF Totals
  <1>4. Uniques(rows) \in [Touch -> Nat]
    <2>1. \A k \in Touch : Cardinality({r \in Recipient : rows[r].first[k]}) \in Nat
      BY <1>1
    <2> QED
      BY <2>1 DEF Uniques
  <1>5. DeliveredOf(rows) \in Nat
    BY <1>1 DEF DeliveredOf
  <1>6. \A o : OfOutcome(rows, o) \in Nat
    BY <1>1 DEF OfOutcome
  <1>7. \A outcomes : Recounted(c, rows, outcomes) \in [Outcome -> Nat]
    BY <1>6 DEF Recounted, Counters
  <1> QED
    BY <1>3, <1>4, <1>5, <1>7 DEF EngagementCounts, ProviderCounts, Counters

\* The types follow a visit from step to step.
LEMMA EnTypeStep == EnIInv /\ EnTypeOK /\ [EnNext]_enVars => EnTypeOK'
  <1> SUFFICES ASSUME EnIInv, EnTypeOK, [EnNext]_enVars PROVE EnTypeOK'
    OBVIOUS
  <1> DEFINE Fits(at) == at = Closed
         \/ /\ at.step \in {"begun", "row", "written", "counted"}
            /\ at.recipient \in Recipient
            /\ at.note \in ProviderNote \cup {NoNote}
            /\ at.row \in SentRow \cup {NoNote}
            /\ at.counts \in Counters \cup {NoNote}
  <1>1. /\ enRow \in [Recipient -> SentRow] /\ enCount \in Counters /\ DOMAIN enAt = Visit
        /\ \A v \in Visit : Fits(enAt[v])
    BY DEF EnTypeOK, EnIInv, RowsFit
  <1>2. ASSUME NEW v \in Visit, NEW now, enAt' = [enAt EXCEPT ![v] = now], Fits(now),
               UNCHANGED enDatabase, enLoads' \in 0..MaxLoads
        PROVE  EnTypeOK'
    <2>1. \A u \in Visit : Fits(enAt'[u])
      BY <1>1, <1>2
    <2> QED
      BY <1>2, <2>1 DEF EnTypeOK, enDatabase
  <1>3. ASSUME NEW v \in Visit, NEW r \in Recipient, NEW what, NEW note,
               note \in ProviderNote \cup {NoNote}, Open(v, r, what, note),
               UNCHANGED enDatabase, enLoads' \in 0..MaxLoads
        PROVE  EnTypeOK'
    BY <1>2, <1>3 DEF Open
  <1>4. ASSUME NEW v \in Visit, NEW r \in Recipient, Load(v, r) PROVE EnTypeOK'
    <2>1. enLoads' \in 0..MaxLoads
      BY <1>4, EngagementAssumption DEF Load, EnTypeOK
    <2> QED
      BY <1>3, <1>4, <2>1 DEF Load
  <1>5. ASSUME NEW v \in Visit, NEW n \in ProviderNote, Notified(v, n) PROVE EnTypeOK'
    BY <1>3, <1>5, EngagementAssumption DEF Notified, EnTypeOK
  <1>6. ASSUME NEW v \in Visit, RolledBack(v) PROVE EnTypeOK'
    BY <1>2, <1>6 DEF RolledBack, EnTypeOK
  <1>7. ASSUME NEW v \in Visit, enAt[v] # Closed
        PROVE  /\ DOMAIN enAt[v] = {"step", "recipient", "what", "note", "row", "counts"}
               /\ enAt[v].recipient \in Recipient /\ enAt[v].note \in ProviderNote \cup {NoNote}
               /\ enAt[v].row \in SentRow \cup {NoNote}
               /\ enAt[v].counts \in Counters \cup {NoNote}
               /\ enAt[v].what \in NoteKinds \cup {"unsubscribe"}
    BY <1>1, <1>7 DEF EnIInv, VisitsFit, NoteKinds
  <1>8. ASSUME NEW v \in Visit, LockRecipient(v) PROVE EnTypeOK'
    <2> DEFINE now == [enAt[v] EXCEPT !.step = "row"]
    <2>1. enAt[v] # Closed /\ enAt' = [enAt EXCEPT ![v] = now]
      BY <1>8 DEF LockRecipient, Closed
    <2>2. Fits(now)
      BY <1>7, <2>1
    <2> HIDE DEF now, Fits
    <2> QED
      BY <1>2, <1>8, <2>1, <2>2 DEF LockRecipient, EnTypeOK
  <1>9. ASSUME NEW v \in Visit, LockAndWrite(v) PROVE EnTypeOK'
    <2> DEFINE row == Touched(enRow[enAt[v].recipient], enAt[v].what)
               now == [enAt[v] EXCEPT !.step = "written", !.row = row]
    <2>1. enAt[v] # Closed /\ enAt' = [enAt EXCEPT ![v] = now]
      <3>1. enAt[v].step = "row"
        BY <1>9 DEF LockAndWrite
      <3>2. enAt[v] # Closed
        BY <3>1 DEF Closed
      <3>3. enAt' = [enAt EXCEPT ![v] = now]
        BY <1>9 DEF LockAndWrite
      <3> QED
        BY <3>2, <3>3
    <2>2. row \in SentRow
      BY <1>1, <1>7, <2>1, TouchesFit
    <2> HIDE DEF row
    <2>3. Fits(now)
      BY <1>7, <2>1, <2>2
    <2> HIDE DEF now, Fits
    <2> QED
      BY <1>2, <1>9, <2>1, <2>3 DEF LockAndWrite, EnTypeOK
  <1>10. ASSUME NEW v \in Visit, Holding(v) PROVE RowsOf(v) \in [Recipient -> SentRow]
    <2>1. enAt[v] # Closed
      BY <1>10 DEF Holding, Closed
    <2>2. enAt[v].row = Touched(enRow[enAt[v].recipient], enAt[v].what)
      BY <1>10 DEF EnIInv, ReadsHold
    <2>3. enAt[v].row \in SentRow
      BY <1>1, <1>7, <2>1, <2>2, TouchesFit
    <2> QED
      BY <1>1, <2>3 DEF RowsOf
  <1>11. ASSUME NEW v \in Visit, CountRecipients(v) PROVE EnTypeOK'
    <2> DEFINE counts == IF enAt[v].note = NoNote THEN EngagementCounts(enCount, RowsOf(v))
                         ELSE ProviderCounts(enCount, RowsOf(v))
               now == [enAt[v] EXCEPT !.step = "counted", !.counts = counts]
    <2>1. /\ enAt[v] # Closed /\ enAt[v].step = "written"
          /\ enAt' = [enAt EXCEPT ![v] = now]
      <3>1. enAt[v].step = "written"
        BY <1>11 DEF CountRecipients
      <3>2. enAt[v] # Closed
        BY <3>1 DEF Closed
      <3> QED
        BY <1>11, <3>1, <3>2 DEF CountRecipients
    <2>2. counts \in Counters
      BY <1>1, <1>10, <2>1, CountsAreNumbers DEF Holding
    <2> HIDE DEF counts
    <2>3. Fits(now)
      BY <1>7, <2>1, <2>2
    <2> HIDE DEF now, Fits
    <2> QED
      BY <1>2, <1>11, <2>1, <2>3 DEF CountRecipients, EnTypeOK
  <1>12. ASSUME NEW v \in Visit, CommitVisit(v) PROVE EnTypeOK'
    <2>1. enAt[v].step = "counted" /\ enAt[v] # Closed
      BY <1>12 DEF CommitVisit, Closed
    <2>2. enRow' \in [Recipient -> SentRow] /\ enEvents' \in [Recipient -> [Touch -> Nat]]
      BY <1>12, CommitsKeep DEF EnIInv, RowsFit
    <2>3. enAt[v].counts \in Counters
      <3>1. enAt[v].counts = IF enAt[v].note = NoNote THEN EngagementCounts(enCount, RowsOf(v))
                             ELSE ProviderCounts(enCount, RowsOf(v))
        BY <2>1 DEF EnIInv, ReadsHold
      <3> QED
        BY <1>1, <1>10, <2>1, <3>1, CountsAreNumbers DEF Holding
    <2> DEFINE of == [o \in Outcome |-> IF o \in RefreshedBy(enAt[v].note)
                                        THEN enAt[v].counts.of[o] ELSE enCount.of[o]]
               delivered == IF enAt[v].note = NoNote THEN enCount.delivered
                            ELSE enAt[v].counts.delivered
    <2>4. enCount' = [delivered |-> delivered, of |-> of,
                      total |-> enAt[v].counts.total, unique |-> enAt[v].counts.unique]
      BY <1>12 DEF CommitVisit
    <2>5. of \in [Outcome -> Nat] /\ delivered \in Nat
      BY <1>1, <2>3 DEF Counters
    <2> HIDE DEF of, delivered
    <2>6. enCount' \in Counters
      BY <2>3, <2>4, <2>5 DEF Counters
    <2>7. enSeen' \subseteq ProviderNote /\ enStale' \subseteq Outcome /\ enLoads' = enLoads
      BY <1>7, <1>12, <2>1 DEF CommitVisit, EnTypeOK
    <2>8. \A u \in Visit : Fits(enAt'[u])
      BY <1>1, <1>12 DEF CommitVisit
    <2> QED
      BY <2>2, <2>6, <2>7, <2>8 DEF EnTypeOK
  <1>13. CASE UNCHANGED enVars
    BY <1>13 DEF enVars, EnTypeOK
  <1> QED
    BY <1>4, <1>5, <1>6, <1>8, <1>9, <1>11, <1>12, <1>13 DEF EnNext

\* A campaign just sent has the types.
LEMMA EnTypeInit == EnInit => EnTypeOK
  <1> SUFFICES ASSUME EnInit PROVE EnTypeOK
    OBVIOUS
  <1>1. enRow \in [Recipient -> SentRow] /\ enEvents \in [Recipient -> [Touch -> Nat]]
    BY DEF EnInit, SentRow
  <1>2. enCount \in Counters
    BY DEF EnInit, Counters
  <1>3. enLoads \in 0..MaxLoads
    BY EngagementAssumption DEF EnInit
  <1>4. \A v \in Visit : enAt[v] = Closed
    BY DEF EnInit
  <1>5. enSeen = {} /\ enStale = {}
    BY DEF EnInit
  <1> QED
    BY <1>1, <1>2, <1>3, <1>4, <1>5 DEF EnTypeOK

\* The rows, the counters and the open transactions keep their types; a counter
\* is the size of a finite set.
THEOREM EngagementTypeCorrect == EnSpec => []EnTypeOK
  <1>1. EnInit => EnIInv /\ EnTypeOK
    BY EnInitially, EnTypeInit
  <1> QED
    BY EngagementInvariance, EnTypeInit, EnTypeStep, PTL DEF EnSpec

=============================================================================

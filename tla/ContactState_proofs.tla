------------------------ MODULE ContactState_proofs ------------------------
EXTENDS ContactState, TLAPS

\* An opt-out from a scope, or a suppression, that was told is stored.
ToldStored ==
    /\ csPerson = NoPerson => csTold = {}
    /\ \A s \in Scope : s \in csTold => csSub[s].status = "unsubscribed"
    /\ "global" \in csTold => csPerson["global"]
    /\ "hard" \in csTold => csPerson["hard"]

\* A caller that will save a subscription keeps an opt-out it has not missed.
SavesKeep ==
    \A p \in Caller :
        csAt[p].step = "save" /\ ~ csAt[p].erased /\ ~ csAt[p].missed
            /\ csAt[p].row.scope \in csTold =>
                csAt[p].sub.status = "unsubscribed"

\* A row that opts out saves an opt-out.
SavesOptOut ==
    \A p \in Caller :
        csAt[p].step = "save" /\ OptsOut(csAt[p].row) =>
            csAt[p].sub.status = "unsubscribed"

\* Without a contact, whoever is in the middle of something knows it was erased.
ErasedKnown ==
    \A p \in Caller : csPerson = NoPerson => csAt[p] = Free \/ csAt[p].erased

\* A caller that is about to save a subscription.
SubscriptionSaves == [step : {"save"}, row : ImportRow, change : Change, holds : BOOLEAN,
           sub : Subscription, missed : BOOLEAN, erased : BOOLEAN]

\* The callers after an import's row is committed.
Finished(p, row) ==
    [(IF OptsOut(row) THEN Missed(row.scope) ELSE csAt) EXCEPT ![p] = Free]

\* A caller goes on to a step that writes nothing.
Reads(p, r) ==
    /\ csPerson # NoPerson /\ csAt' = [csAt EXCEPT ![p] = r]
    /\ UNCHANGED <<csPerson, csSub, csRest, csTold, csLeft>>

CsIInv == CsTypeOK /\ ToldStored /\ SavesKeep /\ SavesOptOut /\ ErasedKnown

\* The invariant holds while nobody knows the contact.
LEMMA CsInitially == CsInit => CsIInv
  <1> SUFFICES ASSUME CsInit PROVE CsIInv
    OBVIOUS
  <1>1. CsTypeOK
    BY DEF CsInit, CsTypeOK, Subscription, NoSubscription, SubStatus
  <1>2. ToldStored /\ SavesKeep /\ SavesOptOut /\ ErasedKnown
    BY DEF CsInit, ToldStored, SavesKeep, SavesOptOut, ErasedKnown, Free
  <1> QED
    BY <1>1, <1>2 DEF CsIInv

-----------------------------------------------------------------------------
\* What Missed leaves of the callers.
LEMMA MissedFits ==
  ASSUME CsTypeOK, NEW scope \in Scope
  PROVE  /\ Missed(scope) \in [Caller -> At \cup {Free}]
         /\ \A p \in Caller :
              /\ Missed(scope)[p].step = csAt[p].step
              /\ Missed(scope)[p] = Free <=> csAt[p] = Free
              /\ csAt[p] # Free => Missed(scope)[p].erased = csAt[p].erased
              /\ csAt[p].step = "save" =>
                   /\ Missed(scope)[p].row = csAt[p].row
                   /\ Missed(scope)[p].sub = csAt[p].sub
                   /\ csAt[p].missed => Missed(scope)[p].missed
                   /\ ~ csAt[p].erased /\ csAt[p].row.scope = scope => Missed(scope)[p].missed
  <1> SUFFICES ASSUME NEW p \in Caller
               PROVE  /\ Missed(scope)[p] \in At \cup {Free}
                      /\ Missed(scope)[p].step = csAt[p].step
                      /\ Missed(scope)[p] = Free <=> csAt[p] = Free
                      /\ csAt[p] # Free => Missed(scope)[p].erased = csAt[p].erased
                      /\ csAt[p].step = "save" =>
                           /\ Missed(scope)[p].row = csAt[p].row
                           /\ Missed(scope)[p].sub = csAt[p].sub
                           /\ csAt[p].missed => Missed(scope)[p].missed
                           /\ ~ csAt[p].erased /\ csAt[p].row.scope = scope =>
                                Missed(scope)[p].missed
    BY DEF Missed
  <1>1. csAt[p] \in At \cup {Free}
    BY DEF CsTypeOK
  <1>2. CASE csAt[p].step = "save"
    <2>1. csAt[p] \in SubscriptionSaves
      BY <1>1, <1>2 DEF At, Free, SubscriptionSaves
    <2>2. [csAt[p] EXCEPT !.missed = TRUE] \in SubscriptionSaves
      BY <2>1 DEF SubscriptionSaves
    <2>3. Missed(scope)[p] \in {csAt[p], [csAt[p] EXCEPT !.missed = TRUE]}
      BY DEF Missed
    <2>4. ~ csAt[p].erased /\ csAt[p].row.scope = scope =>
             Missed(scope)[p] = [csAt[p] EXCEPT !.missed = TRUE]
      BY <1>2 DEF Missed
    <2> QED
      BY <2>1, <2>2, <2>3, <2>4 DEF At, Free, SubscriptionSaves
  <1>3. CASE csAt[p].step # "save"
    BY <1>1, <1>3 DEF Missed
  <1> QED
    BY <1>2, <1>3

\* A person is not the absence of one.
LEMMA PersonsExist == \A c \in Person : c # NoPerson
  <1> SUFFICES ASSUME NEW c \in Person, c = NoPerson PROVE FALSE
    OBVIOUS
  <1>1. DOMAIN c = Flag
    BY DEF Person
  <1>2. DOMAIN c = {"person"}
    BY DEF NoPerson
  <1> QED
    BY <1>1, <1>2 DEF Flag

\* What an import's row may say.
LEMMA ImportRowsFit ==
  ASSUME NEW row \in ImportRow
  PROVE  /\ row.scope \in Scope /\ row.sets \subseteq Flag \ {"bad"}
         /\ row.source \in {"csv", "mailchimp"} /\ row.tag \in BOOLEAN
         /\ row.validation \in Given
         /\ row.status \in SubStatus \cup {"cleaned"}
         /\ row.source = "mailchimp" => row.status \in {"subscribed", "unsubscribed", "cleaned"}
         /\ row.source = "csv" => row.status # "cleaned"
  BY ContactAssumption DEF AllImportRows, SubStatus, Given, Flag

\* What an import makes of a subscription: an opt-out stays one, whether the row
\* makes it or finds it.
LEMMA ImportsKeep ==
  ASSUME NEW row \in ImportRow, NEW sub \in Subscription
  PROVE  /\ ImportedSub(row, sub) \in Subscription
         /\ sub.status = "unsubscribed" => ImportedSub(row, sub).status = "unsubscribed"
         /\ OptsOut(row) => ImportedSub(row, sub).status = "unsubscribed"
  <1>1. ImportedStatus(row, sub.status) \in SubStatus
    BY ImportRowsFit DEF ImportedStatus, OptsOut, SubStatus, Subscription
  <1>2. /\ sub.status = "unsubscribed" => ImportedStatus(row, sub.status) = "unsubscribed"
        /\ OptsOut(row) => ImportedStatus(row, sub.status) = "unsubscribed"
    BY DEF ImportedStatus
  <1>3. OptsOut(row) => MakesSubscription(row)
    BY ImportRowsFit DEF MakesSubscription, OptsOut, SubStatus
  <1> QED
    BY <1>1, <1>2, <1>3 DEF ImportedSub, Subscription

\* What a row changes of the contact it reads.
LEMMA ChangesFit ==
  ASSUME NEW row \in ImportRow, NEW c \in Person, NEW differs \in Differs
  PROVE  ChangeOf(row, c, differs) \in Change
  <1>1. Validates(row, c) \in Given
    BY ImportRowsFit DEF Validates, Given
  <1>2. \A f \in Flag : ChangeOf(row, c, differs)[f] \in Given
    BY <1>1 DEF ChangeOf, Given
  <1>3. \A f \in Flag \ {"bad"} : ChangeOf(row, c, differs)[f] # "clear"
    BY DEF ChangeOf
  <1>4. ChangeOf(row, c, differs) \in [Flag -> Given]
    BY <1>2 DEF ChangeOf
  <1> QED
    BY <1>3, <1>4 DEF Change

\* What an upsert leaves: a person and a subscription with the status it gave.
LEMMA UpsertsFit ==
  CsTypeOK =>
    /\ Upserted \in Person
    /\ \A in \in AllUpserts :
         /\ UpsertedPerson(Upserted, in) \in Person /\ UpsertedSub(in) \in Subscription
         /\ UpsertedSub(in).status = in.status
         /\ UpsertedPerson(Upserted, in)["global"] = After(Upserted["global"], in.global)
         /\ UpsertedPerson(Upserted, in)["hard"] = After(Upserted["hard"], in.hard)
  <1> SUFFICES ASSUME CsTypeOK
               PROVE  /\ Upserted \in Person
                      /\ \A in \in AllUpserts :
                           /\ UpsertedPerson(Upserted, in) \in Person
                           /\ UpsertedSub(in) \in Subscription
                           /\ UpsertedSub(in).status = in.status
                           /\ UpsertedPerson(Upserted, in)["global"]
                                = After(Upserted["global"], in.global)
                           /\ UpsertedPerson(Upserted, in)["hard"]
                                = After(Upserted["hard"], in.hard)
    OBVIOUS
  <1>1. Upserted \in Person
    BY DEF CsTypeOK, Upserted, Person
  <1> QED
    BY <1>1 DEF AllUpserts, UpsertedPerson, UpsertedSub, Subscription, After, Person, Flag,
       Given, SubStatus

\* A row of the CSV import is an upsert like the API's.
LEMMA CsvItemsFit == \A row \in CsvRow : CsvItem(row) \in AllUpserts
  BY ContactAssumption DEF AllCsvRows, CsvItem, AllUpserts, Given, SubStatus

\* A contact that a row has changed keeps the suppressions it had, and has those
\* of the row.
LEMMA ChangesKeep ==
  ASSUME NEW c \in Person, NEW change \in Change
  PROVE  /\ PersonAfter(c, change) \in Person
         /\ \A f \in {"global", "hard"} :
              c[f] \/ change[f] = "set" => PersonAfter(c, change)[f]
  <1>1. \A f \in Flag : After(c[f], change[f]) \in BOOLEAN
    BY DEF After, Person
  <1>2. PersonAfter(c, change) \in Person
    BY <1>1 DEF PersonAfter, Person
  <1>3. \A f \in {"global", "hard"} : change[f] \in {"keep", "set"}
    BY DEF Change, Flag, Given
  <1> QED
    BY <1>2, <1>3 DEF PersonAfter, After, Flag

\* The callers after a row is done.
LEMMA FinishedFits ==
  ASSUME CsTypeOK, NEW p \in Caller, NEW row \in ImportRow
  PROVE  /\ Finished(p, row) \in [Caller -> At \cup {Free}]
         /\ Finished(p, row)[p] = Free
         /\ \A o \in Caller \ {p} :
              Finished(p, row)[o] = IF OptsOut(row) THEN Missed(row.scope)[o] ELSE csAt[o]
  BY MissedFits, ImportRowsFit DEF Finished, CsTypeOK

-----------------------------------------------------------------------------
\* The requests that are read for, before anything is written.
Requests == {r \in At : r.step # "save" /\ ~ r.erased}

\* A caller that begins either creates the contact or holds one of Requests.
LEMMA FindsAreRequests ==
  ASSUME CsTypeOK, NEW p \in Caller, Begin(p)
  PROVE  \/ \E row \in ImportRow : ImportNew(p, row)
         \/ \E r \in Requests : Find(p, r)
  <1>1. ASSUME NEW row \in ImportRow, ImportFind(p, row) PROVE \E r \in Requests : Find(p, r)
    <2>1. PICK differs \in Differs :
            csAt' = [csAt EXCEPT ![p] =
                       [step |-> "found", row |-> row,
                        change |-> ChangeOf(row, csPerson, differs), erased |-> FALSE,
                        address |-> differs = "address"
                                    \/ (row.source = "csv"
                                        /\ SomeFlag(ChangeOf(row, csPerson, differs)))]]
      BY <1>1 DEF ImportFind
    <2>2. csPerson \in Person
      BY <1>1 DEF ImportFind, CsTypeOK
    <2> DEFINE change == ChangeOf(row, csPerson, differs)
               address == differs = "address" \/ (row.source = "csv" /\ SomeFlag(change))
    <2>3. change \in Change /\ address \in BOOLEAN
      BY <2>2, ChangesFit
    <2> HIDE DEF change, address
    <2>4. [step |-> "found", row |-> row, change |-> change, erased |-> FALSE,
           address |-> address] \in Requests
      BY <2>3 DEF Requests, At
    <2> QED
      BY <1>1, <2>1, <2>4 DEF ImportFind, Find, change, address
  <1>2. ASSUME NEW flag \in {"global", "hard"}, NEW to \in BOOLEAN, ReadSuppression(p, flag, to)
        PROVE  \E r \in Requests : Find(p, r)
    <2> DEFINE seen == csPerson # NoPerson /\ csPerson[flag]
    <2>1. seen \in BOOLEAN
      BY DEF CsTypeOK, Person, Flag
    <2> HIDE DEF seen
    <2>2. [step |-> "suppress", flag |-> flag, to |-> to, seen |-> seen, erased |-> FALSE]
            \in Requests
      BY <2>1 DEF Requests, At
    <2> QED
      BY <1>2, <2>2 DEF ReadSuppression, Read, seen
  <1>3. ASSUME NEW to \in BOOLEAN, ReadVerification(p, to)
        PROVE  \E r \in Requests : Find(p, r)
    <2> DEFINE seen == csPerson # NoPerson /\ csPerson["verified"]
    <2>1. seen \in BOOLEAN
      BY DEF CsTypeOK, Person, Flag
    <2> HIDE DEF seen
    <2>2. [step |-> "verify", to |-> to, erased |-> FALSE, seen |-> seen] \in Requests
      BY <2>1 DEF Requests, At
    <2> QED
      BY <1>3, <2>2 DEF ReadVerification, Read, seen
  <1>4. ASSUME NEW to \in BOOLEAN, ReadTag(p, to) PROVE \E r \in Requests : Find(p, r)
    <2>1. [step |-> "tag", to |-> to, erased |-> FALSE] \in Requests
      BY DEF Requests, At
    <2> QED
      BY <1>4, <2>1 DEF ReadTag
  <1>5. ASSUME NEW to \in StateForm, ReadState(p, to) PROVE \E r \in Requests : Find(p, r)
    <2>1. [step |-> "operate", person |-> to, erased |-> FALSE] \in Requests
      BY DEF Requests, At
    <2> QED
      BY <1>5, <2>1 DEF ReadState
  <1>6. ASSUME NEW sub \in SubForm, FindSubscriber(p, sub) PROVE \E r \in Requests : Find(p, r)
    <2>1. [step |-> "subscribe", sub |-> sub, erased |-> FALSE] \in Requests
      BY DEF Requests, At
    <2> QED
      BY <1>6, <2>1 DEF FindSubscriber
  <1> QED
    BY <1>1, <1>2, <1>3, <1>4, <1>5, <1>6 DEF Begin

-----------------------------------------------------------------------------
\* A step after which a caller is where it was, has missed an opt-out, or is done.
Unmoved(p) ==
    \/ csAt'[p] = Free \/ csAt'[p] = csAt[p]
    \/ csAt[p].step = "save" /\ csAt'[p] = [csAt[p] EXCEPT !.missed = TRUE]

\* Whoever will save a subscription has missed what is told of its scope now.
AllMissed(s) ==
    \A p \in Caller :
        csAt'[p].step = "save" /\ ~ csAt'[p].erased /\ csAt'[p].row.scope = s =>
            csAt'[p].missed

\* Callers that do not move keep what is known of them, if a step that tells of
\* an opt-out tells every import as well.
LEMMA CallersKeep ==
  ASSUME CsIInv, CsTypeOK', \A p \in Caller : Unmoved(p),
         \A s \in csTold' \cap Scope : s \in csTold \/ AllMissed(s),
         csPerson' = NoPerson => csPerson = NoPerson
  PROVE  SavesKeep' /\ SavesOptOut' /\ ErasedKnown'
  <1> SUFFICES ASSUME NEW p \in Caller
               PROVE  /\ csAt'[p].step = "save" /\ ~ csAt'[p].erased /\ ~ csAt'[p].missed
                           /\ csAt'[p].row.scope \in csTold' =>
                             csAt'[p].sub.status = "unsubscribed"
                      /\ csAt'[p].step = "save"
                           /\ OptsOut(csAt'[p].row) =>
                             csAt'[p].sub.status = "unsubscribed"
                      /\ csPerson' = NoPerson => csAt'[p] = Free \/ csAt'[p].erased
    BY DEF SavesKeep, SavesOptOut, ErasedKnown
  <1>1. CASE csAt'[p] = Free
    BY <1>1 DEF Free
  <1>2. CASE csAt'[p] = csAt[p]
    <2>1. csAt'[p].step = "save" => csAt'[p].row.scope \in Scope
      <3>1. csAt'[p].step = "save" => csAt'[p].row \in ImportRow
        BY DEF CsTypeOK, At, Free
      <3> QED
        BY <3>1, ImportRowsFit
    <2> QED
      BY <1>2, <2>1 DEF CsIInv, SavesKeep, SavesOptOut, ErasedKnown, AllMissed
  <1>3. CASE csAt[p].step = "save" /\ csAt'[p] = [csAt[p] EXCEPT !.missed = TRUE]
    <2>1. csAt[p] \in SubscriptionSaves
      BY <1>3 DEF CsIInv, CsTypeOK, At, Free, SubscriptionSaves
    <2>2. csAt'[p].missed /\ csAt'[p].erased = csAt[p].erased
          /\ csAt'[p].row = csAt[p].row /\ csAt'[p].sub = csAt[p].sub
      BY <1>3, <2>1 DEF SubscriptionSaves
    <2>3. csAt[p] # Free
      BY <1>3 DEF Free
    <2> QED
      BY <1>3, <2>2, <2>3 DEF CsIInv, SavesKeep, SavesOptOut, ErasedKnown
  <1> QED
    BY <1>1, <1>2, <1>3 DEF Unmoved

\* The callers after an opt-out: each is where it was or has missed it.
LEMMA MissedUnmoved ==
  ASSUME CsTypeOK, NEW scope \in Scope
  PROVE  \A p \in Caller :
           \/ Missed(scope)[p] = csAt[p]
           \/ csAt[p].step = "save" /\ Missed(scope)[p] = [csAt[p] EXCEPT !.missed = TRUE]
  BY DEF Missed

\* Everybody whose save is of the scope has missed it.
LEMMA MissedByAll ==
  ASSUME CsTypeOK, NEW scope \in Scope,
         \A p \in Caller : csAt'[p] = Missed(scope)[p] \/ csAt'[p] = Free
  PROVE  AllMissed(scope)
  <1> SUFFICES ASSUME NEW p \in Caller, csAt'[p].step = "save", ~ csAt'[p].erased,
                      csAt'[p].row.scope = scope
               PROVE  csAt'[p].missed
    BY DEF AllMissed
  <1>1. csAt'[p] = Missed(scope)[p]
    BY DEF Free
  <1>2. csAt[p].step = "save" /\ csAt[p] # Free
    BY <1>1, MissedFits DEF Free
  <1> QED
    BY <1>1, <1>2, MissedFits

\* An import that ends leaves the other callers where they are and tells the
\* opt-out of its row.
LEMMA FinishedUnmoved ==
  ASSUME CsTypeOK, NEW p \in Caller, NEW row \in ImportRow, csAt' = Finished(p, row)
  PROVE  /\ \A q \in Caller : Unmoved(q)
         /\ OptsOut(row) => AllMissed(row.scope)
  <1>1. row.scope \in Scope
    BY ImportRowsFit
  <1>2. csAt'[p] = Free
    BY FinishedFits
  <1>3. ASSUME NEW q \in Caller \ {p} PROVE Unmoved(q)
    <2>1. csAt'[q] \in {csAt[q], Missed(row.scope)[q]}
      BY FinishedFits
    <2> QED
      BY <1>1, <2>1, MissedUnmoved DEF Unmoved
  <1>4. ASSUME OptsOut(row) PROVE AllMissed(row.scope)
    <2>1. \A q \in Caller : csAt'[q] = Missed(row.scope)[q] \/ csAt'[q] = Free
      BY <1>2, <1>4, FinishedFits
    <2> QED
      BY <1>1, <2>1, MissedByAll
  <1>5. Unmoved(p)
    BY <1>2 DEF Unmoved
  <1> QED
    BY <1>3, <1>4, <1>5

-----------------------------------------------------------------------------
\* A contact that is upserted, by a request or by a file's row.
LEMMA UpsertsKeep ==
  ASSUME CsIInv, NEW in \in AllUpserts, Upsert(in)
  PROVE  CsIInv'
  <1> USE DEF CsIInv
  <1>1. /\ UpsertedPerson(Upserted, in) \in Person /\ UpsertedSub(in) \in Subscription
        /\ UpsertedSub(in).status = in.status
        /\ UpsertedPerson(Upserted, in)["global"] = After(Upserted["global"], in.global)
        /\ UpsertedPerson(Upserted, in)["hard"] = After(Upserted["hard"], in.hard)
    BY UpsertsFit
  <1>2. \A p \in Caller :
          /\ Unmoved(p)
          /\ in.status = "unsubscribed" => csAt'[p] = Missed("client")[p]
    BY MissedUnmoved DEF Upsert, Scope, Unmoved
  <1>3. csAt' \in [Caller -> At \cup {Free}]
    BY MissedFits DEF Upsert, Scope, CsTypeOK
  <1>4. csTold' \subseteq Told
    BY DEF Upsert
  <1>5. CsTypeOK'
    <2>1. csTag' \in BOOLEAN
      BY DEF Upsert, CsTypeOK, AllUpserts
    <2> QED
      BY <1>1, <1>3, <1>4, <2>1 DEF CsTypeOK, Upsert, Scope
  <1>6. csPerson' # NoPerson
    BY <1>1, PersonsExist DEF Upsert
  <1>7. ToldStored'
    <2>1. "client" \in csTold' => csSub'["client"].status = "unsubscribed"
      BY <1>1 DEF Upsert, CsTypeOK, Told, Scope
    <2>2. "audience" \in csTold' => csSub'["audience"].status = "unsubscribed"
      BY DEF Upsert, CsTypeOK, Told, Scope, ToldStored
    <2>3. "global" \in csTold' => csPerson'["global"]
      BY <1>1 DEF Upsert, After, ToldStored, Upserted
    <2>4. "hard" \in csTold' => csPerson'["hard"]
      BY <1>1 DEF Upsert, After, ToldStored, Upserted
    <2> QED
      BY <1>6, <2>1, <2>2, <2>3, <2>4 DEF ToldStored, Scope
  <1>8. \A s \in csTold' \cap Scope : s \in csTold \/ AllMissed(s)
    <2>1. in.status = "unsubscribed" => AllMissed("client")
      BY <1>2, MissedByAll DEF Scope
    <2>2. "client" \in csTold' => in.status = "unsubscribed"
      BY DEF Upsert
    <2>3. "audience" \in csTold' => "audience" \in csTold
      BY DEF Upsert
    <2> QED
      BY <2>1, <2>2, <2>3 DEF Scope
  <1>9. SavesKeep' /\ SavesOptOut' /\ ErasedKnown'
    BY <1>2, <1>5, <1>6, <1>8, CallersKeep
  <1> QED
    BY <1>5, <1>7, <1>9

-----------------------------------------------------------------------------
\* A subscribing request keeps the invariant.
LEMMA SubscribesKeep ==
  ASSUME CsIInv, Subscribe
  PROVE  CsIInv'
  <1> USE DEF CsIInv
  <1>1. csPerson' \in Person /\ csPerson' # NoPerson
    BY UpsertsFit, PersonsExist DEF Subscribe
  <1>2. CsTypeOK'
    <2>1. csTag' \in BOOLEAN
      BY DEF Subscribe, CsTypeOK
    <2> QED
      BY <1>1, <2>1 DEF Subscribe, CsTypeOK, Scope, Subscription, SubStatus
  <1>3. ToldStored'
    BY <1>1 DEF Subscribe, ToldStored, CsTypeOK, Scope, Upserted
  <1>4. SavesKeep' /\ SavesOptOut' /\ ErasedKnown'
    BY <1>1, <1>2, CallersKeep DEF Subscribe, Unmoved
  <1> QED
    BY <1>2, <1>3, <1>4

\* An opt-out by link, API or provider event keeps the invariant.
LEMMA OptOutsKeep ==
  ASSUME CsIInv, NEW scope \in Scope \cup {"global"}, OptOut(scope)
  PROVE  CsIInv'
  <1> USE DEF CsIInv
  <1>1. Upserted \in Person /\ (csPerson # NoPerson => Upserted = csPerson)
    BY UpsertsFit DEF Upserted
  <1>2. csTold' = csTold \cup {scope} /\ UNCHANGED <<csRest, csLeft>>
    BY DEF OptOut
  <1>3. CASE scope = "global"
    <2>1. /\ csPerson' = [Upserted EXCEPT !["global"] = TRUE]
          /\ UNCHANGED <<csSub, csAt>>
      BY <1>3 DEF OptOut
    <2>2. csPerson' \in Person /\ csPerson' # NoPerson
          /\ csPerson'["global"] /\ csPerson'["hard"] = Upserted["hard"]
      <3>1. csPerson' \in Person
        BY <1>1, <2>1 DEF Person
      <3>2. csPerson'["global"] /\ csPerson'["hard"] = Upserted["hard"]
        BY <1>1, <2>1 DEF Person, Flag
      <3> QED
        BY <3>1, <3>2, PersonsExist
    <2>3. CsTypeOK'
      BY <1>2, <1>3, <2>1, <2>2 DEF CsTypeOK, csRest, Told
    <2>4. ToldStored'
      BY <1>1, <1>2, <1>3, <2>1, <2>2 DEF ToldStored, Scope
    <2>5. SavesKeep' /\ SavesOptOut' /\ ErasedKnown'
      BY <1>2, <1>3, <2>1, <2>2, <2>3, CallersKeep DEF Unmoved, Scope
    <2> QED
      BY <1>2, <2>3, <2>4, <2>5
  <1>4. CASE scope \in Scope
    <2>1. /\ csPerson' = Upserted
          /\ csSub' = [csSub EXCEPT ![scope].status = "unsubscribed"]
          /\ csAt' = Missed(scope)
      BY <1>4 DEF OptOut, Scope
    <2>2. csPerson' \in Person /\ csPerson' # NoPerson
      BY <1>1, <2>1, PersonsExist
    <2>3. csSub' \in [Scope -> Subscription] /\ csSub'[scope].status = "unsubscribed"
          /\ \A s \in Scope \ {scope} : csSub'[s] = csSub[s]
      <3>1. csSub[scope] \in Subscription
        BY <1>4 DEF CsTypeOK
      <3>2. [csSub[scope] EXCEPT !.status = "unsubscribed"] \in Subscription
            /\ [csSub[scope] EXCEPT !.status = "unsubscribed"].status = "unsubscribed"
        BY <3>1 DEF Subscription, SubStatus
      <3> QED
        BY <1>4, <2>1, <3>2 DEF CsTypeOK
    <2>4. CsTypeOK'
      BY <1>2, <1>4, <2>1, <2>2, <2>3, MissedFits
      DEF CsTypeOK, csRest, Told, Scope
    <2>5. ToldStored'
      BY <1>1, <1>2, <1>4, <2>1, <2>2, <2>3 DEF ToldStored, Scope
    <2>6. \A q \in Caller : Unmoved(q)
      BY <1>4, <2>1, MissedUnmoved DEF Unmoved
    <2>7. AllMissed(scope)
      BY <1>4, <2>1, MissedByAll
    <2>8. SavesKeep' /\ SavesOptOut' /\ ErasedKnown'
      BY <1>2, <2>2, <2>4, <2>6, <2>7, CallersKeep
    <2> QED
      BY <1>2, <2>4, <2>5, <2>8
  <1> QED
    BY <1>3, <1>4

\* Requests that write what they hold the lock for, and no opt-out.
LEMMA LockedRequestsKeep ==
  ASSUME CsIInv,
         ProviderEvent \/ (\E enabled \in BOOLEAN : UpdatePreferences(enabled))
           \/ (\E bad \in BOOLEAN : SaveValidation(bad))
  PROVE  CsIInv'
  <1> USE DEF CsIInv
  <1>1. csPerson' \in Person /\ csPerson' # NoPerson
    <2>1. csPerson' \in Person
      BY UpsertsFit DEF ProviderEvent, UpdatePreferences, SaveValidation, Visible,
         CsTypeOK, Person
    <2> QED
      BY <2>1, PersonsExist
  <1>2. CsTypeOK'
    BY <1>1 DEF ProviderEvent, UpdatePreferences, SaveValidation, CsTypeOK, csRest,
       Told
  <1>3. ToldStored'
    <2>1. csSub' = csSub /\ csTold' \subseteq csTold \cup {"hard"}
      BY DEF ProviderEvent, UpdatePreferences, SaveValidation
    <2>2. "global" \in csTold => csPerson'["global"]
      BY DEF ProviderEvent, UpdatePreferences, SaveValidation, Visible, ToldStored,
         CsTypeOK, Person, Flag, Upserted
    <2>3. "hard" \in csTold' => csPerson'["hard"]
      BY DEF ProviderEvent, UpdatePreferences, SaveValidation, Visible, ToldStored,
         CsTypeOK, Person, Flag, Upserted
    <2> QED
      BY <1>1, <2>1, <2>2, <2>3 DEF ToldStored, Scope
  <1>4. SavesKeep' /\ SavesOptOut' /\ ErasedKnown'
    <2>1. csAt' = csAt /\ csTold' \cap Scope \subseteq csTold
      BY DEF ProviderEvent, UpdatePreferences, SaveValidation, Scope
    <2> QED
      BY <1>1, <1>2, <2>1, CallersKeep DEF Unmoved
  <1> QED
    BY <1>2, <1>3, <1>4

\* After an erasure everybody who held the contact knows.
LEMMA ErasuresKeep ==
  ASSUME CsIInv, Erase
  PROVE  CsIInv'
  <1> USE DEF CsIInv
  <1>1. \A p \in Caller :
          /\ csAt'[p] \in At \cup {Free}
          /\ csAt'[p] # Free => /\ csAt'[p].erased /\ csAt[p] # Free
                                /\ csAt'[p].step = csAt[p].step
                                /\ csAt[p].step = "save" =>
                                     /\ csAt'[p].row = csAt[p].row
                                     /\ csAt'[p].sub = csAt[p].sub
    <2> SUFFICES ASSUME NEW p \in Caller, csAt[p] # Free
                 PROVE  /\ csAt'[p] \in At /\ csAt'[p].erased
                        /\ csAt'[p].step = csAt[p].step
                        /\ csAt[p].step = "save" => /\ csAt'[p].row = csAt[p].row
                                                    /\ csAt'[p].sub = csAt[p].sub
      BY DEF Erase
    <2>1. csAt'[p] = [csAt[p] EXCEPT !.erased = TRUE]
      BY DEF Erase
    <2>2. csAt[p] \in At
      BY DEF CsTypeOK
    <2> QED
      BY <2>1, <2>2 DEF At
  <1>2. csLeft' = csLeft
    BY DEF Erase
  <1>3. CsTypeOK'
    <2>1. csAt' \in [Caller -> At \cup {Free}]
      BY <1>1 DEF Erase
    <2>2. csSub' \in [Scope -> Subscription]
      BY DEF Erase, NoSubscription, Subscription, SubStatus
    <2> QED
      BY <1>2, <2>1, <2>2 DEF Erase, CsTypeOK
  <1>4. ToldStored' /\ SavesKeep'
    BY <1>1 DEF Erase, ToldStored, SavesKeep, Free
  <1>5. SavesOptOut'
    BY <1>1 DEF SavesOptOut, Free
  <1>6. ErasedKnown'
    BY <1>1 DEF Erase, ErasedKnown
  <1> QED
    BY <1>2, <1>3, <1>4, <1>5, <1>6

-----------------------------------------------------------------------------
\* A caller that goes on without a write keeps the invariant, if it knows of no
\* subscription yet.
LEMMA ReadsKeep ==
  ASSUME CsIInv, NEW p \in Caller, NEW r \in Requests, Reads(p, r)
  PROVE  CsIInv'
  <1> USE DEF CsIInv
  <1>1. /\ csPerson # NoPerson /\ csAt' = [csAt EXCEPT ![p] = r]
        /\ UNCHANGED <<csPerson, csSub, csRest, csTold, csLeft>>
    BY DEF Reads
  <1>2. r \in At /\ r.step # "save" /\ ~ r.erased
    BY DEF Requests
  <1>3. CsTypeOK'
    BY <1>1, <1>2 DEF CsTypeOK, csRest
  <1>4. ToldStored'
    BY <1>1 DEF ToldStored
  <1>5. \A o \in Caller : csAt'[o] = r \/ csAt'[o] = csAt[o]
    BY <1>1 DEF CsTypeOK
  <1>6. SavesKeep'
    BY <1>1, <1>2, <1>5 DEF SavesKeep
  <1>7. SavesOptOut'
    BY <1>2, <1>5 DEF SavesOptOut
  <1>8. ErasedKnown'
    BY <1>1, <1>2, <1>5 DEF ErasedKnown
  <1> QED
    BY <1>3, <1>4, <1>6, <1>7, <1>8

\* A row that is committed keeps the invariant, if what it saves of the
\* subscription is an opt-out wherever one was told and not taken back, and
\* wherever the row is one.
LEMMA RowCommitsKeep ==
  ASSUME CsIInv, NEW p \in Caller, NEW row \in ImportRow, NEW c \in Person,
         NEW change \in Change, NEW sub \in Subscription, NEW over \in SUBSET {row.scope},
         CommitRow(p, row, c, change, sub),
         csPerson # NoPerson => c = csPerson,
         csTold' = (csTold \ over) \cup ToldBy(row, change),
         row.scope \in csTold \ over \/ OptsOut(row) => sub.status = "unsubscribed"
  PROVE  CsIInv'
  <1> USE DEF CsIInv
  <1>1. /\ csPerson' = PersonAfter(c, change) /\ csSub' = [csSub EXCEPT ![row.scope] = sub]
        /\ csTag' = (csTag \/ row.tag) /\ csAt' = Finished(p, row)
        /\ UNCHANGED <<csDisabled, csLeft>>
    BY DEF CommitRow, Finished
  <1>2. row.scope \in Scope /\ row.tag \in BOOLEAN
    BY ImportRowsFit
  <1>3. /\ csPerson' \in Person /\ csPerson' # NoPerson
        /\ \A f \in {"global", "hard"} : c[f] \/ change[f] = "set" => csPerson'[f]
    BY <1>1, ChangesKeep, PersonsExist
  <1>4. /\ \A t \in ToldBy(row, change) :
             \/ t \in {"global", "hard"} /\ change[t] = "set"
             \/ t = row.scope /\ OptsOut(row)
        /\ ToldBy(row, change) \subseteq Told
    BY <1>2 DEF ToldBy, Told, Scope
  <1>5. CsTypeOK'
    <2>1. csAt' \in [Caller -> At \cup {Free}]
      BY <1>1, FinishedFits
    <2>2. csTag' \in BOOLEAN
      BY <1>1, <1>2 DEF CsTypeOK
    <2>3. csSub' \in [Scope -> Subscription]
      BY <1>1, <1>2 DEF CsTypeOK
    <2>4. csTold' \subseteq Told
      BY <1>4 DEF CsTypeOK
    <2> QED
      BY <1>1, <1>3, <2>1, <2>2, <2>3, <2>4 DEF CsTypeOK
  <1>6. ToldStored'
    <2>1. row.scope \in csTold' => csSub'[row.scope].status = "unsubscribed"
      <3>1. row.scope \in csTold' => sub.status = "unsubscribed"
        BY <1>2, <1>4 DEF Scope
      <3> QED
        BY <1>1, <1>2, <3>1 DEF CsTypeOK
    <2>2. \A s \in Scope \ {row.scope} : s \in csTold' => csSub'[s].status = "unsubscribed"
      BY <1>1, <1>2, <1>4 DEF Scope, CsTypeOK, ToldStored
    <2>3. \A f \in {"global", "hard"} : f \in csTold' => csPerson'[f]
      <3>1. \A f \in {"global", "hard"} : f \in csTold => c[f]
        BY DEF ToldStored
      <3> QED
        BY <1>2, <1>3, <1>4, <3>1 DEF Scope
    <2> QED
      BY <1>3, <2>1, <2>2, <2>3 DEF ToldStored
  <1>7. SavesKeep' /\ SavesOptOut' /\ ErasedKnown'
    <2>1. /\ \A q \in Caller : Unmoved(q)
          /\ OptsOut(row) => AllMissed(row.scope)
      BY <1>1, FinishedUnmoved
    <2>2. \A s \in csTold' \cap Scope : s \in csTold \/ AllMissed(s)
      BY <1>4, <2>1 DEF Scope
    <2> QED
      BY <1>3, <1>5, <2>1, <2>2, CallersKeep
  <1> QED
    BY <1>5, <1>6, <1>7

\* An import that creates the contact keeps the invariant.
LEMMA NewRowsKeep ==
  ASSUME CsIInv, NEW p \in Caller, NEW row \in ImportRow, ImportNew(p, row)
  PROVE  CsIInv'
  <1> USE DEF CsIInv
  <1> DEFINE change == ChangeOf(row, Upserted, "nothing")
             sub == ImportedSub(row, csSub[row.scope])
  <1>1. /\ csPerson = NoPerson /\ CommitRow(p, row, Upserted, change, sub)
        /\ csTold' = csTold \cup ToldBy(row, change)
    BY DEF ImportNew
  <1>2. Upserted \in Person
    BY UpsertsFit
  <1>3. change \in Change
    BY <1>2, ChangesFit DEF Differs
  <1>4. row.scope \in Scope /\ csSub[row.scope] \in Subscription
    BY ImportRowsFit DEF CsTypeOK
  <1>5. /\ sub \in Subscription
        /\ csSub[row.scope].status = "unsubscribed" => sub.status = "unsubscribed"
        /\ OptsOut(row) => sub.status = "unsubscribed"
    BY <1>4, ImportsKeep
  <1>6. row.scope \in csTold => sub.status = "unsubscribed"
    BY <1>4, <1>5 DEF ToldStored
  <1> HIDE DEF change, sub
  <1> DEFINE over == {}
  <1>7. /\ csTold' = (csTold \ over) \cup ToldBy(row, change)
        /\ over \in SUBSET {row.scope}
        /\ row.scope \in csTold \ over \/ OptsOut(row) => sub.status = "unsubscribed"
    BY <1>1, <1>5, <1>6
  <1> HIDE DEF over
  <1> QED
    BY <1>1, <1>2, <1>3, <1>5, <1>7, RowCommitsKeep

\* An import that locks the contact it has found knows what it knew.
LEMMA LockedRowsKeep ==
  ASSUME CsIInv, NEW p \in Caller, ImportLock(p)
  PROVE  CsIInv'
  <1> USE DEF CsIInv
  <1> DEFINE r == [step |-> "locked", row |-> csAt[p].row, change |-> csAt[p].change,
                   erased |-> FALSE]
  <1>1. /\ csAt[p].step = "found" /\ ~ csAt[p].erased /\ csAt' = [csAt EXCEPT ![p] = r]
        /\ UNCHANGED <<csPerson, csSub, csRest, csTold, csLeft>>
    BY DEF ImportLock
  <1>2. csAt[p].row \in ImportRow /\ csAt[p].change \in Change
    BY <1>1 DEF CsTypeOK, At, Free
  <1>3. csPerson # NoPerson
    BY <1>1 DEF ErasedKnown, Free
  <1>4. r \in Requests
    BY <1>2 DEF Requests, At
  <1>5. Reads(p, r)
    BY <1>1, <1>3 DEF Reads
  <1> HIDE DEF r
  <1> QED
    BY <1>4, <1>5, ReadsKeep

\* An import that reads the subscription saves it later, or commits.
LEMMA ReadRowsKeep ==
  ASSUME CsIInv, NEW p \in Caller, ImportReadSub(p)
  PROVE  CsIInv'
  <1> USE DEF CsIInv
  <1> DEFINE row == csAt[p].row  change == csAt[p].change
             sub == ImportedSub(row, csSub[row.scope])
             holds == csAt[p].step = "locked"
             now == [step |-> "save", row |-> row, change |-> change, sub |-> sub,
                     holds |-> holds, missed |-> FALSE, erased |-> FALSE]
  <1>1. /\ csAt[p].step \in {"found", "locked"} /\ ~ csAt[p].erased
        /\ \/ /\ csAt' = [csAt EXCEPT ![p] = now]
              /\ UNCHANGED <<csPerson, csSub, csRest, csTold, csLeft>>
           \/ /\ CommitRow(p, row, csPerson, change, sub)
              /\ csTold' = csTold \cup ToldBy(row, change)
    BY DEF ImportReadSub
  <1>2. row \in ImportRow /\ change \in Change
    BY <1>1 DEF CsTypeOK, At, Free
  <1>3. csPerson # NoPerson /\ csPerson \in Person
    BY <1>1 DEF ErasedKnown, Free, CsTypeOK
  <1>4. row.scope \in Scope /\ csSub[row.scope] \in Subscription
    BY <1>2, ImportRowsFit DEF CsTypeOK
  <1>5. /\ sub \in Subscription
        /\ csSub[row.scope].status = "unsubscribed" => sub.status = "unsubscribed"
        /\ OptsOut(row) => sub.status = "unsubscribed"
    BY <1>2, <1>4, ImportsKeep
  <1>6. row.scope \in csTold => sub.status = "unsubscribed"
    BY <1>4, <1>5 DEF ToldStored
  <1>7. holds \in BOOLEAN
    OBVIOUS
  <1> HIDE DEF row, change, sub, holds
  <1>8. CASE /\ csAt' = [csAt EXCEPT ![p] = now]
             /\ UNCHANGED <<csPerson, csSub, csRest, csTold, csLeft>>
    <2>1. now \in At
      BY <1>2, <1>5, <1>7 DEF At
    <2>2. /\ now.row = row /\ now.sub = sub /\ ~ now.missed /\ ~ now.erased
      OBVIOUS
    <2> HIDE DEF now
    <2>3. \A o \in Caller : csAt'[o] = now \/ csAt'[o] = csAt[o]
      BY <1>8 DEF CsTypeOK
    <2>4. CsTypeOK'
      BY <1>8, <2>1 DEF CsTypeOK, csRest
    <2>5. ToldStored'
      BY <1>8 DEF ToldStored
    <2>6. SavesKeep'
      BY <1>6, <1>8, <2>2, <2>3 DEF SavesKeep
    <2>7. SavesOptOut'
      BY <1>5, <2>2, <2>3 DEF SavesOptOut
    <2>8. ErasedKnown'
      BY <1>3, <1>8, <2>2, <2>3 DEF ErasedKnown
    <2> QED
      BY <2>4, <2>5, <2>6, <2>7, <2>8
  <1>9. CASE /\ CommitRow(p, row, csPerson, change, sub)
             /\ csTold' = csTold \cup ToldBy(row, change)
    <2> DEFINE over == {}
    <2>1. /\ csTold' = (csTold \ over) \cup ToldBy(row, change)
          /\ over \in SUBSET {row.scope}
          /\ row.scope \in csTold \ over \/ OptsOut(row) => sub.status = "unsubscribed"
      BY <1>5, <1>6, <1>9
    <2> HIDE DEF over
    <2> QED
      BY <1>2, <1>3, <1>5, <1>9, <2>1, RowCommitsKeep
  <1> QED
    BY <1>1, <1>8, <1>9

\* The save of a subscription that was read before: over an opt-out it missed,
\* and over no other.
LEMMA SavedRowsKeep ==
  ASSUME CsIInv, NEW p \in Caller, ImportSave(p)
  PROVE  CsIInv'
  <1> USE DEF CsIInv
  <1> DEFINE row == csAt[p].row  change == csAt[p].change  sub == csAt[p].sub
             over == IF csAt[p].missed /\ sub.status # "unsubscribed"
                     THEN {row.scope} ELSE {}
  <1>1. /\ csAt[p].step = "save" /\ ~ csAt[p].erased
        /\ CommitRow(p, row, csPerson, change, sub)
        /\ csTold' = (csTold \ over) \cup ToldBy(row, change)
    BY DEF ImportSave
  <1>2. row \in ImportRow /\ change \in Change /\ sub \in Subscription
    BY <1>1 DEF CsTypeOK, At, Free
  <1>3. csPerson # NoPerson /\ csPerson \in Person
    BY <1>1 DEF ErasedKnown, Free, CsTypeOK
  <1>4. /\ OptsOut(row) => sub.status = "unsubscribed"
        /\ ~ csAt[p].missed /\ row.scope \in csTold => sub.status = "unsubscribed"
    BY <1>1 DEF SavesOptOut, SavesKeep
  <1>5. /\ over \in SUBSET {row.scope}
        /\ row.scope \in csTold \ over \/ OptsOut(row) => sub.status = "unsubscribed"
    BY <1>4
  <1> HIDE DEF row, change, sub, over
  <1> QED
    BY <1>1, <1>2, <1>3, <1>5, RowCommitsKeep

-----------------------------------------------------------------------------
\* The callers after one of them is done and nobody has missed anything.
LEMMA DoneUnmoved ==
  ASSUME CsTypeOK, NEW p \in Caller, csAt' = [csAt EXCEPT ![p] = Free]
  PROVE  csAt' \in [Caller -> At \cup {Free}] /\ \A q \in Caller : Unmoved(q)
  BY DEF CsTypeOK, Unmoved

\* Requests about a contact id that save columns of the contact, or its tag.
LEMMA SavesOfTheContactKeep ==
  ASSUME CsIInv, NEW p \in Caller,
         SaveSuppression(p) \/ SaveVerification(p) \/ SaveTag(p) \/ SaveState(p)
  PROVE  CsIInv'
  <1> USE DEF CsIInv
  <1>1. /\ csAt[p].step \in {"suppress", "verify", "tag", "operate"} /\ ~ csAt[p].erased
        /\ csAt' = [csAt EXCEPT ![p] = Free]
        /\ UNCHANGED <<csDisabled, csLeft>>
    BY DEF SaveSuppression, SaveVerification, SaveTag, SaveState, csRest
  <1>2. csAt[p] \in At
    BY <1>1 DEF CsTypeOK, Free
  <1>3. csPerson # NoPerson /\ csPerson \in Person
    BY <1>1 DEF ErasedKnown, Free, CsTypeOK
  <1>4. csAt' \in [Caller -> At \cup {Free}] /\ \A q \in Caller : Unmoved(q)
    BY <1>1, DoneUnmoved
  <1>5. /\ csPerson' \in Person /\ csSub' \in [Scope -> Subscription] /\ csTag' \in BOOLEAN
        /\ \A s \in Scope : csSub'[s].status = csSub[s].status
        /\ csTold' \subseteq Told /\ csTold' \cap Scope \subseteq csTold
        /\ \A f \in {"global", "hard"} : f \in csTold' => csPerson'[f]
    <2>1. CASE SaveSuppression(p)
      <3>1. csAt[p].flag \in {"global", "hard"} /\ csAt[p].to \in BOOLEAN
        BY <1>2, <2>1 DEF SaveSuppression, At
      <3>2. \/ UNCHANGED <<csPerson, csTold>>
            \/ /\ csPerson' = [csPerson EXCEPT ![csAt[p].flag] = csAt[p].to]
               /\ csTold' = IF csAt[p].to THEN csTold \cup {csAt[p].flag}
                            ELSE csTold \ {csAt[p].flag}
        BY <2>1 DEF SaveSuppression
      <3>4. UNCHANGED <<csSub, csTag>>
        BY <2>1 DEF SaveSuppression, csRest
      <3>5. csPerson' \in Person
        BY <1>3, <3>1, <3>2 DEF Person, Flag
      <3>6. csTold' \subseteq Told /\ csTold' \cap Scope \subseteq csTold
        BY <3>1, <3>2 DEF CsTypeOK, Told, Scope
      <3>7. \A f \in {"global", "hard"} : f \in csTold' => csPerson'[f]
        BY <1>3, <3>1, <3>2 DEF ToldStored, Person, Flag
      <3> QED
        BY <3>4, <3>5, <3>6, <3>7 DEF CsTypeOK
    <2>2. CASE SaveVerification(p)
      <3>1. csAt[p].to \in BOOLEAN
        BY <1>2, <2>2 DEF SaveVerification, At
      <3>2. csPerson' \in {csPerson, [csPerson EXCEPT !["verified"] = csAt[p].to]}
            /\ csSub' = [csSub EXCEPT !["client"].verified = csAt[p].to]
            /\ UNCHANGED <<csTag, csTold>>
        BY <2>2 DEF SaveVerification, csRest
      <3>3. csPerson' \in Person
            /\ \A f \in {"global", "hard"} : csPerson'[f] = csPerson[f]
        BY <1>3, <3>1, <3>2 DEF Person, Flag
      <3>4. csSub["client"] \in Subscription
        BY DEF CsTypeOK, Scope
      <3>5. /\ [csSub["client"] EXCEPT !.verified = csAt[p].to] \in Subscription
            /\ [csSub["client"] EXCEPT !.verified = csAt[p].to].status = csSub["client"].status
        BY <3>1, <3>4 DEF Subscription
      <3>6. csSub' \in [Scope -> Subscription]
            /\ \A s \in Scope : csSub'[s].status = csSub[s].status
        BY <3>2, <3>5 DEF CsTypeOK, Scope
      <3> QED
        BY <3>2, <3>3, <3>6 DEF CsTypeOK, ToldStored
    <2>3. CASE SaveTag(p)
      <3>1. csAt[p].to \in BOOLEAN
        BY <1>2, <2>3 DEF SaveTag, At
      <3> QED
        BY <1>3, <2>3, <3>1 DEF SaveTag, CsTypeOK, ToldStored
    <2>4. CASE SaveState(p)
      <3>1. csAt[p].person \in Person
        BY <1>2, <2>4, ContactAssumption DEF SaveState, At
      <3>2. /\ csPerson' = csAt[p].person /\ UNCHANGED <<csSub, csTag>>
            /\ csTold' = {t \in Told : IF t \in {"global", "hard"}
                                       THEN csAt[p].person[t] ELSE t \in csTold}
        BY <2>4 DEF SaveState, csRest
      <3> QED
        BY <3>1, <3>2 DEF CsTypeOK, Scope, Told
    <2> QED
      BY <2>1, <2>2, <2>3, <2>4
  <1>6. csPerson' # NoPerson
    BY <1>5, PersonsExist
  <1>7. CsTypeOK'
    BY <1>1, <1>4, <1>5 DEF CsTypeOK
  <1>8. ToldStored'
    BY <1>5, <1>6 DEF ToldStored, Scope
  <1>9. SavesKeep' /\ SavesOptOut' /\ ErasedKnown'
    BY <1>1, <1>4, <1>5, <1>6, <1>7, CallersKeep
  <1> QED
    BY <1>1, <1>7, <1>8, <1>9

\* The operator's subscription form keeps the invariant.
LEMMA SubscriptionFormsKeep ==
  ASSUME CsIInv, NEW p \in Caller, SaveSubscription(p)
  PROVE  CsIInv'
  <1> USE DEF CsIInv
  <1> DEFINE sub == csAt[p].sub
  <1>1. /\ csAt[p].step = "subscribe" /\ ~ csAt[p].erased
        /\ csSub' = [csSub EXCEPT !["client"] = sub]
        /\ UNCHANGED <<csPerson, csRest, csLeft>>
    BY DEF SaveSubscription
  <1>2. sub.status = "unsubscribed" =>
          csTold' = csTold \cup {"client"} /\ csAt' = [Missed("client") EXCEPT ![p] = Free]
    BY DEF SaveSubscription
  <1>3. sub.status # "unsubscribed" =>
          csTold' = csTold \ {"client"} /\ csAt' = [csAt EXCEPT ![p] = Free]
    BY DEF SaveSubscription
  <1>4. csAt[p] \in At
    BY <1>1 DEF CsTypeOK, Free
  <1>5. sub \in Subscription
    BY <1>1, <1>4, ContactAssumption DEF At
  <1>6. csPerson # NoPerson
    BY <1>1 DEF ErasedKnown, Free
  <1> HIDE DEF sub
  <1>7. Missed("client") \in [Caller -> At \cup {Free}]
    BY MissedFits DEF Scope
  <1>8. /\ csAt' \in [Caller -> At \cup {Free}]
        /\ \A q \in Caller : Unmoved(q)
        /\ sub.status = "unsubscribed" => AllMissed("client")
    <2>1. CASE sub.status = "unsubscribed"
      <3>1. \A q \in Caller : csAt'[q] = Missed("client")[q] \/ csAt'[q] = Free
        BY <1>2, <1>7, <2>1
      <3>2. AllMissed("client")
        BY <3>1, MissedByAll DEF Scope
      <3>3. \A q \in Caller : Unmoved(q)
        BY <3>1, MissedUnmoved DEF Scope, Unmoved
      <3> QED
        BY <1>2, <1>7, <2>1, <3>2, <3>3
    <2>2. CASE sub.status # "unsubscribed"
      BY <1>3, <2>2, DoneUnmoved
    <2> QED
      BY <2>1, <2>2
  <1>9. csTold' \subseteq Told /\ \A t \in csTold' : t \in csTold \/ t = "client"
    BY <1>2, <1>3 DEF CsTypeOK, Told
  <1>10. CsTypeOK'
    BY <1>1, <1>5, <1>8, <1>9 DEF CsTypeOK, csRest, Scope
  <1>11. ToldStored'
    BY <1>1, <1>2, <1>3, <1>6, <1>9 DEF ToldStored, CsTypeOK, Scope
  <1>12. SavesKeep' /\ SavesOptOut' /\ ErasedKnown'
    <2>1. \A s \in csTold' \cap Scope : s \in csTold \/ AllMissed(s)
      BY <1>2, <1>3, <1>8
    <2> QED
      BY <1>1, <1>6, <1>8, <1>10, <2>1, CallersKeep
  <1> QED
    BY <1>1, <1>10, <1>11, <1>12

\* A caller that saves after an erasure keeps the invariant.
LEMMA ErasedCallersKeep ==
  ASSUME CsIInv, NEW p \in Caller, FinishErased(p)
  PROVE  CsIInv'
  <1> USE DEF CsIInv
  <1>1. /\ csAt[p] # Free /\ csAt[p].erased
        /\ csLeft' = (csLeft \/ LeftBy(csAt[p]) # {})
        /\ csAt' = [csAt EXCEPT ![p] = Free]
        /\ UNCHANGED <<csPerson, csSub, csRest, csTold>>
    BY DEF FinishErased
  <1>2. csAt' \in [Caller -> At \cup {Free}] /\ \A q \in Caller : Unmoved(q)
    BY <1>1, DoneUnmoved
  <1>3. CsTypeOK'
    BY <1>1, <1>2 DEF CsTypeOK, csRest
  <1>4. ToldStored'
    BY <1>1 DEF ToldStored
  <1>5. SavesKeep' /\ SavesOptOut' /\ ErasedKnown'
    BY <1>1, <1>2, <1>3, CallersKeep
  <1> QED
    BY <1>3, <1>4, <1>5

-----------------------------------------------------------------------------
\* What is told is stored, and a save that was read before knows when it is not:
\* whatever the requests, the imports and the operators do in whatever order.
THEOREM ContactInvariance == CsSpec => []CsIInv
  <1>1. CsInit => CsIInv
    BY CsInitially
  <1>2. CsIInv /\ [CsNext]_csVars => CsIInv'
    <2> SUFFICES ASSUME CsIInv, [CsNext]_csVars PROVE CsIInv'
      OBVIOUS
    <2>1. CASE UNCHANGED csVars
      BY <2>1 DEF csVars, CsIInv, CsTypeOK, ToldStored, SavesKeep, SavesOptOut,
         ErasedKnown
    <2>2. ASSUME NEW in \in UpsertInput, Upsert(in) PROVE CsIInv'
      BY <2>2, ContactAssumption, UpsertsKeep
    <2>3. CASE Subscribe
      BY <2>3, SubscribesKeep
    <2>4. CASE Unsubscribe \/ UnsubscribeLink
      BY <2>4, OptOutsKeep DEF Unsubscribe, UnsubscribeLink
    <2>5. CASE ProviderEvent \/ (\E enabled \in BOOLEAN : UpdatePreferences(enabled))
                 \/ (\E bad \in BOOLEAN : SaveValidation(bad))
      BY <2>5, LockedRequestsKeep
    <2>6. ASSUME NEW row \in CsvRow, ImportFile(row) PROVE CsIInv'
      BY <2>6, CsvItemsFit, UpsertsKeep DEF ImportFile
    <2>7. CASE Erase
      BY <2>7, ErasuresKeep
    <2>8. ASSUME NEW p \in Caller, Begin(p) PROVE CsIInv'
      <3>1. CASE \E row \in ImportRow : ImportNew(p, row)
        BY <3>1, NewRowsKeep
      <3>2. CASE \E r \in Requests : Find(p, r)
        BY <3>2, ReadsKeep DEF Find, Reads
      <3> QED
        BY <2>8, <3>1, <3>2, FindsAreRequests DEF CsIInv
    <2>9. ASSUME NEW p \in Caller, Finish(p) PROVE CsIInv'
      BY <2>9, LockedRowsKeep, ReadRowsKeep, SavedRowsKeep, SavesOfTheContactKeep,
         SubscriptionFormsKeep, ErasedCallersKeep DEF Finish
    <2> QED
      BY <2>1, <2>2, <2>3, <2>4, <2>5, <2>6, <2>7, <2>8, <2>9
      DEF CsNext, CsRequest, CallerStep
  <1> QED
    BY <1>1, <1>2, PTL DEF CsSpec

\* The rows, and what each caller holds of them, have their types.
THEOREM ContactTypeCorrect == CsSpec => []CsTypeOK
  BY ContactInvariance, PTL DEF CsIInv

\* Nobody is mailed who has opted out: what was told stays in force until a
\* request or a file says otherwise, or an import that read before saves after.
THEOREM ToldIsKept == CsSpec => []CsToldIsKept
  <1>1. CsIInv => CsToldIsKept
    <2> SUFFICES ASSUME CsIInv, NEW t \in csTold PROVE InForce(t)
      BY DEF CsToldIsKept
    <2>1. t \in Told /\ csPerson # NoPerson
      BY DEF CsIInv, CsTypeOK, ToldStored
    <2> QED
      BY <2>1 DEF CsIInv, ToldStored, InForce, Told, Scope
  <1> QED
    BY <1>1, ContactInvariance, PTL

\* The API's can_send_marketing and the campaigns' skip reasons agree on every
\* contact, whatever its flags and subscriptions.
THEOREM SendableAgrees == CsSpec => []CsSendableAgrees
  <1>1. CsTypeOK => CsSendableAgrees
    <2> SUFFICES ASSUME CsTypeOK, csPerson # NoPerson
                 PROVE  CanSendMarketing(csPerson, csSub) <=>
                          SkipReason(csPerson, csSub, csDisabled) \in
                            {"", "audience unsubscribe", "category"}
                          /\ csSub["client"].status = "subscribed"
      BY DEF CsSendableAgrees
    <2>1. csPerson \in Person /\ csSub["client"] \in Subscription
          /\ csSub["audience"] \in Subscription
      BY DEF CsTypeOK, Scope
    <2> QED
      BY <2>1 DEF CanSendMarketing, MarketingAllowed, MarketingSuppression, Verified,
         SkipReason, Person, Flag, Subscription, SubStatus
  <1> QED
    BY <1>1, ContactTypeCorrect, PTL

-----------------------------------------------------------------------------
\* A subscription that is stored has a status, and stays there while a caller
\* is about to verify it.
SubscriptionsHaveStatus ==
    /\ \A s \in Scope : csSub[s].status # "none" \/ csSub[s] = NoSubscription
    /\ \A p \in Caller :
         /\ csAt[p].step = "save" => csAt[p].sub.status # "none"
         /\ csAt[p].step = "verify" /\ ~ csAt[p].erased => csSub["client"] # NoSubscription

\* What a caller may come to that is not where it was.
Moves(p) ==
    \/ csAt'[p].step \notin {"save", "verify"}
    \/ csAt'[p].step = "save" /\ csAt'[p].sub.status # "none"
    \/ csAt'[p].step = "verify" /\ csSub["client"] # NoSubscription

\* Steps that take no subscription away.
LEMMA StatusesKept ==
  ASSUME CsTypeOK, SubscriptionsHaveStatus,
         \A s \in Scope : csSub'[s] = csSub[s] \/ csSub'[s].status # "none",
         \A p \in Caller : Unmoved(p) \/ Moves(p)
  PROVE  SubscriptionsHaveStatus'
  <1>1. csSub["client"] # NoSubscription => csSub'["client"] # NoSubscription
    BY DEF Scope, NoSubscription
  <1>2. ASSUME NEW p \in Caller
        PROVE  /\ csAt'[p].step = "save" => csAt'[p].sub.status # "none"
               /\ csAt'[p].step = "verify" /\ ~ csAt'[p].erased =>
                    csSub'["client"] # NoSubscription
    <2>1. CASE csAt'[p] = Free
      BY <2>1 DEF Free
    <2>2. CASE csAt'[p] = csAt[p]
      BY <1>1, <2>2 DEF SubscriptionsHaveStatus
    <2>3. CASE csAt[p].step = "save" /\ csAt'[p] = [csAt[p] EXCEPT !.missed = TRUE]
      <3>1. csAt[p] \in SubscriptionSaves
        BY <2>3 DEF CsTypeOK, At, Free, SubscriptionSaves
      <3>2. csAt'[p].step = "save" /\ csAt'[p].sub = csAt[p].sub
        BY <2>3, <3>1 DEF SubscriptionSaves
      <3> QED
        BY <2>3, <3>2 DEF SubscriptionsHaveStatus
    <2>4. CASE Moves(p)
      BY <1>1, <2>4 DEF Moves
    <2> QED
      BY <2>1, <2>2, <2>3, <2>4 DEF Unmoved
  <1> QED
    BY <1>2 DEF SubscriptionsHaveStatus

\* A subscription that an import writes has a status, or is as it was.
LEMMA ImportsHaveStatus ==
  ASSUME NEW row \in ImportRow, NEW sub \in Subscription
  PROVE  ImportedSub(row, sub) = sub \/ ImportedSub(row, sub).status # "none"
  BY ImportRowsFit DEF ImportedSub, ImportedStatus

\* The requests that hold the contact's row.
LEMMA RequestsHaveStatus ==
  ASSUME CsTypeOK, SubscriptionsHaveStatus,
         \/ \E in \in AllUpserts : Upsert(in)
         \/ Subscribe \/ Unsubscribe \/ ProviderEvent
         \/ \E enabled \in BOOLEAN : UpdatePreferences(enabled)
         \/ \E bad \in BOOLEAN : SaveValidation(bad)
  PROVE  SubscriptionsHaveStatus'
  <1>1. ASSUME NEW in \in AllUpserts, Upsert(in) PROVE SubscriptionsHaveStatus'
    <2>1. \A p \in Caller : Unmoved(p)
      BY <1>1, MissedUnmoved DEF Upsert, Unmoved, Scope
    <2>2. UpsertedSub(in).status # "none"
      BY DEF UpsertedSub, AllUpserts
    <2> QED
      BY <1>1, <2>1, <2>2, StatusesKept DEF Upsert, CsTypeOK, Scope
  <1>2. CASE Subscribe
    BY <1>2, StatusesKept DEF Subscribe, Unmoved, CsTypeOK, Scope
  <1>3. ASSUME NEW scope \in Scope \cup {"global"}, OptOut(scope) PROVE SubscriptionsHaveStatus'
    <2>1. CASE scope = "global"
      BY <1>3, <2>1, StatusesKept DEF OptOut, Unmoved
    <2>2. CASE scope \in Scope
      <3>1. /\ csSub' = [csSub EXCEPT ![scope].status = "unsubscribed"]
            /\ csAt' = Missed(scope)
        BY <1>3, <2>2 DEF OptOut, Scope
      <3>2. csSub[scope] \in Subscription
        BY <2>2 DEF CsTypeOK
      <3>3. [csSub[scope] EXCEPT !.status = "unsubscribed"].status = "unsubscribed"
        BY <3>2 DEF Subscription
      <3>4. \A s \in Scope : csSub'[s] = csSub[s] \/ csSub'[s].status # "none"
        BY <2>2, <3>1, <3>3 DEF CsTypeOK
      <3>5. \A p \in Caller : Unmoved(p)
        BY <2>2, <3>1, MissedUnmoved DEF Unmoved
      <3> QED
        BY <3>4, <3>5, StatusesKept
    <2> QED
      BY <2>1, <2>2
  <1>4. CASE ProviderEvent \/ (\E enabled \in BOOLEAN : UpdatePreferences(enabled))
               \/ (\E bad \in BOOLEAN : SaveValidation(bad))
    <2>1. csSub' = csSub /\ csAt' = csAt
      BY <1>4 DEF ProviderEvent, UpdatePreferences, SaveValidation
    <2> QED
      BY <2>1, StatusesKept DEF Unmoved
  <1> QED
    BY <1>1, <1>2, <1>3, <1>4 DEF Unsubscribe

\* After an erasure there is no subscription, and no caller of the contact that
\* does not know.
LEMMA ErasuresHaveStatus ==
  ASSUME CsTypeOK, SubscriptionsHaveStatus, Erase
  PROVE  SubscriptionsHaveStatus'
  <1>1. \A s \in Scope : csSub'[s] = NoSubscription
    BY DEF Erase
  <1>2. ASSUME NEW p \in Caller, csAt[p] # Free
        PROVE  /\ csAt'[p].erased /\ csAt'[p].step = csAt[p].step
               /\ csAt[p].step = "save" => csAt'[p].sub = csAt[p].sub
    <2>1. csAt'[p] = [csAt[p] EXCEPT !.erased = TRUE]
      BY <1>2 DEF Erase
    <2>2. csAt[p] \in At
      BY <1>2 DEF CsTypeOK
    <2> QED
      BY <2>1, <2>2 DEF At
  <1>3. \A p \in Caller : csAt[p] = Free => csAt'[p] = Free
    BY DEF Erase
  <1> QED
    BY <1>1, <1>2, <1>3 DEF SubscriptionsHaveStatus, Free

\* A caller that begins reads, or makes a subscription with its contact.
LEMMA BeginsHaveStatus ==
  ASSUME CsTypeOK, SubscriptionsHaveStatus, NEW p \in Caller, Begin(p)
  PROVE  SubscriptionsHaveStatus'
  <1>1. ASSUME NEW row \in ImportRow, ImportNew(p, row) PROVE SubscriptionsHaveStatus'
    <2>1. /\ csSub' = [csSub EXCEPT ![row.scope] = ImportedSub(row, csSub[row.scope])]
          /\ csAt' = Finished(p, row)
      BY <1>1 DEF ImportNew, CommitRow, Finished
    <2>2. row.scope \in Scope /\ csSub[row.scope] \in Subscription
      BY ImportRowsFit DEF CsTypeOK
    <2>3. \A s \in Scope : csSub'[s] = csSub[s] \/ csSub'[s].status # "none"
      BY <2>1, <2>2, ImportsHaveStatus DEF CsTypeOK
    <2>4. \A o \in Caller : Unmoved(o)
      BY <2>1, FinishedUnmoved
    <2> QED
      BY <2>3, <2>4, StatusesKept
  <1>2. ASSUME NEW r, Find(p, r), r.step \notin {"save", "verify"}
        PROVE  SubscriptionsHaveStatus'
    <2>1. csSub' = csSub /\ \A o \in Caller : csAt'[o] = r \/ csAt'[o] = csAt[o]
      BY <1>2 DEF Find, CsTypeOK
    <2> QED
      BY <1>2, <2>1, StatusesKept DEF Unmoved, Moves
  <1>3. ASSUME NEW to \in BOOLEAN, ReadVerification(p, to) PROVE SubscriptionsHaveStatus'
    <2> DEFINE r == [step |-> "verify", to |-> to, erased |-> FALSE,
                     seen |-> csPerson # NoPerson /\ csPerson["verified"]]
    <2>1. csSub["client"] # NoSubscription /\ Find(p, r) /\ r.step = "verify"
      BY <1>3 DEF ReadVerification, Read, Visible
    <2> HIDE DEF r
    <2>2. csSub' = csSub /\ \A o \in Caller : csAt'[o] = r \/ csAt'[o] = csAt[o]
      BY <2>1 DEF Find, CsTypeOK
    <2> QED
      BY <2>1, <2>2, StatusesKept DEF Unmoved, Moves
  <1>4. ASSUME NEW row \in ImportRow, ImportFind(p, row) PROVE SubscriptionsHaveStatus'
    <2>1. PICK differs \in Differs :
            csAt' = [csAt EXCEPT ![p] =
                       [step |-> "found", row |-> row,
                        change |-> ChangeOf(row, csPerson, differs), erased |-> FALSE,
                        address |-> differs = "address"
                                    \/ (row.source = "csv"
                                        /\ SomeFlag(ChangeOf(row, csPerson, differs)))]]
      BY <1>4 DEF ImportFind
    <2> DEFINE r == [step |-> "found", row |-> row,
                     change |-> ChangeOf(row, csPerson, differs), erased |-> FALSE,
                     address |-> differs = "address"
                                 \/ (row.source = "csv"
                                     /\ SomeFlag(ChangeOf(row, csPerson, differs)))]
    <2>2. Find(p, r) /\ r.step = "found"
      BY <1>4, <2>1 DEF ImportFind, Find
    <2> QED
      BY <1>2, <2>2
  <1>5. ASSUME NEW flag \in {"global", "hard"}, NEW to \in BOOLEAN, ReadSuppression(p, flag, to)
        PROVE  SubscriptionsHaveStatus'
    <2> DEFINE r == [step |-> "suppress", flag |-> flag, to |-> to,
                     seen |-> csPerson # NoPerson /\ csPerson[flag], erased |-> FALSE]
    <2>1. Find(p, r) /\ r.step = "suppress"
      BY <1>5 DEF ReadSuppression, Read
    <2> QED
      BY <1>2, <2>1
  <1>6. ASSUME NEW to \in BOOLEAN, ReadTag(p, to) PROVE SubscriptionsHaveStatus'
    BY <1>2, <1>6 DEF ReadTag
  <1>7. ASSUME NEW to \in StateForm, ReadState(p, to) PROVE SubscriptionsHaveStatus'
    BY <1>2, <1>7 DEF ReadState
  <1>8. ASSUME NEW sub \in SubForm, FindSubscriber(p, sub) PROVE SubscriptionsHaveStatus'
    BY <1>2, <1>8 DEF FindSubscriber
  <1> QED
    BY <1>1, <1>3, <1>4, <1>5, <1>6, <1>7, <1>8 DEF Begin

\* The steps of an import that has read its contact.
LEMMA RowsHaveStatus ==
  ASSUME CsTypeOK, SubscriptionsHaveStatus, NEW p \in Caller,
         ImportLock(p) \/ ImportReadSub(p) \/ ImportSave(p)
  PROVE  SubscriptionsHaveStatus'
  <1> DEFINE row == csAt[p].row
             sub == ImportedSub(row, csSub[row.scope])
             now == [step |-> "save", row |-> row, change |-> csAt[p].change, sub |-> sub,
                     holds |-> csAt[p].step = "locked", missed |-> FALSE, erased |-> FALSE]
             locked == [step |-> "locked", row |-> row, change |-> csAt[p].change,
                        erased |-> FALSE]
  <1>1. csAt[p].step \in {"found", "locked", "save"}
    BY DEF ImportLock, ImportReadSub, ImportSave
  <1>2. row \in ImportRow /\ (csAt[p].step = "save" => csAt[p].sub \in Subscription)
    BY <1>1 DEF CsTypeOK, At, Free
  <1>3. row.scope \in Scope /\ csSub[row.scope] \in Subscription
    BY <1>2, ImportRowsFit DEF CsTypeOK
  <1>4. sub = csSub[row.scope] \/ sub.status # "none"
    BY <1>2, <1>3, ImportsHaveStatus
  <1>5. CASE csAt' = [csAt EXCEPT ![p] = locked] /\ csSub' = csSub
    <2>1. csAt'[p].step = "locked" /\ \A o \in Caller \ {p} : csAt'[o] = csAt[o]
      BY <1>5 DEF CsTypeOK
    <2> QED
      BY <1>5, <2>1, StatusesKept DEF Unmoved, Moves
  <1>6. CASE csAt' = [csAt EXCEPT ![p] = now] /\ csSub' = csSub
             /\ csSub[row.scope] # NoSubscription
    <2>1. csAt'[p].step = "save" /\ csAt'[p].sub = sub
          /\ \A o \in Caller \ {p} : csAt'[o] = csAt[o]
      BY <1>6 DEF CsTypeOK
    <2>2. sub.status # "none"
      BY <1>3, <1>4, <1>6 DEF SubscriptionsHaveStatus
    <2> QED
      BY <1>6, <2>1, <2>2, StatusesKept DEF Unmoved, Moves
  <1>7. CASE /\ csAt' = Finished(p, row)
             /\ \/ csSub' = [csSub EXCEPT ![row.scope] = sub]
                \/ csAt[p].step = "save" /\ csSub' = [csSub EXCEPT ![row.scope] = csAt[p].sub]
    <2>1. \A o \in Caller : Unmoved(o)
      BY <1>2, <1>7, FinishedUnmoved
    <2>2. csAt[p].step = "save" => csAt[p].sub.status # "none"
      BY DEF SubscriptionsHaveStatus
    <2>3. \A s \in Scope : csSub'[s] = csSub[s] \/ csSub'[s].status # "none"
      BY <1>3, <1>4, <1>7, <2>2 DEF CsTypeOK
    <2> QED
      BY <2>1, <2>3, StatusesKept
  <1>8. ImportLock(p) => csAt' = [csAt EXCEPT ![p] = locked] /\ csSub' = csSub
    BY DEF ImportLock
  <1>9. ImportSave(p) => /\ csAt[p].step = "save" /\ csAt' = Finished(p, row)
                         /\ csSub' = [csSub EXCEPT ![row.scope] = csAt[p].sub]
    BY DEF ImportSave, CommitRow, Finished
  <1>10. ImportReadSub(p) =>
           \/ /\ csAt' = [csAt EXCEPT ![p] = now] /\ csSub' = csSub
              /\ csSub[row.scope] # NoSubscription
           \/ csAt' = Finished(p, row) /\ csSub' = [csSub EXCEPT ![row.scope] = sub]
    BY DEF ImportReadSub, CommitRow, Finished
  <1> HIDE DEF row, sub, now, locked
  <1> QED
    BY <1>5, <1>6, <1>7, <1>8, <1>9, <1>10

\* The saves of the requests by contact id and of the operator's forms.
LEMMA SavesHaveStatus ==
  ASSUME CsTypeOK, SubscriptionsHaveStatus, NEW p \in Caller,
         \/ SaveSuppression(p) \/ SaveVerification(p) \/ SaveTag(p) \/ SaveState(p)
         \/ SaveSubscription(p) \/ FinishErased(p)
  PROVE  SubscriptionsHaveStatus'
  <1>1. ASSUME csAt' = [csAt EXCEPT ![p] = Free],
               \A s \in Scope : csSub'[s] = csSub[s] \/ csSub'[s].status # "none"
        PROVE  SubscriptionsHaveStatus'
    BY <1>1, DoneUnmoved, StatusesKept
  <1>2. CASE SaveSuppression(p) \/ SaveTag(p) \/ SaveState(p) \/ FinishErased(p)
    BY <1>1, <1>2 DEF SaveSuppression, SaveTag, SaveState, FinishErased
  <1>3. CASE SaveVerification(p)
    <2>1. /\ csSub["client"] # NoSubscription /\ csSub["client"] \in Subscription
          /\ csSub["client"].status # "none"
      BY <1>3 DEF SaveVerification, SubscriptionsHaveStatus, CsTypeOK, Scope
    <2>2. [csSub["client"] EXCEPT !.verified = csAt[p].to].status = csSub["client"].status
      BY <2>1 DEF Subscription
    <2>3. /\ csAt' = [csAt EXCEPT ![p] = Free]
          /\ csSub' = [csSub EXCEPT !["client"].verified = csAt[p].to]
      BY <1>3 DEF SaveVerification
    <2>4. \A s \in Scope : csSub'[s] = csSub[s] \/ csSub'[s].status # "none"
      BY <2>1, <2>2, <2>3 DEF CsTypeOK, Scope
    <2> QED
      BY <1>1, <2>3, <2>4
  <1>4. CASE SaveSubscription(p)
    <2>1. csAt[p].step = "subscribe" /\ csSub' = [csSub EXCEPT !["client"] = csAt[p].sub]
      BY <1>4 DEF SaveSubscription
    <2>2. csAt[p].sub \in SubForm
      BY <2>1 DEF CsTypeOK, At, Free
    <2>3. csAt[p].sub.status # "none"
      BY <2>2, ContactAssumption
    <2>4. \A s \in Scope : csSub'[s] = csSub[s] \/ csSub'[s].status # "none"
      BY <2>1, <2>3 DEF CsTypeOK
    <2>5. \A o \in Caller : Unmoved(o)
      <3>1. csAt[p].sub.status # "unsubscribed" => csAt' = [csAt EXCEPT ![p] = Free]
        BY <1>4 DEF SaveSubscription
      <3>2. csAt[p].sub.status = "unsubscribed" => csAt' = [Missed("client") EXCEPT ![p] = Free]
        BY <1>4 DEF SaveSubscription
      <3>3. csAt[p].sub.status = "unsubscribed" =>
              \A q \in Caller : csAt'[q] = Missed("client")[q] \/ csAt'[q] = Free
        BY <3>2, MissedFits DEF Scope
      <3> QED
        BY <3>1, <3>3, MissedUnmoved, DoneUnmoved DEF Scope, Unmoved
    <2> QED
      BY <2>4, <2>5, StatusesKept
  <1> QED
    BY <1>2, <1>3, <1>4

\* Every step keeps it.
LEMMA SubscriptionsStep ==
  CsTypeOK /\ SubscriptionsHaveStatus /\ [CsNext]_csVars => SubscriptionsHaveStatus'
  <1> SUFFICES ASSUME CsTypeOK, SubscriptionsHaveStatus, [CsNext]_csVars
               PROVE  SubscriptionsHaveStatus'
    OBVIOUS
  <1>1. CASE UNCHANGED csVars
    BY <1>1 DEF csVars, SubscriptionsHaveStatus
  <1>2. ASSUME NEW in \in UpsertInput, Upsert(in) PROVE SubscriptionsHaveStatus'
    BY <1>2, ContactAssumption, RequestsHaveStatus DEF Upsert
  <1>3. ASSUME NEW row \in CsvRow, ImportFile(row) PROVE SubscriptionsHaveStatus'
    BY <1>3, CsvItemsFit, RequestsHaveStatus DEF ImportFile
  <1>4. CASE \/ Subscribe \/ Unsubscribe \/ UnsubscribeLink \/ ProviderEvent
             \/ \E enabled \in BOOLEAN : UpdatePreferences(enabled)
             \/ \E bad \in BOOLEAN : SaveValidation(bad)
    BY <1>4, RequestsHaveStatus DEF UnsubscribeLink
  <1>5. CASE Erase
    BY <1>5, ErasuresHaveStatus
  <1>6. ASSUME NEW p \in Caller, Begin(p) PROVE SubscriptionsHaveStatus'
    BY <1>6, BeginsHaveStatus
  <1>7. ASSUME NEW p \in Caller, Finish(p) PROVE SubscriptionsHaveStatus'
    BY <1>7, RowsHaveStatus, SavesHaveStatus DEF Finish
  <1> QED
    BY <1>1, <1>2, <1>3, <1>4, <1>5, <1>6, <1>7 DEF CsNext, CsRequest, CallerStep

\* Whoever has a subscription has a status, so that no exported row is blank.
THEOREM SubscriptionInvariance == CsSpec => []SubscriptionsHaveStatus
  <1>1. CsInit => SubscriptionsHaveStatus
    BY DEF CsInit, SubscriptionsHaveStatus, Free
  <1> QED
    BY <1>1, SubscriptionsStep, ContactTypeCorrect, PTL DEF CsSpec

\* A contact that is recreated from its exported row is exported as the same row
\* but for the two times and the reason that no import reads, and is as sendable
\* as it was but for the subscription of the audience.
THEOREM RoundTripHolds == CsSpec => []CsRoundTrip
  <1>1. CsTypeOK /\ SubscriptionsHaveStatus => CsRoundTrip
    <2> SUFFICES ASSUME CsTypeOK, SubscriptionsHaveStatus, csPerson # NoPerson,
                        csSub["client"] # NoSubscription,
                        NEW kept \in {k \in Kept : k.at = "then"}
                 PROVE  LET row == ExportRow(csPerson, csSub, csTag, kept)
                            item == CsvItem(row)
                            c == UpsertedPerson([f \in Flag |-> FALSE], item)
                            sub == [client |-> UpsertedSub(item), audience |-> NoSubscription]
                            again == ExportRow(c, sub, item.tag, KeptBy(row)) IN
                        /\ \A column \in DOMAIN row \ Unread : again[column] = row[column]
                        /\ again.verifiedAt = IF row.verified THEN "import" ELSE "blank"
                        /\ again.unsubscribedAt = IF row.status = "unsubscribed"
                                                  THEN "import" ELSE "blank"
                        /\ again.unsubscribeReason = "blank"
                        /\ CanSendMarketing(c, sub) =
                             CanSendMarketing(csPerson,
                                              [csSub EXCEPT !["audience"] = NoSubscription])
      BY DEF CsRoundTrip
    <2> DEFINE row == ExportRow(csPerson, csSub, csTag, kept)
               item == CsvItem(row)
               c == UpsertedPerson([f \in Flag |-> FALSE], item)
               sub == [client |-> UpsertedSub(item), audience |-> NoSubscription]
               again == ExportRow(c, sub, item.tag, KeptBy(row))
    <2>1. /\ csPerson \in Person /\ csSub["client"] \in Subscription
          /\ csSub["client"].status # "none"
      BY DEF CsTypeOK, Scope, SubscriptionsHaveStatus
    <2>2. /\ row.status = csSub["client"].status
          /\ row.verified = (csPerson["verified"] \/ csSub["client"].verified)
          /\ row.bad = csPerson["bad"] /\ row.global = csPerson["global"]
          /\ row.hard = csPerson["hard"] /\ row.tag = csTag
          /\ row.validation = kept.validation
      BY DEF ExportRow
    <2>3. /\ item.status = row.status /\ item.verified = row.verified
          /\ item.bad = (IF row.bad THEN "set" ELSE "clear")
          /\ item.global = (IF row.global THEN "set" ELSE "clear")
          /\ item.hard = (IF row.hard THEN "set" ELSE "clear")
          /\ item.tag = row.tag
      BY <2>1, <2>2 DEF CsvItem
    <2>4. \A f \in Flag : csPerson[f] \in BOOLEAN
      BY <2>1 DEF Person
    <2>5. /\ c["verified"] = FALSE /\ c["bad"] = csPerson["bad"]
          /\ c["global"] = csPerson["global"] /\ c["hard"] = csPerson["hard"]
      BY <2>2, <2>3, <2>4 DEF UpsertedPerson, After, Flag
    <2>6. /\ sub["client"].status = csSub["client"].status
          /\ sub["client"].verified = (csPerson["verified"] \/ csSub["client"].verified)
          /\ sub["audience"].verified = FALSE
      BY <2>2, <2>3 DEF UpsertedSub, NoSubscription
    <2>7. DOMAIN row = {"status", "verified", "bad", "global", "hard", "tag", "verifiedAt",
                        "unsubscribedAt", "unsubscribeReason", "validation"}
      BY DEF ExportRow
    <2>8. (c["verified"] \/ sub["client"].verified) = row.verified
      BY <2>1, <2>2, <2>4, <2>5, <2>6 DEF Subscription, Flag
    <2> HIDE DEF c, sub, item, row
    <2>9. again = [status |-> row.status, verified |-> row.verified, bad |-> row.bad,
                   global |-> row.global, hard |-> row.hard, tag |-> row.tag,
                   verifiedAt |-> IF row.verified THEN "import" ELSE "blank",
                   unsubscribedAt |-> IF row.status = "unsubscribed"
                                      THEN "import" ELSE "blank",
                   unsubscribeReason |-> "blank", validation |-> row.validation]
      <3>1. /\ KeptBy(row).at = "import" /\ KeptBy(row).reason = "blank"
            /\ KeptBy(row).validation = row.validation
        BY DEF KeptBy
      <3> QED
        BY <2>2, <2>3, <2>5, <2>6, <2>8, <3>1 DEF ExportRow, Stamp
    <2> HIDE DEF again
    <2>10. /\ \A column \in DOMAIN row \ Unread : again[column] = row[column]
           /\ again.verifiedAt = IF row.verified THEN "import" ELSE "blank"
           /\ again.unsubscribedAt = IF row.status = "unsubscribed"
                                     THEN "import" ELSE "blank"
           /\ again.unsubscribeReason = "blank"
      BY <2>7, <2>9 DEF Unread
    <2> DEFINE old == [csSub EXCEPT !["audience"] = NoSubscription]
    <2>11. old["client"] = csSub["client"] /\ old["audience"] = NoSubscription
      BY DEF CsTypeOK, Scope
    <2> HIDE DEF old
    <2>12. Verified(c, sub) = Verified(csPerson, old)
      BY <2>1, <2>4, <2>5, <2>6, <2>11 DEF Verified, NoSubscription, Subscription, Flag
    <2>13. MarketingAllowed(c, sub) = MarketingAllowed(csPerson, old)
      BY <2>5, <2>6, <2>11 DEF MarketingAllowed, MarketingSuppression
    <2>14. CanSendMarketing(c, sub) = CanSendMarketing(csPerson, old)
      BY <2>12, <2>13 DEF CanSendMarketing
    <2> QED
      BY <2>10, <2>14 DEF c, sub, item, old, row, again
  <1> QED
    BY <1>1, SubscriptionInvariance, ContactTypeCorrect, PTL

=============================================================================

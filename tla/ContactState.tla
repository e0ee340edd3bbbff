---------------------------- MODULE ContactState ----------------------------
(***************************************************************************)
(* What decides whether a person may be sent marketing email, and all that *)
(* writes it: the contact API (services/api.py), unsubscribe links and     *)
(* provider events, the three imports (audience_import.py,                 *)
(* mailchimp_import.py, contact_import_export.py), the CSV export, the     *)
(* operators' page of a contact (operator_management.py) and the erasure,  *)
(* seen by one client of one audience.                                     *)
(*                                                                         *)
(* On Postgres, a request that begins with upsert_contact, an unsubscribe  *)
(* link and the erasure hold the lock of the contact's row to their end    *)
(* and are one action each.  The requests about a contact id and the rows  *)
(* of the imports read without a lock and save what they read later: each  *)
(* of those is the steps of a caller.  An import that saves the contact    *)
(* holds its row from there to the commit: the requests that lock or save  *)
(* the contact wait for it, and those that only write the subscription or  *)
(* a tag do not.  What it has written is seen when it commits.             *)
(***************************************************************************)
EXTENDS Naturals, FiniteSets

CONSTANTS Caller,       \* connections running an import or a request by id
          UpsertInput,  \* the profile upserts of the model
          ImportRow,    \* the rows of the two audience imports
          CsvRow,       \* the rows of the contact CSV import
          StateForm,    \* what an operator's form may say of the contact
          SubForm       \* and of its subscription

Scope == {"client", "audience"}
SubStatus == {"none", "pending", "subscribed", "unsubscribed"}
Flag == {"verified", "bad", "global", "hard"}
Given == {"keep", "set", "clear"}

Person == [Flag -> BOOLEAN]
NoPerson == [person |-> "none"]
Subscription == [status : SubStatus, verified : BOOLEAN]
NoSubscription == [status |-> "none", verified |-> FALSE]

AllUpserts == [status : SubStatus \ {"none"}, verified : BOOLEAN, bad : Given,
               global : Given, hard : Given, tag : BOOLEAN]
\* A row of the audience CSV or of a Mailchimp archive; a blank status is "none",
\* and a blank email_validation_status "keep".
AllImportRows ==
    [source : {"csv"}, scope : Scope, status : SubStatus,
     sets : SUBSET (Flag \ {"bad"}), validation : Given, tag : BOOLEAN]
    \cup [source : {"mailchimp"}, scope : Scope,
          status : {"subscribed", "unsubscribed", "cleaned"}, sets : {{}},
          validation : {"keep"}, tag : BOOLEAN]

\* A row of the contact CSV, which is also what the CSV export writes: a column
\* that is missing is FALSE, "none" or "blank".  A time is that of the row's
\* first life or that of the import; "validation" is the reason and the time of
\* the validation.
Times == {"blank", "then", "import"}
Text == {"blank", "given"}
AllCsvRows == [status : SubStatus, verified : BOOLEAN, bad : BOOLEAN,
               global : BOOLEAN, hard : BOOLEAN, tag : BOOLEAN, verifiedAt : Times,
               unsubscribedAt : Times, unsubscribeReason : Text, validation : Text]

ASSUME ContactAssumption ==
    /\ UpsertInput \subseteq AllUpserts
    /\ ImportRow \subseteq AllImportRows
    /\ CsvRow \subseteq AllCsvRows
    /\ StateForm \subseteq Person
    /\ SubForm \subseteq {sub \in Subscription : sub.status # "none"}

VARIABLES csPerson,    \* the contact's row under the address
          csSub,       \* its subscriptions: of the client, of the audience alone
          csDisabled,  \* its category preference is "disabled"
          csTag,       \* it has the tag
          csAt,        \* what each caller is in the middle of
          csTold,      \* ghost: opt-outs and suppressions nobody has revoked
          csLeft       \* ghost: something was stored about a contact after its erasure

csVars == <<csPerson, csSub, csDisabled, csTag, csAt, csTold, csLeft>>
csRest == <<csDisabled, csTag>>

Free == [step |-> "free"]
Told == {"client", "audience", "global", "hard"}
\* What an import's row writes of each flag: it clears nothing but a bad address.
Change == {change \in [Flag -> Given] : \A f \in Flag \ {"bad"} : change[f] # "clear"}
At == [step : {"found"}, row : ImportRow, change : Change, address : BOOLEAN,
       erased : BOOLEAN]
      \cup [step : {"locked"}, row : ImportRow, change : Change, erased : BOOLEAN]
      \cup [step : {"save"}, row : ImportRow, change : Change, holds : BOOLEAN,
            sub : Subscription, missed : BOOLEAN, erased : BOOLEAN]
      \cup [step : {"suppress"}, flag : {"global", "hard"}, to : BOOLEAN,
            seen : BOOLEAN, erased : BOOLEAN]
      \cup [step : {"verify"}, to : BOOLEAN, seen : BOOLEAN, erased : BOOLEAN]
      \cup [step : {"tag"}, to : BOOLEAN, erased : BOOLEAN]
      \cup [step : {"operate"}, person : StateForm, erased : BOOLEAN]
      \cup [step : {"subscribe"}, sub : SubForm, erased : BOOLEAN]

CsTypeOK ==
    /\ csPerson \in Person \cup {NoPerson}
    /\ csSub \in [Scope -> Subscription]
    /\ csDisabled \in BOOLEAN /\ csTag \in BOOLEAN
    /\ csAt \in [Caller -> At \cup {Free}]
    /\ csTold \subseteq Told
    /\ csLeft \in BOOLEAN

CsInit ==
    /\ csPerson = NoPerson
    /\ csSub = [s \in Scope |-> NoSubscription]
    /\ csDisabled = FALSE /\ csTag = FALSE
    /\ csAt = [p \in Caller |-> Free]
    /\ csTold = {} /\ csLeft = FALSE

-----------------------------------------------------------------------------
(* Eligibility: what the API answers, and what a campaign goes by.         *)

MarketingSuppression(c) == c.global \/ c.hard
Verified(c, sub) == c.verified \/ sub["audience"].verified \/ sub["client"].verified

\* Mutant: the contact's global unsubscribe is not looked at.
AllowedForSubscriber(c, sub) ==
    sub["client"].status = "subscribed" /\ ~ c.hard /\ ~ c.bad

\* is_marketing_email_allowed
MarketingAllowed(c, sub) ==
    ~ MarketingSuppression(c) /\ ~ c.bad /\ sub["client"].status = "subscribed"

\* can_send_marketing of the contact's status
CanSendMarketing(c, sub) == Verified(c, sub) /\ MarketingAllowed(c, sub)

\* campaigns._skip_reason, the first that holds; "" is a recipient.
SkipReason(c, sub, disabled) ==
    CASE c.hard -> "hard suppression"
      [] ~ c.hard /\ c.global -> "global unsubscribe"
      [] ~ MarketingSuppression(c) /\ c.bad -> "invalid email"
      [] OTHER ->
           IF ~ Verified(c, sub) THEN "unverified"
           ELSE IF sub["audience"].status = "unsubscribed" THEN "audience unsubscribe"
           ELSE IF sub["client"].status = "unsubscribed" THEN "client unsubscribe"
           ELSE IF sub["client"].status # "subscribed" THEN "suppressed"
           ELSE IF disabled THEN "category" ELSE ""

-----------------------------------------------------------------------------
(* Requests that hold the contact's row, once no import does.              *)

Holds(p) == \/ csAt[p].step = "locked"
            \/ csAt[p].step = "save" /\ csAt[p].holds
Unlocked == \A p \in Caller : ~ Holds(p)

\* upsert_contact: the row found or created.
Upserted == IF csPerson = NoPerson THEN [f \in Flag |-> FALSE] ELSE csPerson

After(old, given) == IF given = "keep" THEN old ELSE given = "set"

\* The contact and the client's subscription after upsert_contact_for_client.
UpsertedPerson(c, in) ==
    [c EXCEPT !["bad"] = After(@, in.bad), !["global"] = After(@, in.global),
              !["hard"] = After(@, in.hard)]
UpsertedSub(in) == [status |-> in.status, verified |-> in.verified]

\* A caller between its read and its save of the subscription has missed it.
Missed(scope) ==
    [p \in Caller |->
        IF csAt[p].step = "save" /\ ~ csAt[p].erased /\ csAt[p].row.scope = scope
        THEN [csAt[p] EXCEPT !.missed = TRUE] ELSE csAt[p]]

\* A blank status is "pending", and "verified" that is not given is False.
Upsert(in) ==
    /\ Unlocked
    /\ csPerson' = UpsertedPerson(Upserted, in)
    /\ csSub' = [csSub EXCEPT !["client"] = UpsertedSub(in)]
    /\ csTag' = (csTag \/ in.tag)
    /\ csTold' = {t \in Told :
         CASE t = "client" -> in.status = "unsubscribed"
           [] t = "audience" -> t \in csTold
           [] t = "global" -> in.global = "set" \/ (in.global = "keep" /\ t \in csTold)
           [] t = "hard" -> in.hard = "set" \/ (in.hard = "keep" /\ t \in csTold)}
    /\ csAt' = IF in.status = "unsubscribed" THEN Missed("client") ELSE csAt
    /\ UNCHANGED <<csDisabled, csLeft>>

\* subscribe_for_client also verifies the subscription, and assigns tags.
Subscribe ==
    /\ Unlocked
    /\ csPerson' = Upserted
    /\ csSub' = [csSub EXCEPT !["client"] = [status |-> "subscribed", verified |-> TRUE]]
    /\ \E tagged \in BOOLEAN : csTag' = (csTag \/ tagged)
    /\ csTold' = csTold \ {"client"}
    /\ UNCHANGED <<csDisabled, csAt, csLeft>>

\* unsubscribe_contact and the global flag, by the API or by a link.
OptOut(scope) ==
    /\ Unlocked
    /\ csTold' = csTold \cup {scope}
    /\ IF scope = "global"
       THEN /\ csPerson' = [Upserted EXCEPT !["global"] = TRUE]
            /\ UNCHANGED <<csSub, csAt>>
       ELSE /\ csPerson' = Upserted
            /\ csSub' = [csSub EXCEPT ![scope].status = "unsubscribed"]
            /\ csAt' = Missed(scope)
    /\ UNCHANGED <<csRest, csLeft>>

Unsubscribe == \E scope \in Scope \cup {"global"} : OptOut(scope)

\* A link of an email that was sent to this contact; it locks every row it joins.
UnsubscribeLink == csPerson # NoPerson /\ Unsubscribe

\* A bounce or a complaint.
ProviderEvent ==
    /\ csPerson # NoPerson /\ Unlocked
    /\ csPerson' = [csPerson EXCEPT !["hard"] = TRUE]
    /\ csTold' = csTold \cup {"hard"}
    /\ UNCHANGED <<csSub, csRest, csAt, csLeft>>

\* A suppressed contact that would be enabled answers 409 and is rolled back.
UpdatePreferences(enabled) ==
    /\ Unlocked
    /\ ~ (enabled /\ MarketingSuppression(Upserted))
    /\ csPerson' = Upserted
    /\ csDisabled' = ~ enabled
    /\ UNCHANGED <<csSub, csTag, csAt, csTold, csLeft>>

\* The row stays under an address of its own; the person's address is free
\* again.  What relates the contact to the client (a subscription, a list, an
\* email) is left open.  A caller that has read the contact goes on with it.
Erase ==
    /\ csPerson # NoPerson /\ Unlocked
    /\ csPerson' = NoPerson
    /\ csSub' = [s \in Scope |-> NoSubscription]
    /\ csDisabled' = FALSE /\ csTag' = FALSE
    /\ csTold' = {}
    /\ csAt' = [p \in Caller |-> IF csAt[p] = Free THEN Free
                                 ELSE [csAt[p] EXCEPT !.erased = TRUE]]
    /\ UNCHANGED csLeft

-----------------------------------------------------------------------------
(* The CSV export, and the import of such a file.                          *)

\* The columns that decide nothing here and are not in the state: when it was
\* verified and unsubscribed, the reason it gave, the validation's reason and time.
Kept == [at : {"then", "import"}, reason : Text, validation : Text]

Stamp(kept, happened) == IF happened THEN kept.at ELSE "blank"

\* Mutant: the contact's own verification is not exported.
ExportWithoutContact(c, sub, tag, kept) ==
    LET unsubscribed == sub["client"].status = "unsubscribed" IN
    [status |-> sub["client"].status, verified |-> sub["client"].verified,
     bad |-> c.bad, global |-> c.global, hard |-> c.hard, tag |-> tag,
     verifiedAt |-> Stamp(kept, sub["client"].verified),
     unsubscribedAt |-> Stamp(kept, unsubscribed),
     unsubscribeReason |-> IF unsubscribed THEN kept.reason ELSE "blank",
     validation |-> kept.validation]

\* export_contact_csv_row
ExportRow(c, sub, tag, kept) ==
    LET verified == c.verified \/ sub["client"].verified
        unsubscribed == sub["client"].status = "unsubscribed" IN
    [status |-> sub["client"].status, verified |-> verified,
     bad |-> c.bad, global |-> c.global, hard |-> c.hard, tag |-> tag,
     verifiedAt |-> Stamp(kept, verified), unsubscribedAt |-> Stamp(kept, unsubscribed),
     unsubscribeReason |-> IF unsubscribed THEN kept.reason ELSE "blank",
     validation |-> kept.validation]

\* The columns that csv_row_to_item does not look at.
Unread == {"verifiedAt", "unsubscribedAt", "unsubscribeReason"}

\* csv_row_to_item: a column that is missing or blank is False, pending, unknown.
CsvItem(row) ==
    LET given(flag) == IF flag THEN "set" ELSE "clear" IN
    [status |-> IF row.status = "none" THEN "pending" ELSE row.status,
     verified |-> row.verified, bad |-> given(row.bad),
     global |-> given(row.global), hard |-> given(row.hard), tag |-> row.tag]

\* What the import of a row into nothing stores of the other columns.
KeptBy(row) == [at |-> "import", reason |-> "blank", validation |-> row.validation]

\* An export of any age, a file with nothing but addresses, or one written by hand.
ImportFile(row) == Upsert(CsvItem(row))

-----------------------------------------------------------------------------
(* The rows of the audience import and of the Mailchimp import.            *)

\* What the contact read lacks besides its flags: the address is spelled
\* otherwise, or the validation's reason or its kind differs.
Differs == {"nothing", "address", "validation"}

Sets(row) ==
    CASE row.source = "csv" -> row.sets
      [] row.source = "mailchimp" -> CASE row.status = "subscribed" -> {"verified"}
                                       [] row.status = "unsubscribed" -> {"global"}
                                       [] row.status = "cleaned" -> {"hard"}

\* What the row says of the address: an unknown one is valid if it is subscribed.
Validates(row, c) ==
    CASE row.source = "csv" -> row.validation
      [] row.source = "mailchimp" /\ row.status = "cleaned" -> "set"
      [] row.source = "mailchimp" /\ row.status = "subscribed" /\ ~ c["bad"] -> "clear"
      [] OTHER -> "keep"

\* Contact columns a row writes: those that differ from the contact it read.
ChangeOf(row, c, other) ==
    [f \in Flag |->
        IF f = "bad"
        THEN IF After(c[f], Validates(row, c)) # c[f] \/ other = "validation"
             THEN Validates(row, c) ELSE "keep"
        ELSE IF f \in Sets(row) /\ ~ c[f] THEN "set" ELSE "keep"]
SomeFlag(change) == \E f \in Flag : change[f] # "keep"
PersonAfter(c, change) == [f \in Flag |-> After(c[f], change[f])]

\* Only a row with a status or "verified" makes a subscription.
MakesSubscription(row) ==
    row.source = "mailchimp" \/ row.status # "none" \/ "verified" \in row.sets

\* Mutants: the status of the file is stored as it is; an import resubscribes.
StatusAsGiven(row, status) == row.status
Resubscribes(row, status) ==
    CASE row.status \in {"unsubscribed", "cleaned"} -> "unsubscribed"
      [] row.status = "none" -> "pending"
      [] OTHER -> row.status

OptsOut(row) == row.status \in {"unsubscribed", "cleaned"}

\* apply_subscription and apply_subscription_state keep an opt-out.
ImportedStatus(row, status) ==
    IF OptsOut(row) \/ status = "unsubscribed" THEN "unsubscribed"
    ELSE IF row.status = "none" THEN "pending" ELSE row.status

ImportedSub(row, sub) ==
    IF ~ MakesSubscription(row) THEN sub
    ELSE [status |-> ImportedStatus(row, sub.status),
          verified |-> sub.verified \/ "verified" \in Sets(row)]

ToldBy(row, change) ==
    {t \in {"global", "hard"} : change[t] = "set"}
    \cup (IF OptsOut(row) THEN {row.scope} ELSE {})

\* The commit of a row: what it has written to the contact, the subscription and
\* the tag.  Another caller that has read the subscription misses an opt-out in it.
CommitRow(p, row, c, change, sub) ==
    /\ csPerson' = PersonAfter(c, change)
    /\ csSub' = [csSub EXCEPT ![row.scope] = sub]
    /\ csTag' = (csTag \/ row.tag)
    /\ csAt' = [(IF OptsOut(row) THEN Missed(row.scope) ELSE csAt) EXCEPT ![p] = Free]
    /\ UNCHANGED <<csDisabled, csLeft>>

\* get_or_create finds no contact: nobody else can insert the address, or see
\* the contact, before the commit.
ImportNew(p, row) ==
    LET change == ChangeOf(row, Upserted, "nothing") IN
    /\ csAt[p] = Free /\ csPerson = NoPerson
    /\ CommitRow(p, row, Upserted, change, ImportedSub(row, csSub[row.scope]))
    /\ csTold' = csTold \cup ToldBy(row, change)

\* It finds one, and compares.  An audience row that saves any column saves the
\* address with it.
ImportFind(p, row) ==
    /\ csAt[p] = Free /\ csPerson # NoPerson
    /\ \E other \in Differs :
        LET change == ChangeOf(row, csPerson, other) IN
        csAt' = [csAt EXCEPT ![p] =
                   [step |-> "found", row |-> row, change |-> change, erased |-> FALSE,
                    address |-> other = "address" \/ (row.source = "csv" /\ SomeFlag(change))]]
    /\ UNCHANGED <<csPerson, csSub, csRest, csTold, csLeft>>

SavesContact(at) == at.address \/ SomeFlag(at.change)

\* contact.save: the row is locked until the commit.
ImportLock(p) ==
    /\ csAt[p].step = "found" /\ ~ csAt[p].erased /\ SavesContact(csAt[p]) /\ Unlocked
    /\ csAt' = [csAt EXCEPT ![p] = [step |-> "locked", row |-> csAt[p].row,
                                    change |-> csAt[p].change, erased |-> FALSE]]
    /\ UNCHANGED <<csPerson, csSub, csRest, csTold, csLeft>>

\* The subscription is read now and saved, every column of it, later; it is
\* saved for a missing reason alone as well.  One that is created here nobody
\* else can create.
ImportReadSub(p) ==
    LET row == csAt[p].row
        change == csAt[p].change
        old == csSub[row.scope]
        sub == ImportedSub(row, old) IN
    /\ csAt[p].step \in {"found", "locked"} /\ ~ csAt[p].erased
    /\ csAt[p].step = "found" => ~ SavesContact(csAt[p])
    /\ \/ /\ old # NoSubscription
          /\ sub # old \/ (OptsOut(row) /\ old.status = "unsubscribed")
          /\ csAt' = [csAt EXCEPT ![p] =
                        [step |-> "save", row |-> row, change |-> change, sub |-> sub,
                         holds |-> csAt[p].step = "locked", missed |-> FALSE,
                         erased |-> FALSE]]
          /\ UNCHANGED <<csPerson, csSub, csRest, csTold, csLeft>>
       \/ /\ old = NoSubscription \/ sub = old
          /\ CommitRow(p, row, csPerson, change, sub)
          /\ csTold' = csTold \cup ToldBy(row, change)

\* subscription.save() writes the status read before over an opt-out since.
ImportSave(p) ==
    LET row == csAt[p].row
        sub == csAt[p].sub
        over == IF csAt[p].missed /\ sub.status # "unsubscribed" THEN {row.scope} ELSE {} IN
    /\ csAt[p].step = "save" /\ ~ csAt[p].erased
    /\ CommitRow(p, row, csPerson, csAt[p].change, sub)
    /\ csTold' = (csTold \ over) \cup ToldBy(row, csAt[p].change)

-----------------------------------------------------------------------------
(* Requests about a contact id: read without a lock, then saved.           *)

Visible == csPerson # NoPerson /\ csSub["client"] # NoSubscription

Find(p, request) ==
    /\ csAt[p] = Free /\ csPerson # NoPerson
    /\ csAt' = [csAt EXCEPT ![p] = request]
    /\ UNCHANGED <<csPerson, csSub, csRest, csTold, csLeft>>

Read(p, request) == Visible /\ Find(p, request)

ReadSuppression(p, flag, to) ==
    Read(p, [step |-> "suppress", flag |-> flag, to |-> to,
             seen |-> csPerson # NoPerson /\ csPerson[flag], erased |-> FALSE])

\* Only a column that differs from the one read is saved.
SaveSuppression(p) ==
    LET flag == csAt[p].flag IN
    /\ csAt[p].step = "suppress" /\ ~ csAt[p].erased
    /\ \/ csAt[p].seen = csAt[p].to /\ UNCHANGED <<csPerson, csTold>>
       \/ /\ csAt[p].seen # csAt[p].to /\ Unlocked
          /\ csPerson' = [csPerson EXCEPT ![flag] = csAt[p].to]
          /\ csTold' = IF csAt[p].to THEN csTold \cup {flag} ELSE csTold \ {flag}
    /\ csAt' = [csAt EXCEPT ![p] = Free]
    /\ UNCHANGED <<csSub, csRest, csLeft>>

ReadVerification(p, to) ==
    Read(p, [step |-> "verify", to |-> to, erased |-> FALSE,
             seen |-> csPerson # NoPerson /\ csPerson["verified"]])

\* The contact is saved if the request gives it another time of verification.
SaveVerification(p) ==
    /\ csAt[p].step = "verify" /\ ~ csAt[p].erased
    /\ \/ csAt[p].seen = csAt[p].to /\ UNCHANGED csPerson
       \/ /\ (csAt[p].seen # csAt[p].to \/ csAt[p].to) /\ Unlocked
          /\ csPerson' = [csPerson EXCEPT !["verified"] = csAt[p].to]
    /\ csSub' = [csSub EXCEPT !["client"].verified = csAt[p].to]
    /\ csAt' = [csAt EXCEPT ![p] = Free]
    /\ UNCHANGED <<csRest, csTold, csLeft>>

\* update_contact_validation_for_client saves what it is given.
SaveValidation(bad) ==
    /\ Visible /\ Unlocked
    /\ csPerson' = [csPerson EXCEPT !["bad"] = bad]
    /\ UNCHANGED <<csSub, csRest, csAt, csTold, csLeft>>

\* The tag endpoints: added, removed, or one of the set that replaces them; and
\* an operator's page, which asks for no subscription.
ReadTag(p, to) == Find(p, [step |-> "tag", to |-> to, erased |-> FALSE])

SaveTag(p) ==
    /\ csAt[p].step = "tag" /\ ~ csAt[p].erased
    /\ csTag' = csAt[p].to
    /\ csAt' = [csAt EXCEPT ![p] = Free]
    /\ UNCHANGED <<csPerson, csSub, csDisabled, csTold, csLeft>>

\* An operator's form says all that is stored of the contact itself, as it was
\* when the page was opened or as it is ticked now; nothing is saved when that
\* is what the contact read now says.
ReadState(p, to) ==
    /\ to # csPerson
    /\ Find(p, [step |-> "operate", person |-> to, erased |-> FALSE])

\* update_contact_state saves all of it, over what has changed since the read.
SaveState(p) ==
    LET to == csAt[p].person IN
    /\ csAt[p].step = "operate" /\ ~ csAt[p].erased /\ Unlocked
    /\ csPerson' = to
    /\ csTold' = {t \in Told : IF t \in {"global", "hard"} THEN to[t] ELSE t \in csTold}
    /\ csAt' = [csAt EXCEPT ![p] = Free]
    /\ UNCHANGED <<csSub, csRest, csLeft>>

FindSubscriber(p, sub) ==
    Find(p, [step |-> "subscribe", sub |-> sub, erased |-> FALSE])

\* update_subscription, always of the operator's active client: whatever it has
\* read, what it writes is the form's, and no lock of the contact stops it.
SaveSubscription(p) ==
    LET sub == csAt[p].sub IN
    /\ csAt[p].step = "subscribe" /\ ~ csAt[p].erased
    /\ csSub' = [csSub EXCEPT !["client"] = sub]
    /\ IF sub.status = "unsubscribed"
       THEN /\ csTold' = csTold \cup {"client"}
            /\ csAt' = [Missed("client") EXCEPT ![p] = Free]
       ELSE /\ csTold' = csTold \ {"client"}
            /\ csAt' = [csAt EXCEPT ![p] = Free]
    /\ UNCHANGED <<csPerson, csRest, csLeft>>

\* What a caller writes on the row of a contact that was erased since it read
\* it: the person's address, a subscription that is inserted or inserted again,
\* source metadata, a tag.
LeftBy(at) ==
    CASE at.step = "found" ->
           (IF at.address THEN {"address"} ELSE {})
           \cup (IF MakesSubscription(at.row) THEN {"subscription"} ELSE {})
           \cup (IF at.row.source = "mailchimp" THEN {"metadata"} ELSE {})
           \cup (IF at.row.tag THEN {"tag"} ELSE {})
      [] at.step = "save" ->
           {"subscription"}
           \cup (IF at.row.source = "mailchimp" THEN {"metadata"} ELSE {})
           \cup (IF at.row.tag THEN {"tag"} ELSE {})
      [] at.step = "tag" -> IF at.to THEN {"tag"} ELSE {}
      [] at.step = "subscribe" -> {"subscription"}
      [] OTHER -> {}

FinishErased(p) ==
    /\ csAt[p] # Free /\ csAt[p].erased
    /\ csLeft' = (csLeft \/ LeftBy(csAt[p]) # {})
    /\ csAt' = [csAt EXCEPT ![p] = Free]
    /\ UNCHANGED <<csPerson, csSub, csRest, csTold>>

-----------------------------------------------------------------------------
Begin(p) ==
    \/ \E row \in ImportRow : ImportNew(p, row) \/ ImportFind(p, row)
    \/ \E flag \in {"global", "hard"}, to \in BOOLEAN : ReadSuppression(p, flag, to)
    \/ \E to \in BOOLEAN : ReadVerification(p, to) \/ ReadTag(p, to)
    \/ \E to \in StateForm : ReadState(p, to)
    \/ \E sub \in SubForm : FindSubscriber(p, sub)
Finish(p) ==
    \/ ImportLock(p) \/ ImportReadSub(p) \/ ImportSave(p)
    \/ SaveSuppression(p) \/ SaveVerification(p) \/ SaveTag(p)
    \/ SaveState(p) \/ SaveSubscription(p) \/ FinishErased(p)

CsRequest ==
    \/ \E in \in UpsertInput : Upsert(in)
    \/ Subscribe \/ Unsubscribe \/ UnsubscribeLink \/ ProviderEvent
    \/ \E enabled \in BOOLEAN : UpdatePreferences(enabled)
    \/ \E bad \in BOOLEAN : SaveValidation(bad)
    \/ \E row \in CsvRow : ImportFile(row)
    \/ Erase

\* An import takes row after row, a request or a form is one; which row is next, of
\* those that are valid and no duplicates, is any.
CallerStep(p) == Begin(p) \/ Finish(p)

CsNext == CsRequest \/ \E p \in Caller : CallerStep(p)

CsSpec == CsInit /\ [][CsNext]_csVars

-----------------------------------------------------------------------------
\* What is in force of an opt-out or a suppression.
InForce(t) ==
    /\ csPerson # NoPerson
    /\ CASE t = "client" -> csSub["client"].status = "unsubscribed"
         [] t = "audience" -> csSub["audience"].status = "unsubscribed"
         [] t = "global" -> csPerson["global"]
         [] t = "hard" -> csPerson["hard"]

\* An opt-out or a suppression stays in force until a request or a CSV file of
\* contacts says otherwise (an upsert without a status says "pending", a file
\* without the column says "no", an operator's form may be older than the
\* opt-out), the contact is erased, or an import that read the subscription
\* before the opt-out saves it after: nothing else an import does revokes one.
CsToldIsKept == \A t \in csTold : InForce(t)

\* What the API calls can_send_marketing is what a campaign sends to, but for
\* an unsubscribe from the whole audience and a disabled category, which only
\* campaigns look at (contact_status_payload against _skip_reason).
CsSendableAgrees ==
    csPerson # NoPerson /\ csSub["client"] # NoSubscription =>
        (CanSendMarketing(csPerson, csSub) <=>
            SkipReason(csPerson, csSub, csDisabled) \in
                {"", "audience unsubscribe", "category"}
            /\ csSub["client"].status = "subscribed")

\* A contact that is recreated from its exported row alone is exported as that
\* row and is as sendable as it was, but for what the row does not say of its
\* subscription of the audience alone, and for three columns that are exported
\* and not read back: the times of its verification and of its unsubscribe are
\* those of the import, and the reason of the unsubscribe is gone (docs/api.md:149
\* calls "verification" and "unsubscribe" columns recreatable too).
CsRoundTrip ==
    csPerson # NoPerson /\ csSub["client"] # NoSubscription =>
        \A kept \in {k \in Kept : k.at = "then"} :
            LET row == ExportRow(csPerson, csSub, csTag, kept)
                item == CsvItem(row)
                c == UpsertedPerson([f \in Flag |-> FALSE], item)
                sub == [client |-> UpsertedSub(item), audience |-> NoSubscription]
                again == ExportRow(c, sub, item.tag, KeptBy(row)) IN
            /\ \A column \in DOMAIN row \ Unread : again[column] = row[column]
            /\ again.verifiedAt = IF row.verified THEN "import" ELSE "blank"
            /\ again.unsubscribedAt = IF row.status = "unsubscribed" THEN "import" ELSE "blank"
            /\ again.unsubscribeReason = "blank"
            /\ CanSendMarketing(c, sub) =
                   CanSendMarketing(csPerson,
                                    [csSub EXCEPT !["audience"] = NoSubscription])

\* The erasure's description in the API's documentation: it "Deletes live
\* subscriptions, preferences, tags, source metadata" of the contact and
\* anonymizes the rest, so nothing of that is on the contact's row afterwards.
CsErasedIsGone == ~ csLeft

=============================================================================

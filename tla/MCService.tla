------------------------------ MODULE MCService ------------------------------
(* Contacts, the counters of a sent campaign, a client and its keys, a draft *)
(* campaign and the pages of an answer.  They share no state here, so one of *)
(* them runs in a behaviour, the focus, and the others stand still.          *)
EXTENDS ContactState, Engagement, ClientAccess, CampaignDraft, Pages

CONSTANTS solo, r1, r2, aud, other, ta, tz, sx, sy

VARIABLE focus
serviceVars == <<csVars, enVars, acVars, drVars, pgVars, focus>>
Focus == {"contacts", "overlap", "engagement", "access", "draft", "pages"}

-----------------------------------------------------------------------------
(* Contacts: one caller that reads and saves later, against every request   *)
(* and every row; or two callers that overlap, on a few rows about the       *)
(* subscription of the client, operators' forms for it, and requests.        *)

Upsertion(status, verified, bad, global, hard, tag) ==
    [status |-> status, verified |-> verified, bad |-> bad, global |-> global,
     hard |-> hard, tag |-> tag]

\* Every status, and each of the flags set and cleared.
MCUpserts ==
    {Upsertion(s, FALSE, "keep", "keep", "keep", FALSE) : s \in SubStatus \ {"none"}}
    \cup {Upsertion("subscribed", TRUE, "set", "set", "clear", TRUE),
          Upsertion("subscribed", TRUE, "clear", "clear", "set", FALSE)}

AudienceRow(scope, status, sets, validation, tag) ==
    [source |-> "csv", scope |-> scope, status |-> status, sets |-> sets,
     validation |-> validation, tag |-> tag]
MailchimpRow(status, tag) ==
    [source |-> "mailchimp", scope |-> "client", status |-> status, sets |-> {},
     validation |-> "keep", tag |-> tag]

\* Rows that save the contact before the subscription, and rows that do not.
MCOverlapRows ==
    {AudienceRow("client", "subscribed", {"verified"}, "keep", FALSE),
     MailchimpRow("cleaned", FALSE)}
MCImportRows ==
    MCOverlapRows
    \cup {AudienceRow("client", "none", {}, "clear", TRUE),
          AudienceRow("audience", "subscribed", {}, "set", FALSE),
          MailchimpRow("subscribed", FALSE), MailchimpRow("unsubscribed", TRUE)}

\* With and without the suppression columns.
MCCsvRows ==
    {[status |-> status, verified |-> verified, bad |-> FALSE, global |-> suppressed,
      hard |-> suppressed, tag |-> FALSE, verifiedAt |-> "blank",
      unsubscribedAt |-> "blank", unsubscribeReason |-> "blank", validation |-> "blank"] :
        status \in {"none", "subscribed"}, verified \in BOOLEAN, suppressed \in BOOLEAN}

\* A page that was opened before everything else, one that suppresses, and the
\* two ends of a subscription.
Page(flags) == [f \in Flag |-> f \in flags]
MCStateForms == {Page({}), Page({"hard", "bad"})}
MCSubForms == {[status |-> "subscribed", verified |-> TRUE],
               [status |-> "unsubscribed", verified |-> FALSE]}

-----------------------------------------------------------------------------
(* A sent campaign: one recipient is opened and bounces, the other complains *)
(* and is delivered.                                                        *)

Noted(recipient, what) == [recipient |-> recipient, what |-> what]
MCNotes == {Noted(r1, "open"), Noted(r1, "hard_bounce"),
            Noted(r2, "complaint"), Noted(r2, "delivery")}

-----------------------------------------------------------------------------
(* A draft: the slugs sx and sy of one audience, and sx of another.             *)

MCAudienceOf == [t \in Tag |-> IF t = tz THEN other ELSE aud]
MCSlugOf == [t \in Tag |-> IF t \in {ta, tz} THEN sx ELSE sy]
Written(audience, list, body, include, exclude) ==
    [audience |-> audience, list |-> list, body |-> body,
     include |-> include, exclude |-> exclude]
MCPuts == {Written(aud, TRUE, "text", {sx, sy}, {}), Written(other, FALSE, "both", {}, {sx, sy})}
MCForms == {Written(aud, FALSE, "both", {sy}, {sx})}

\* A contact is subscribed to one audience or on its list, and to the other.
DraftPeople == /\ drMember[other] = {} /\ drSubscriber[other] = Addressee
               /\ drMember[aud] = Addressee \ drSubscriber[aud]

-----------------------------------------------------------------------------
\* One caller, that begins nothing while the category is disabled.
ContactsAlone ==
    /\ CsRequest \/ \E p \in Caller \cap {solo} : CallerStep(p)
    /\ csDisabled' => csAt'[solo] = Free

\* Two, that import two rows or save a form for the subscription.
ContactsOverlap ==
    /\ CsNext
    /\ csPerson' # NoPerson /\ ~ csPerson'["global"]
    /\ \A p \in Caller : \/ csAt'[p].step \in {"free", "subscribe"}
                         \/ /\ csAt'[p].step \in {"found", "locked", "save"}
                            /\ csAt'[p].row \in MCOverlapRows
    /\ csSub'["client"].status # "pending" /\ csSub'["audience"] = csSub["audience"]
    /\ csTag' = csTag /\ csDisabled' = csDisabled

ServiceInit ==
    /\ focus \in Focus
    /\ CsInit /\ EnInit /\ AcInit /\ DrInit /\ PgInit
    /\ IF focus = "draft" THEN DraftPeople
       ELSE \A a \in Audience : drMember[a] = {} /\ drSubscriber[a] = {}
    /\ focus # "pages" => pgRow = [i \in RowId |-> "none"]

ServiceNext ==
    /\ UNCHANGED focus
    /\ \/ focus = "contacts" /\ ContactsAlone /\ UNCHANGED <<enVars, acVars, drVars, pgVars>>
       \/ focus = "overlap" /\ ContactsOverlap /\ UNCHANGED <<enVars, acVars, drVars, pgVars>>
       \/ focus = "engagement" /\ EnNext /\ UNCHANGED <<csVars, acVars, drVars, pgVars>>
       \/ focus = "access" /\ AcNext /\ UNCHANGED <<csVars, enVars, drVars, pgVars>>
       \/ focus = "draft" /\ DrNext /\ UNCHANGED <<csVars, enVars, acVars, pgVars>>
       \/ focus = "pages" /\ PgNext /\ UNCHANGED <<csVars, enVars, acVars, drVars>>

ServiceSpec == ServiceInit /\ [][ServiceNext]_serviceVars

\* The variables of the five components have their types.
ServiceTypeOK ==
    CsTypeOK /\ EnTypeOK /\ AcTypeOK /\ DrTypeOK /\ PgTypeOK /\ focus \in Focus
=============================================================================

---------------------------- MODULE CampaignDraft ----------------------------
(***************************************************************************)
(* The content of the campaign under one external key: the API's PUT and   *)
(* the operator's form write it (services/api.py, forms.py), queueing      *)
(* reads it and picks the recipients (services/campaigns.py).  What        *)
(* happens to the recipients after that is CampaignSend's.                 *)
(*                                                                         *)
(* A PUT that finds the campaign holds its lock to the end.  One that      *)
(* finds none locks nothing: its update_or_create may meet a campaign that *)
(* was created, and queued, in between.                                    *)
(***************************************************************************)
EXTENDS Naturals, FiniteSets

CONSTANTS Writer,      \* connections between their read and their save
          Addressee, Audience, Tag, Slug,
          AudienceOf,  \* the audience a tag belongs to
          SlugOf,      \* its slug, unique in its audience
          PutInput,    \* contents the API is given
          FormInput    \* contents of the operator's form

\* A filter is a set of slugs, as normalize_tag_filter leaves it.
Content == [audience : Audience, list : BOOLEAN, body : {"html", "text", "both"},
            include : SUBSET Slug, exclude : SUBSET Slug]
SlugsOf(audience) == {SlugOf[t] : t \in {u \in Tag : AudienceOf[u] = audience}}

ASSUME DraftAssumption ==
    /\ IsFiniteSet(Slug)
    /\ AudienceOf \in [Tag -> Audience] /\ SlugOf \in [Tag -> Slug]
    /\ \A t, u \in Tag :
         AudienceOf[t] = AudienceOf[u] /\ SlugOf[t] = SlugOf[u] => t = u
    /\ PutInput \subseteq Content
    /\ FormInput \subseteq
         {c \in Content : /\ c.body = "both" /\ ~ c.list /\ c.include \cap c.exclude = {}
                          /\ c.include \cup c.exclude \subseteq SlugsOf(c.audience)}

VARIABLES drRow,         \* the Campaign row
          drRecipient,   \* contacts with a CampaignRecipient row
          drSubscriber,  \* contacts with a subscription, of each audience
          drMember,      \* active members of the campaign's list, of each audience
          drTagged,      \* ContactTag rows
          drAt,          \* what each writer is in the middle of
          drSaid,        \* ghost: the last edit of a tag that was answered
          drFrozen,      \* ghost: the content when the row last left "draft"
          drRaced        \* ghost: a PUT that had found no campaign wrote a later one

drVars == <<drRow, drRecipient, drSubscriber, drMember, drTagged, drAt, drSaid,
            drFrozen, drRaced>>
drPeople == <<drSubscriber, drMember, drTagged>>

NoCampaign == [status |-> "none"]
Quiet == [step |-> "quiet"]
NeverFrozen == NoCampaign
DraftRow == [status : {"draft", "queued", "cancelled"}, content : Content]

DrTypeOK ==
    /\ drRow \in DraftRow \cup {NoCampaign}
    /\ drRecipient \subseteq Addressee
    /\ drSubscriber \in [Audience -> SUBSET Addressee]
    /\ drMember \in [Audience -> SUBSET Addressee]
    /\ drTagged \subseteq Addressee \X Tag
    /\ drAt \in [Writer -> [step : {"put", "form"}, content : Content] \cup {Quiet}]
    /\ drSaid \in (Tag \X Slug) \cup {<<>>}
    /\ drFrozen \in Content \cup {NeverFrozen}
    /\ drRaced \in BOOLEAN

DrInit ==
    /\ drRow = NoCampaign /\ drRecipient = {}
    /\ drSubscriber \in [Audience -> SUBSET Addressee]
    /\ drMember \in [Audience -> SUBSET Addressee]
    /\ drTagged = {}
    /\ drAt = [w \in Writer |-> Quiet]
    /\ drSaid = <<>>
    /\ drFrozen = NeverFrozen /\ drRaced = FALSE

-----------------------------------------------------------------------------
(* Who receives it.                                                        *)

\* _base_candidate_contacts
Base(content) == IF content.list THEN drMember[content.audience]
                 ELSE drSubscriber[content.audience]

TagsOf(p) == {t \in Tag : <<p, t>> \in drTagged}
SlugsIn(p, audience) == {SlugOf[t] : t \in {u \in TagsOf(p) : AudienceOf[u] = audience}}

\* As many matching slugs as the filter has.
Matches(p, content) ==
    Cardinality(SlugsIn(p, content.audience) \cap content.include)
        = Cardinality(content.include)

\* Mutant: only who has every excluded tag is left out.
ExcludedByAll(p, content) ==
    content.exclude # {} /\ content.exclude \subseteq SlugsIn(p, content.audience)

\* exclude(tag__audience=..., tag__slug__in=...): over several rows, each condition
\* may be met by a tag of its own.
Excluded(p, content) ==
    /\ SlugsIn(p, content.audience) # {}
    /\ \E t \in TagsOf(p) : SlugOf[t] \in content.exclude

\* _candidate_contacts
Candidates(content) ==
    {p \in Base(content) : Matches(p, content) /\ ~ Excluded(p, content)}

-----------------------------------------------------------------------------
(* PUT: upsert_campaign_for_client.                                        *)

\* Mutant: the status is not looked at.
AnyStatus(row) == TRUE

Editable(row) == row.status = "draft"

\* Another audience or another status answers 409.
PutFound(in) ==
    /\ drRow # NoCampaign
    /\ drRow.content.audience = in.audience /\ Editable(drRow)
    /\ drRow' = [drRow EXCEPT !.content = in]
    /\ UNCHANGED <<drRecipient, drPeople, drAt, drSaid, drFrozen, drRaced>>

PutMissing(w, in) ==
    /\ drRow = NoCampaign /\ drAt[w] = Quiet
    /\ drAt' = [drAt EXCEPT ![w] = [step |-> "put", content |-> in]]
    /\ UNCHANGED <<drRow, drRecipient, drPeople, drSaid, drFrozen, drRaced>>

\* update_or_create: created, or whatever is there by now gets the content.
PutSave(w) ==
    /\ drAt[w].step = "put"
    /\ drRow' = IF drRow = NoCampaign
                THEN [status |-> "draft", content |-> drAt[w].content]
                ELSE [drRow EXCEPT !.content = drAt[w].content]
    /\ drRaced' = (drRaced \/ drRow.status \in {"queued", "cancelled"})
    /\ drAt' = [drAt EXCEPT ![w] = Quiet]
    /\ UNCHANGED <<drRecipient, drPeople, drSaid, drFrozen>>

-----------------------------------------------------------------------------
(* The operator's form.  It has no field for the list.                     *)

LoadForm(w, in) ==
    /\ drRow # NoCampaign /\ drRow.status = "draft" /\ drAt[w] = Quiet
    /\ drAt' = [drAt EXCEPT ![w] = [step |-> "form",
                                    content |-> [in EXCEPT !.list = drRow.content.list]]]
    /\ UNCHANGED <<drRow, drRecipient, drPeople, drSaid, drFrozen, drRaced>>

\* campaign.save() writes every column of the row that was loaded, a draft.
SaveLoaded(w) ==
    /\ drAt[w].step = "form"
    /\ drRow' = [status |-> "draft", content |-> drAt[w].content]
    /\ drAt' = [drAt EXCEPT ![w] = Quiet]
    /\ UNCHANGED <<drRecipient, drPeople, drSaid, drFrozen, drRaced>>

-----------------------------------------------------------------------------
\* The row leaves "draft" under its lock.
Leave(status) ==
    /\ drRow # NoCampaign /\ drRow.status = "draft"
    /\ drRow' = [drRow EXCEPT !.status = status]
    /\ drFrozen' = drRow.content /\ drRaced' = FALSE
    /\ UNCHANGED <<drPeople, drAt, drSaid>>

\* queue_campaign with snapshot_campaign_recipients: known recipients stay.
QueueDraft == Leave("queued") /\ drRecipient' = drRecipient \cup Candidates(drRow.content)

\* cancel_campaign_for_client; which recipients it skips is CampaignSend's.
CancelAny ==
    \/ Leave("cancelled") /\ UNCHANGED drRecipient
    \/ /\ drRow.status = "queued"
       /\ drRow' = [drRow EXCEPT !.status = "cancelled"]
       /\ UNCHANGED <<drRecipient, drPeople, drAt, drSaid, drFrozen, drRaced>>

-----------------------------------------------------------------------------
(* Tags.                                                                   *)

TagContact(p, t) ==
    /\ drTagged' = drTagged \cup {<<p, t>>}
    /\ UNCHANGED <<drRow, drRecipient, drSubscriber, drMember, drAt, drSaid, drFrozen,
                   drRaced>>
UntagContact(p, t) ==
    /\ drTagged' = drTagged \ {<<p, t>>}
    /\ UNCHANGED <<drRow, drRecipient, drSubscriber, drMember, drAt, drSaid, drFrozen,
                   drRaced>>

\* TagForm refuses the slug of another tag of the audience.
SlugFree(t, slug) == \A u \in Tag \ {t} : AudienceOf[u] = AudienceOf[t] => SlugOf[u] # slug

\* tag_edit: the form's validation has put the slug into the instance already, so
\* create_or_update_tag finds nothing that differs, saves nothing, and the
\* operator reads "Tag updated."
EditTag(t, slug) ==
    /\ SlugFree(t, slug)
    /\ drSaid' = <<t, slug>>
    /\ UNCHANGED <<drRow, drRecipient, drPeople, drAt, drFrozen, drRaced>>

DrNext ==
    \/ \E in \in PutInput : PutFound(in) \/ \E w \in Writer : PutMissing(w, in)
    \/ \E w \in Writer : PutSave(w) \/ SaveLoaded(w)
    \/ \E w \in Writer, in \in FormInput : LoadForm(w, in)
    \/ QueueDraft \/ CancelAny
    \/ \E p \in Addressee, t \in Tag : TagContact(p, t) \/ UntagContact(p, t)
    \/ \E t \in Tag, slug \in Slug : EditTag(t, slug)

DrSpec == DrInit /\ [][DrNext]_drVars

-----------------------------------------------------------------------------
\* A campaign that is no draft any more keeps the content its recipients were
\* picked by, whatever writers had begun before.  The exception is a PUT that had
\* found no campaign at all: it gives a queued campaign its own content, also
\* another audience.
DrContentIsFrozen ==
    drRow # NoCampaign /\ drRow.status # "draft" /\ ~ drRaced => drRow.content = drFrozen

\* The tags of the campaign's audience a contact carries, what the operator asked
\* for (forms.py:33 "Skip contacts with any selected exclude tag."), and a tag of
\* another audience that has the name of an excluded one.
OwnTags(p, content) == {t \in TagsOf(p) : AudienceOf[t] = content.audience}
AskedFor(p, content) ==
    /\ p \in Base(content)
    /\ \A slug \in content.include : \E t \in OwnTags(p, content) : SlugOf[t] = slug
    /\ \A t \in OwnTags(p, content) : SlugOf[t] \notin content.exclude
Namesake(p, content) ==
    /\ OwnTags(p, content) # {}
    /\ \E t \in TagsOf(p) \ OwnTags(p, content) : SlugOf[t] \in content.exclude

\* Queueing picks exactly the subscribers, or the members of the list, that carry
\* every tag to include and no tag to exclude of the campaign's audience.  It
\* also skips who has another tag there and a tag of that name in another audience.
DrPicksTheTagged ==
    [][\A p \in Addressee :
         QueueDraft /\ p \notin drRecipient /\ ~ Namesake(p, drRow.content) =>
             (p \in drRecipient' <=> AskedFor(p, drRow.content))]_drVars

\* After the answer "Tag updated." the tag has the slug that was entered
\* (views.py:780).
DrEditTakes == drSaid # <<>> => SlugOf[drSaid[1]] = drSaid[2]

=============================================================================

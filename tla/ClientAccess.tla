----------------------------- MODULE ClientAccess -----------------------------
(***************************************************************************)
(* One client of the API: its keys and what a key lets in                  *)
(* (services/auth.py and the api_* views), its senders and the sender of   *)
(* one of its templates (services/senders.py, services/api.py), and the    *)
(* operators and commands that change the same rows                        *)
(* (services/operator_management.py, set_client_senders,                   *)
(* provision_client_scope).                                                *)
(*                                                                         *)
(* A request is authenticated in a transaction of its own and handled with *)
(* the client's row as it was then.  An operator's form is compared with   *)
(* the row stored now and saves the columns that differ: the two columns   *)
(* of the senders may come from two writers.                               *)
(***************************************************************************)
EXTENDS Naturals

CONSTANTS Requester,    \* requests and operators that are between two steps
          Key,       \* API keys of the client, all of one name
          Sender,    \* sender ids
          NoSender   \* default_sender_id is blank

ASSUME AccessAssumption == NoSender \notin Sender

\* What a request writes here; the other endpoints have modules of their own.
Endpoint == {"senders", "template", "other"}

VARIABLES acClient,    \* the Client row
          acKey,       \* what each ClientApiKey row is
          acTemplate,  \* the sender of the template, if it exists
          acAt,        \* what each caller is in the middle of
          acTorn,      \* ghost: the senders' two columns are of two writers
          acLost       \* ghost: senders dropped since the template named its own

acVars == <<acClient, acKey, acTemplate, acAt, acTorn, acLost>>

Idle == [step |-> "idle"]
NoClient == [senders |-> "none"]
NoTemplate == "no template"
Senders == [senders : SUBSET Sender, default : Sender \cup {NoSender}]
ClientRow == [senders : SUBSET Sender, default : Sender \cup {NoSender}, active : BOOLEAN]
Column == {"senders", "default", "active"}
LetIn == [step : {"touch", "serve"}, key : Key, does : Endpoint,
          senders : SUBSET Sender, lost : SUBSET Sender]
Saving == [step : {"save"}, form : ClientRow, columns : SUBSET Column]

AcTypeOK ==
    /\ acClient \in ClientRow \cup {NoClient}
    /\ acKey \in [Key -> {"none", "active", "revoked"}]
    /\ acTemplate \in Sender \cup {NoSender, NoTemplate}
    /\ acAt \in [Requester -> LetIn \cup Saving \cup {Idle}]
    /\ acTorn \in BOOLEAN /\ acLost \subseteq Sender

AcInit ==
    /\ acClient = NoClient
    /\ acKey = [k \in Key |-> "none"]
    /\ acTemplate = NoTemplate
    /\ acAt = [c \in Requester |-> Idle]
    /\ acTorn = FALSE /\ acLost = {}

-----------------------------------------------------------------------------
(* What the two columns of the senders may say together.                   *)

\* ClientForm: the first sender is the default when none is named.
FormSenders ==
    {s \in Senders : IF s.senders = {} THEN s.default = NoSender ELSE s.default \in s.senders}

\* validate_sender_policy_payload also wants one sender at least.
PolicySenders == {s \in FormSenders : s.senders # {}}

\* resolve_sender_email
Resolves(client, requested) ==
    LET id == IF requested = NoSender THEN client.default ELSE requested IN
    id # NoSender /\ id \in client.senders

-----------------------------------------------------------------------------
\* The client's row is written.  Senders that go are noted for the template, and
\* for a template whose request has been let in.
WriteClient(row, at) ==
    LET dropped == IF acClient = NoClient THEN {} ELSE acClient.senders \ row.senders IN
    /\ acClient' = row
    /\ acLost' = acLost \cup dropped
    /\ acAt' = [c \in Requester |->
                  IF at[c].step \in {"touch", "serve"} /\ at[c].does = "template"
                  THEN [at[c] EXCEPT !.lost = @ \cup dropped] ELSE at[c]]

With(row, s) == [row EXCEPT !.senders = s.senders, !.default = s.default]

\* set_client_senders, which reads no more of the row than a form wants.
SetSenders(s) ==
    /\ acClient # NoClient
    /\ WriteClient(With(acClient, s), acAt)
    /\ acTorn' = FALSE
    /\ UNCHANGED <<acKey, acTemplate>>

\* provision_client_scope: a client that was deactivated is active again.
Provision ==
    /\ WriteClient(IF acClient = NoClient
                   THEN [senders |-> {}, default |-> NoSender, active |-> TRUE]
                   ELSE [acClient EXCEPT !.active = TRUE], acAt)
    /\ UNCHANGED <<acKey, acTemplate, acTorn>>

Form(s, active) == [senders |-> s.senders, default |-> s.default, active |-> active]

CreateClient(s, active) ==
    /\ acClient = NoClient
    /\ WriteClient(Form(s, active), acAt)
    /\ UNCHANGED <<acKey, acTemplate, acTorn>>

\* create_or_update_client: what differs from the row stored now.  The list of the
\* senders is compared with its order and their emails: it may be saved although
\* the ids are those stored.
Changed(row, form, relisted) ==
    {column \in Column : row[column] # form[column] \/ (column = "senders" /\ relisted)}

ReadStored(c, s, active) ==
    /\ acClient # NoClient /\ acAt[c] = Idle
    /\ \E relisted \in BOOLEAN :
        LET columns == Changed(acClient, Form(s, active), relisted) IN
        /\ columns # {}
        /\ acAt' = [acAt EXCEPT ![c] = [step |-> "save", form |-> Form(s, active),
                                        columns |-> columns]]
    /\ UNCHANGED <<acClient, acKey, acTemplate, acTorn, acLost>>

SaveForm(c) ==
    LET form == acAt[c].form
        columns == acAt[c].columns
        row == [senders |-> IF "senders" \in columns THEN form.senders ELSE acClient.senders,
                default |-> IF "default" \in columns THEN form.default ELSE acClient.default,
                active |-> IF "active" \in columns THEN form.active ELSE acClient.active] IN
    /\ acAt[c].step = "save"
    /\ WriteClient(row, [acAt EXCEPT ![c] = Idle])
    /\ acTorn' = IF columns \subseteq {"active"} THEN acTorn
                 ELSE row.senders # form.senders \/ row.default # form.default
    /\ UNCHANGED <<acKey, acTemplate>>

-----------------------------------------------------------------------------
(* Keys.                                                                   *)

\* The form refuses the name of an active key, and a constraint of the table
\* refuses the slower of two forms.
NameFree == \A k \in Key : acKey[k] # "active"

CreateKey(k) ==
    /\ acClient # NoClient /\ acKey[k] = "none" /\ NameFree
    /\ acKey' = [acKey EXCEPT ![k] = "active"]
    /\ UNCHANGED <<acClient, acTemplate, acAt, acTorn, acLost>>

RevokeKey(k) ==
    /\ acKey[k] = "active"
    /\ acKey' = [acKey EXCEPT ![k] = "revoked"]
    /\ UNCHANGED <<acClient, acTemplate, acAt, acTorn, acLost>>

\* authenticate_bearer_token: without an active key of an active client the
\* answer is 401.
Authenticate(c, k, does) ==
    /\ acAt[c] = Idle
    /\ acKey[k] = "active" /\ acClient.active
    /\ acAt' = [acAt EXCEPT ![c] =
                  [step |-> "touch", key |-> k, does |-> does, lost |-> {},
                   senders |-> IF does = "template" THEN acClient.senders ELSE {}]]
    /\ UNCHANGED <<acClient, acKey, acTemplate, acTorn, acLost>>

\* Mutant: every column of the key is saved as it was read.
AsRead(k) == "active"

\* save(update_fields=["last_used_at", "updated_at"]) leaves the others alone.
UseNoted(k) == acKey[k]

NoteUse(c) ==
    /\ acAt[c].step = "touch"
    /\ acKey' = [acKey EXCEPT ![acAt[c].key] = UseNoted(acAt[c].key)]
    /\ acAt' = [acAt EXCEPT ![c].step = "serve"]
    /\ UNCHANGED <<acClient, acTemplate, acTorn, acLost>>

-----------------------------------------------------------------------------
(* Handlers.                                                               *)

Serving(c, does) == acAt[c].step = "serve" /\ acAt[c].does = does

\* update_client_sender_policy_for_client saves both columns.
PutSenders(c, s) ==
    /\ Serving(c, "senders")
    /\ WriteClient(With(acClient, s), [acAt EXCEPT ![c] = Idle])
    /\ acTorn' = FALSE
    /\ UNCHANGED <<acKey, acTemplate>>

\* Mutant: a template may name any sender.
AnySender(c, sender) == TRUE

\* The senders are those of the client that was authenticated.
Configured(c, sender) == sender \in acAt[c].senders

\* upsert_transactional_template_for_client
PutTemplate(c, sender) ==
    /\ Serving(c, "template")
    /\ sender # NoSender => Configured(c, sender)
    /\ acTemplate' = sender
    /\ acLost' = acAt[c].lost
    /\ acAt' = [acAt EXCEPT ![c] = Idle]
    /\ UNCHANGED <<acClient, acKey, acTorn>>

\* An invalid body, or a handler that writes nothing that is modelled here.
Answer(c) ==
    /\ acAt[c].step = "serve"
    /\ acAt' = [acAt EXCEPT ![c] = Idle]
    /\ UNCHANGED <<acClient, acKey, acTemplate, acTorn, acLost>>

AcNext ==
    \/ \E s \in FormSenders : SetSenders(s)
    \/ Provision
    \/ \E s \in FormSenders, active \in BOOLEAN : CreateClient(s, active)
    \/ \E k \in Key : CreateKey(k) \/ RevokeKey(k)
    \/ \E c \in Requester :
         \/ \E s \in FormSenders, active \in BOOLEAN : ReadStored(c, s, active)
         \/ SaveForm(c)
         \/ \E k \in Key, does \in Endpoint : Authenticate(c, k, does)
         \/ NoteUse(c)
         \/ \E s \in PolicySenders : PutSenders(c, s)
         \/ \E sender \in Sender \cup {NoSender} : PutTemplate(c, sender)
         \/ Answer(c)

AcSpec == AcInit /\ [][AcNext]_acVars

-----------------------------------------------------------------------------
\* A key that has been revoked lets nobody in again, also when a request that was
\* let in before notes that it used the key.
AcRevokedForGood ==
    [][\A k \in Key : acKey[k] = "revoked" => acKey'[k] = "revoked"]_acVars

\* A send that names no sender finds the client's default, and one that uses the
\* template finds the template's, whichever of the API, the operators' form and
\* the command changed the senders, in whatever order (Django's admin pages, which
\* check neither column, are not modelled).  The exceptions: a form that saved one
\* of the two columns while the other was being changed, and a sender that was
\* dropped after the template's request was let in.
AcSendersResolve ==
    /\ acClient # NoClient /\ acClient.senders # {} /\ ~ acTorn =>
         Resolves(acClient, NoSender)
    /\ acTemplate \notin {NoTemplate, NoSender} \cup acLost =>
         Resolves(acClient, acTemplate)

=============================================================================

-------------------------- MODULE MailchimpOutbox ---------------------------
(***************************************************************************)
(* The Mailchimp outbox (services/mailchimp.py): an active member of a     *)
(* list whose node has a tag mapping is granted the tag.  The dedup key    *)
(* makes one row of all the grants of a tag to a contact: a later grant    *)
(* reopens a settled row and leaves a pending one alone.  Dispatchers work *)
(* as those of the callback outbox, but some failures are permanent.       *)
(***************************************************************************)
EXTENDS Outbox

CONSTANTS Tag,           \* dedup keys: tags that may be granted to the contact
          Grant,         \* saves of an active member, each granting one tag
          MaxMcChanges   \* bound on changes of the client's configuration

VARIABLES mcEnabled,    \* mailchimp_config(client) is not None
          mcMapped,     \* tags with an enabled mapping
          mcHook,       \* the on-commit hook of each grant
          mcTag,        \* the tag each grant is about
          mcRow,        \* mailchimp_syncs by dedup key
          mcBatch,      \* the copies each dispatcher has still to send
          mcHand,       \* the copy it has sent and not saved
          mcSeen,       \* the configuration its batch was loaded with
          mcOwed,       \* ghost: a grant was queued and not sent since
          mcExcuse,     \* ghost: what went wrong around a tag
          mcChanges

mcVars == <<mcEnabled, mcMapped, mcHook, mcTag, mcRow, mcBatch, mcHand, mcSeen,
            mcOwed, mcExcuse, mcChanges>>
mcDispatchers == <<mcBatch, mcHand, mcSeen>>

NoSync == [status |-> "absent"]
Sync == [status : RowStatus, attempts : 0..MaxAttempts, due : BOOLEAN]
NoCopy == [attempts |-> MaxAttempts]
SyncCopy == [attempts : 0..(MaxAttempts - 1)]
NoSend == [answer |-> "none"]
Answer == {"ok", "retry", "permanent"}
McHook == {"none", "committed", "found", "done", "silent", "lost"}

McTypeOK ==
    /\ mcEnabled \in BOOLEAN /\ mcMapped \subseteq Tag
    /\ mcHook \in [Grant -> McHook] /\ mcTag \in [Grant -> Tag]
    /\ mcRow \in [Tag -> Sync \cup {NoSync}]
    /\ mcBatch \in [Dispatcher -> [Tag -> SyncCopy \cup {NoCopy}]]
    /\ mcHand \in [Dispatcher ->
                     [answer : Answer, tag : Tag, copy : SyncCopy] \cup {NoSend}]
    /\ mcSeen \in [Dispatcher -> BOOLEAN]
    /\ mcOwed \subseteq Tag
    /\ mcExcuse \in [Tag -> SUBSET {"in hand", "disabled"}]
    /\ mcChanges \in Nat

McInit ==
    /\ mcEnabled \in BOOLEAN /\ mcMapped \in SUBSET Tag
    /\ mcHook = [g \in Grant |-> "none"] /\ mcTag \in [Grant -> Tag]
    /\ mcRow = [t \in Tag |-> NoSync]
    /\ mcBatch = [d \in Dispatcher |-> [t \in Tag |-> NoCopy]]
    /\ mcHand = [d \in Dispatcher |-> NoSend]
    /\ mcSeen = [d \in Dispatcher |-> FALSE]
    /\ mcOwed = {} /\ mcExcuse = [t \in Tag |-> {}] /\ mcChanges = 0

-----------------------------------------------------------------------------
(* Grants.                                                                 *)

\* emit_mailchimp_syncs_for_node reads the configuration and the mappings in
\* the transaction that saves the member.
CommitGrant(g) ==
    /\ mcHook[g] = "none"
    /\ mcHook' = [mcHook EXCEPT ![g] =
         IF mcEnabled /\ mcTag[g] \in mcMapped THEN "committed" ELSE "silent"]
    /\ UNCHANGED <<mcEnabled, mcMapped, mcTag, mcRow, mcDispatchers, mcOwed,
                   mcExcuse, mcChanges>>

LoseGrant(g) ==
    /\ mcHook[g] = "committed"
    /\ mcHook' = [mcHook EXCEPT ![g] = "lost"]
    /\ UNCHANGED <<mcEnabled, mcMapped, mcTag, mcRow, mcDispatchers, mcOwed,
                   mcExcuse, mcChanges>>

\* A dispatcher will save an outcome decided before now: it has the answer to
\* an earlier request, or read the client while Mailchimp was disabled.
DecidedEarlier(t) ==
    \E d \in Dispatcher :
        \/ mcHand[d] # NoSend /\ mcHand[d].tag = t
        \/ mcBatch[d][t] # NoCopy /\ ~ mcSeen[d]

\* The ghosts of a grant the outbox has taken on.
Owe(t) ==
    /\ mcOwed' = mcOwed \cup {t}
    /\ mcExcuse' = IF DecidedEarlier(t)
                   THEN [mcExcuse EXCEPT ![t] = @ \cup {"in hand"}] ELSE mcExcuse

\* Which rows a repeated grant reopens.
ReopensDelivered(status) == status = "delivered"
Reopens(status) == status # "pending"

\* get_or_create by the dedup key: creates the row, leaves a pending one alone,
\* or has a settled one in memory to reopen.
Enqueue(g) ==
    LET t == mcTag[g] IN
    /\ mcHook[g] = "committed"
    /\ \/ /\ ~ mcEnabled
          /\ mcHook' = [mcHook EXCEPT ![g] = "silent"]
          /\ UNCHANGED <<mcRow, mcOwed, mcExcuse>>
       \/ /\ mcEnabled /\ mcRow[t] = NoSync
          /\ mcRow' = [mcRow EXCEPT ![t] = [status |-> "pending", attempts |-> 0,
                                            due |-> TRUE]]
          /\ mcHook' = [mcHook EXCEPT ![g] = "done"]
          /\ Owe(t)
       \/ /\ mcEnabled /\ mcRow[t] # NoSync /\ ~ Reopens(mcRow[t].status)
          /\ mcHook' = [mcHook EXCEPT ![g] = "done"]
          /\ UNCHANGED mcRow /\ Owe(t)
       \/ /\ mcEnabled /\ mcRow[t] # NoSync /\ Reopens(mcRow[t].status)
          /\ mcHook' = [mcHook EXCEPT ![g] = "found"]
          /\ UNCHANGED <<mcRow, mcOwed, mcExcuse>>
    /\ UNCHANGED <<mcEnabled, mcMapped, mcTag, mcDispatchers, mcChanges>>

Reopen(g) ==
    LET t == mcTag[g] IN
    /\ mcHook[g] = "found"
    /\ mcHook' = [mcHook EXCEPT ![g] = "done"]
    /\ mcRow' = [mcRow EXCEPT ![t] = [status |-> "pending", attempts |-> 0,
                                      due |-> TRUE]]
    /\ Owe(t)
    /\ UNCHANGED <<mcEnabled, mcMapped, mcTag, mcDispatchers, mcChanges>>

-----------------------------------------------------------------------------
(* The dispatchers.                                                        *)

SyncDue == {t \in Tag : mcRow[t].status = "pending" /\ mcRow[t].due}

Free(d) == mcHand[d] = NoSend /\ \A t \in Tag : mcBatch[d][t] = NoCopy

LoadSyncs(d) ==
    /\ Free(d)
    /\ \E B \in Batches(SyncDue) :
        /\ mcBatch' = [mcBatch EXCEPT ![d] =
             [t \in Tag |-> IF t \in B THEN [attempts |-> mcRow[t].attempts]
                                       ELSE NoCopy]]
        /\ mcExcuse' = [t \in Tag |->
             IF t \in B /\ ~ mcEnabled THEN mcExcuse[t] \cup {"disabled"}
                                       ELSE mcExcuse[t]]
    /\ mcSeen' = [mcSeen EXCEPT ![d] = mcEnabled]
    /\ UNCHANGED <<mcEnabled, mcMapped, mcHook, mcTag, mcRow, mcHand, mcOwed,
                   mcChanges>>

\* mark_mailchimp_sync_failed, for good or to be tried again.
SyncFailed(t, c, permanent) ==
    LET status == IF permanent THEN "failed" ELSE StatusAfterTry(c.attempts + 1)
    IN [mcRow EXCEPT ![t].status = status,
                     ![t].attempts = c.attempts + 1,
                     ![t].due = IF status = "failed" THEN @ ELSE FALSE]

SyncDelivered(t, c) ==
    [mcRow EXCEPT ![t].status = "delivered", ![t].attempts = c.attempts + 1]

\* The client had Mailchimp disabled when the batch was loaded.
FailDisabled(d, t) ==
    /\ mcHand[d] = NoSend /\ mcBatch[d][t] # NoCopy /\ ~ mcSeen[d]
    /\ mcRow' = SyncFailed(t, mcBatch[d][t], TRUE)
    /\ mcBatch' = [mcBatch EXCEPT ![d][t] = NoCopy]
    /\ UNCHANGED <<mcEnabled, mcMapped, mcHook, mcTag, mcHand, mcSeen, mcOwed,
                   mcExcuse, mcChanges>>

\* Upsert the member and add its tag: two requests, either may be refused for
\* good or fail; a client that answers both has the tag.
Send(d, t) ==
    /\ mcHand[d] = NoSend /\ mcBatch[d][t] # NoCopy /\ mcSeen[d]
    /\ \E answer \in Answer :
         mcHand' = [mcHand EXCEPT ![d] = [answer |-> answer, tag |-> t,
                                          copy |-> mcBatch[d][t]]]
    /\ mcBatch' = [mcBatch EXCEPT ![d][t] = NoCopy]
    /\ mcOwed' = mcOwed \ {t}
    /\ UNCHANGED <<mcEnabled, mcMapped, mcHook, mcTag, mcRow, mcSeen, mcExcuse,
                   mcChanges>>

MarkSync(d) ==
    LET hand == mcHand[d] IN
    /\ hand # NoSend
    /\ mcRow' = IF hand.answer = "ok" THEN SyncDelivered(hand.tag, hand.copy)
                ELSE SyncFailed(hand.tag, hand.copy, hand.answer = "permanent")
    /\ mcHand' = [mcHand EXCEPT ![d] = NoSend]
    /\ UNCHANGED <<mcEnabled, mcMapped, mcHook, mcTag, mcBatch, mcSeen, mcOwed,
                   mcExcuse, mcChanges>>

\* An exception the dispatch does not catch, or the end of the process.
CrashSync(d) ==
    /\ mcChanges < MaxMcChanges /\ ~ Free(d)
    /\ mcBatch' = [mcBatch EXCEPT ![d] = [t \in Tag |-> NoCopy]]
    /\ mcHand' = [mcHand EXCEPT ![d] = NoSend]
    /\ mcChanges' = mcChanges + 1
    /\ UNCHANGED <<mcEnabled, mcMapped, mcHook, mcTag, mcRow, mcSeen, mcOwed,
                   mcExcuse>>

-----------------------------------------------------------------------------
(* Time and the client's own settings.                                     *)

SyncBecomesDue(t) ==
    /\ mcRow[t].status = "pending" /\ ~ mcRow[t].due
    /\ mcRow' = [mcRow EXCEPT ![t].due = TRUE]
    /\ UNCHANGED <<mcEnabled, mcMapped, mcHook, mcTag, mcDispatchers, mcOwed,
                   mcExcuse, mcChanges>>

\* update_mailchimp_config_for_client: any of the fields makes it usable or not.
UpdateConfig ==
    /\ mcChanges < MaxMcChanges
    /\ mcEnabled' = ~ mcEnabled
    /\ mcChanges' = mcChanges + 1
    /\ UNCHANGED <<mcMapped, mcHook, mcTag, mcRow, mcDispatchers, mcOwed, mcExcuse>>

\* reconcile_tag_mappings_for_client: rows already queued are left alone.
ReconcileMappings ==
    /\ mcChanges < MaxMcChanges
    /\ \E desired \in SUBSET Tag : mcMapped' = desired /\ desired # mcMapped
    /\ mcChanges' = mcChanges + 1
    /\ UNCHANGED <<mcEnabled, mcHook, mcTag, mcRow, mcDispatchers, mcOwed, mcExcuse>>

McHookStep(g) == Enqueue(g) \/ Reopen(g)
McDispatch(d) ==
    \/ LoadSyncs(d) \/ MarkSync(d)
    \/ \E t \in Tag : FailDisabled(d, t) \/ Send(d, t)

McNext ==
    \/ \E g \in Grant : CommitGrant(g) \/ LoseGrant(g) \/ McHookStep(g)
    \/ \E t \in Tag : SyncBecomesDue(t)
    \/ \E d \in Dispatcher : McDispatch(d) \/ CrashSync(d)
    \/ UpdateConfig \/ ReconcileMappings

\* As for the callbacks; operators run the command over and over (docs/api.md:537).
McFairness ==
    /\ \A g \in Grant : WF_mcVars(McHookStep(g))
    /\ \A t \in Tag : WF_mcVars(SyncBecomesDue(t))
    /\ \A d \in Dispatcher : WF_mcVars(McDispatch(d))

McSafetySpec == McInit /\ [][McNext]_mcVars
McSpec == McSafetySpec /\ McFairness

-----------------------------------------------------------------------------
\* A grant on its way is sent in the end, or its process died before the hook,
\* or Mailchimp was disabled, or an earlier outcome settled its row.
McEventuallySent ==
    \A g \in Grant :
        mcHook[g] = "committed" ~>
            \/ mcHook[g] \in {"lost", "silent"}
            \/ mcHook[g] = "done" /\ (mcTag[g] \notin mcOwed \/ mcExcuse[mcTag[g]] # {})

=============================================================================

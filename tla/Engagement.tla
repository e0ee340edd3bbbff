------------------------------ MODULE Engagement ------------------------------
(***************************************************************************)
(* Opens, clicks, unsubscribe links and provider events of one campaign    *)
(* that has been sent: what they write to a recipient and the counters of  *)
(* the campaign that follow from it (services/tracking.py and the campaign *)
(* half of services/ses_webhooks.py).                                      *)
(*                                                                         *)
(* Every one of them is a transaction that begins with                     *)
(* select_for_update().select_related("campaign", ...): on Postgres that   *)
(* locks the recipient's row and then the campaign's, to the end.  The     *)
(* counters are read from the recipients in one step and written in        *)
(* another.                                                                *)
(***************************************************************************)
EXTENDS Naturals, FiniteSets

CONSTANTS Recipient,     \* recipients that were sent to
          Visit,         \* connections serving a pixel, a link or an event
          ProviderNote,  \* provider events: [recipient, what]
          MaxLoads       \* bound: how often pixels and links are loaded

Touch == {"open", "click"}
Outcome == {"bounced", "complained", "unsubscribed"}
NoteKinds == Touch \cup {"delivery", "hard_bounce", "soft_bounce", "complaint", "reject"}

ASSUME EngagementAssumption ==
    /\ IsFiniteSet(Recipient) /\ MaxLoads \in Nat
    /\ \A n \in ProviderNote : n.recipient \in Recipient /\ n.what \in NoteKinds

VARIABLES enRow,     \* CampaignRecipient rows
          enCount,   \* the counters of the Campaign row
          enEvents,  \* how many open and click events each recipient has
          enSeen,    \* provider events that are recorded
          enAt,      \* the open transaction of each connection
          enLoads,   \* pixels and links loaded so far
          enStale    \* ghost: counters a row has left without their refresh

enVars == <<enRow, enCount, enEvents, enSeen, enAt, enLoads, enStale>>
enDatabase == <<enRow, enCount, enEvents, enSeen, enStale>>

SentRow == [status : Outcome \cup {"sent", "failed"}, delivered : BOOLEAN,
            count : [Touch -> Nat], first : [Touch -> BOOLEAN]]
Counters == [delivered : Nat, of : [Outcome -> Nat],
             total : [Touch -> Nat], unique : [Touch -> Nat]]
NoNote == [what |-> "none"]
Closed == [step |-> "closed"]

EnTypeOK ==
    /\ enRow \in [Recipient -> SentRow]
    /\ enCount \in Counters
    /\ enEvents \in [Recipient -> [Touch -> Nat]]
    /\ enSeen \subseteq ProviderNote
    /\ \A v \in Visit : enAt[v] = Closed
         \/ /\ enAt[v].step \in {"begun", "row", "written", "counted"}
            /\ enAt[v].recipient \in Recipient
            /\ enAt[v].note \in ProviderNote \cup {NoNote}
            /\ enAt[v].row \in SentRow \cup {NoNote}
            /\ enAt[v].counts \in Counters \cup {NoNote}
    /\ enLoads \in 0..MaxLoads
    /\ enStale \subseteq Outcome

EnInit ==
    /\ enRow = [r \in Recipient |->
                  [status |-> "sent", delivered |-> FALSE,
                   count |-> [k \in Touch |-> 0], first |-> [k \in Touch |-> FALSE]]]
    /\ enCount = [delivered |-> 0, of |-> [o \in Outcome |-> 0],
                  total |-> [k \in Touch |-> 0], unique |-> [k \in Touch |-> 0]]
    /\ enEvents = [r \in Recipient |-> [k \in Touch |-> 0]]
    /\ enSeen = {} /\ enLoads = 0 /\ enStale = {}
    /\ enAt = [v \in Visit |-> Closed]

-----------------------------------------------------------------------------
Open(v, r, what, note) ==
    /\ enAt[v] = Closed
    /\ enAt' = [enAt EXCEPT ![v] =
                  [step |-> "begun", recipient |-> r, what |-> what, note |-> note,
                   row |-> NoNote, counts |-> NoNote]]

\* A pixel, a link of the email or the unsubscribe page, as often as people like.
Load(v, r) ==
    /\ enLoads < MaxLoads
    /\ enLoads' = enLoads + 1
    /\ \E what \in Touch \cup {"unsubscribe"} : Open(v, r, what, NoNote)
    /\ UNCHANGED enDatabase

\* A notification that is not recorded yet, first delivered or redelivered.
Notified(v, n) ==
    /\ n \notin enSeen
    /\ Open(v, n.recipient, n.what, n)
    /\ UNCHANGED <<enDatabase, enLoads>>

HoldsRow(v) == enAt[v].step \in {"row", "written", "counted"}
CampaignUnlocked(v) == \A u \in Visit \ {v} : enAt[u].step \notin {"written", "counted"}

LockRecipient(v) ==
    /\ enAt[v].step = "begun"
    /\ \A u \in Visit \ {v} : HoldsRow(u) => enAt[u].recipient # enAt[v].recipient
    /\ enAt' = [enAt EXCEPT ![v].step = "row"]
    /\ UNCHANGED <<enDatabase, enLoads>>

\* record_open, record_click, apply_unsubscribe and
\* apply_campaign_recipient_update
Touched(row, what) ==
    CASE what \in Touch -> [row EXCEPT !.count[what] = @ + 1, !.first[what] = TRUE]
      [] what = "delivery" -> [row EXCEPT !.delivered = TRUE]
      [] what = "hard_bounce" -> [row EXCEPT !.status = "bounced"]
      [] what = "complaint" -> [row EXCEPT !.status = "complained"]
      [] what = "reject" -> [row EXCEPT !.status = "failed"]
      [] what = "unsubscribe" -> [row EXCEPT !.status = "unsubscribed"]
      [] what = "soft_bounce" -> row

\* With both locks the row is as it is committed.
LockAndWrite(v) ==
    /\ enAt[v].step = "row" /\ CampaignUnlocked(v)
    /\ enAt[v].note \notin enSeen
    /\ enAt' = [enAt EXCEPT ![v].step = "written",
                            ![v].row = Touched(enRow[enAt[v].recipient], enAt[v].what)]
    /\ UNCHANGED <<enDatabase, enLoads>>

\* provider_event_id is unique: whoever was slower is rolled back, as is a
\* connection that dies.
RolledBack(v) ==
    /\ enAt[v] # Closed
    /\ enAt' = [enAt EXCEPT ![v] = Closed]
    /\ UNCHANGED <<enDatabase, enLoads>>

-----------------------------------------------------------------------------
(* The counters.                                                           *)

\* What the transaction sees: what is committed and what it wrote.
RowsOf(v) == [enRow EXCEPT ![enAt[v].recipient] = enAt[v].row]
\* The sum of the recipients' counts: an element for each time of each.
Totals(rows) ==
    [k \in Touch |-> Cardinality(UNION {{r} \X (1..rows[r].count[k]) : r \in Recipient})]
Uniques(rows) == [k \in Touch |-> Cardinality({r \in Recipient : rows[r].first[k]})]
DeliveredOf(rows) == Cardinality({r \in Recipient : rows[r].delivered})
OfOutcome(rows, o) == Cardinality({r \in Recipient : rows[r].status = o})

Recounted(c, rows, outcomes) ==
    [o \in Outcome |-> IF o \in outcomes THEN OfOutcome(rows, o) ELSE c.of[o]]

\* refresh_campaign_engagement_counts
EngagementCounts(c, rows) ==
    [delivered |-> c.delivered, of |-> Recounted(c, rows, {"unsubscribed"}),
     total |-> Totals(rows), unique |-> Uniques(rows)]

\* Mutant: opens and clicks that SES reports leave the campaign's totals alone.
DeliveryCounts(c, rows) ==
    [delivered |-> DeliveredOf(rows), of |-> Recounted(c, rows, {"bounced", "complained"}),
     total |-> c.total, unique |-> c.unique]

\* refresh_campaign_provider_counts
ProviderCounts(c, rows) ==
    [delivered |-> DeliveredOf(rows), of |-> Recounted(c, rows, {"bounced", "complained"}),
     total |-> Totals(rows), unique |-> Uniques(rows)]

CountRecipients(v) ==
    /\ enAt[v].step = "written"
    /\ enAt' = [enAt EXCEPT ![v].step = "counted",
                  ![v].counts = IF enAt[v].note = NoNote
                                THEN EngagementCounts(enCount, RowsOf(v))
                                ELSE ProviderCounts(enCount, RowsOf(v))]
    /\ UNCHANGED <<enDatabase, enLoads>>

\* Only the columns of the refresh are written.
RefreshedBy(note) ==
    IF note = NoNote THEN {"unsubscribed"} ELSE {"bounced", "complained"}

CommitVisit(v) ==
    LET at == enAt[v]
        refreshed == RefreshedBy(at.note) IN
    /\ at.step = "counted"
    /\ enRow' = RowsOf(v)
    /\ enCount' =
         [delivered |-> IF at.note = NoNote THEN enCount.delivered ELSE at.counts.delivered,
          of |-> [o \in Outcome |->
                    IF o \in refreshed THEN at.counts.of[o] ELSE enCount.of[o]],
          total |-> at.counts.total, unique |-> at.counts.unique]
    /\ enEvents' = IF at.what \in Touch
                   THEN [enEvents EXCEPT ![at.recipient][at.what] = @ + 1] ELSE enEvents
    /\ enSeen' = enSeen \cup ({at.note} \ {NoNote})
    /\ enStale' = (enStale \cup ({enRow[at.recipient].status} \cap Outcome)) \ refreshed
    /\ enAt' = [enAt EXCEPT ![v] = Closed]
    /\ UNCHANGED enLoads

EnNext ==
    \E v \in Visit :
        \/ \E r \in Recipient : Load(v, r)
        \/ \E n \in ProviderNote : Notified(v, n)
        \/ LockRecipient(v) \/ LockAndWrite(v) \/ CountRecipients(v)
        \/ CommitVisit(v) \/ RolledBack(v)

EnSpec == EnInit /\ [][EnNext]_enVars

-----------------------------------------------------------------------------
\* However visits overlap, and however often a notification is delivered: a
\* recipient has been opened and clicked as often as there are events of it, and
\* the campaign's counters are the sums over its recipients.  The one exception
\* is a recipient that leaves an outcome: its link does not recount bounces and
\* complaints, and an event does not recount unsubscribes.
EnCountsAgree ==
    /\ \A r \in Recipient, k \in Touch :
         enRow[r].count[k] = enEvents[r][k] /\ (enRow[r].first[k] <=> enEvents[r][k] > 0)
    /\ enCount.delivered = DeliveredOf(enRow)
    /\ enCount.total = Totals(enRow) /\ enCount.unique = Uniques(enRow)
    /\ \A o \in Outcome \ enStale : enCount.of[o] = OfOutcome(enRow, o)

=============================================================================

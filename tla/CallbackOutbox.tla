--------------------------- MODULE CallbackOutbox ---------------------------
(***************************************************************************)
(* The CMP callback outbox (services/cmp_callbacks.py): an email event is  *)
(* committed, an on-commit hook inserts a callback row for it, and one or  *)
(* more dispatchers post the due rows.  Nothing claims a row: a dispatcher *)
(* works on the copies its query returned and saves from them.  The        *)
(* erasure of the contact rewrites the payloads it finds.                  *)
(***************************************************************************)
EXTENDS Outbox

CONSTANTS Event,         \* email events of one contact that have a callback type
          MaxCbCrashes   \* bound on dispatchers dying in the middle of a batch

VARIABLES cbHook,      \* the on-commit hook of each event
          cbBuilt,     \* the payload the hook has built and not inserted yet
          cbRow,       \* cmp_callbacks, one row per event
          cbUrl,       \* a webhook is configured for the client
          cbErased,    \* the contact has been erased
          cbBatch,     \* the copies each dispatcher has still to post
          cbHand,      \* the copy it has posted and not saved
          cbSeenUrl,   \* the configuration its batch was loaded with
          cbTried,     \* ghost: attempts made for each event
          cbReceived,  \* ghost: copies the CMP has taken
          cbExcuse,    \* ghost: what went wrong around an event
          cbCrashes

cbVars == <<cbHook, cbBuilt, cbRow, cbUrl, cbErased, cbBatch, cbHand,
            cbSeenUrl, cbTried, cbReceived, cbExcuse, cbCrashes>>
cbGhosts == <<cbTried, cbReceived, cbExcuse>>

NoCallback == [status |-> "absent"]
Payload == {"email", "erased"}
Callback == [status : RowStatus, attempts : 0..MaxAttempts,
             due : BOOLEAN, payload : Payload]
Copy == [attempts : 0..(MaxAttempts - 1), payload : Payload]
NoHand == [answer |-> "none"]
Hand == [answer : {"ok", "error"}, event : Event, copy : Copy]
Hook == {"none", "committed", "read", "inserted", "silent", "lost"}
Excuse == {"shared", "crash", "erasing"}

CbTypeOK ==
    /\ cbHook \in [Event -> Hook]
    /\ cbBuilt \in [Event -> Payload]
    /\ cbRow \in [Event -> Callback \cup {NoCallback}]
    /\ cbUrl \in BOOLEAN /\ cbErased \in BOOLEAN
    /\ cbBatch \in [Dispatcher -> [Event -> Copy \cup {NoCallback}]]
    /\ cbHand \in [Dispatcher -> Hand \cup {NoHand}]
    /\ cbSeenUrl \in [Dispatcher -> BOOLEAN]
    /\ cbTried \in [Event -> Nat] /\ cbReceived \in [Event -> Nat]
    /\ cbExcuse \in [Event -> SUBSET Excuse]
    /\ cbCrashes \in Nat

CbInit ==
    /\ cbHook = [e \in Event |-> "none"]
    /\ cbBuilt = [e \in Event |-> "email"]
    /\ cbRow = [e \in Event |-> NoCallback]
    /\ cbUrl \in BOOLEAN /\ cbErased = FALSE
    /\ cbBatch = [d \in Dispatcher |-> [e \in Event |-> NoCallback]]
    /\ cbHand = [d \in Dispatcher |-> NoHand]
    /\ cbSeenUrl = [d \in Dispatcher |-> FALSE]
    /\ cbTried = [e \in Event |-> 0] /\ cbReceived = [e \in Event |-> 0]
    /\ cbExcuse = [e \in Event |-> {}]
    /\ cbCrashes = 0

\* The dispatcher has a copy of the event's row, posted or still to post.
Holds(d, e) == \/ cbBatch[d][e] # NoCallback
               \/ cbHand[d] # NoHand /\ cbHand[d].event = e
Excused(e, why) == [cbExcuse EXCEPT ![e] = @ \cup {why}]

-----------------------------------------------------------------------------
(* From the event to the row.                                              *)

\* A transaction that recorded an event and called emit_cmp_contact_event commits.
CommitEvent(e) ==
    /\ cbHook[e] = "none"
    /\ cbHook' = [cbHook EXCEPT ![e] = "committed"]
    /\ UNCHANGED <<cbBuilt, cbRow, cbUrl, cbErased, cbBatch, cbHand, cbSeenUrl,
                   cbGhosts, cbCrashes>>

\* The process dies between the commit and its hooks.
LoseHook(e) ==
    /\ cbHook[e] = "committed"
    /\ cbHook' = [cbHook EXCEPT ![e] = "lost"]
    /\ UNCHANGED <<cbBuilt, cbRow, cbUrl, cbErased, cbBatch, cbHand, cbSeenUrl,
                   cbGhosts, cbCrashes>>

\* The hook reads the event and its contact and builds the payload in memory.
ReadEvent(e) ==
    /\ cbHook[e] = "committed"
    /\ cbHook' = [cbHook EXCEPT ![e] = IF cbUrl THEN "read" ELSE "silent"]
    /\ cbBuilt' = [cbBuilt EXCEPT ![e] = IF cbErased THEN "erased" ELSE "email"]
    /\ UNCHANGED <<cbRow, cbUrl, cbErased, cbBatch, cbHand, cbSeenUrl,
                   cbGhosts, cbCrashes>>

InsertCallback(e) ==
    /\ cbHook[e] = "read"
    /\ cbHook' = [cbHook EXCEPT ![e] = "inserted"]
    /\ cbRow' = [cbRow EXCEPT ![e] = [status |-> "pending", attempts |-> 0,
                                      due |-> TRUE, payload |-> cbBuilt[e]]]
    /\ UNCHANGED <<cbBuilt, cbUrl, cbErased, cbBatch, cbHand, cbSeenUrl,
                   cbGhosts, cbCrashes>>

-----------------------------------------------------------------------------
(* The dispatchers.                                                        *)

Due == {e \in Event : cbRow[e].status = "pending" /\ cbRow[e].due}

DueRowsAndFailed ==
    {e \in Event : cbRow[e].status \in {"pending", "failed"} /\ cbRow[e].due}
DueRowsUntried == {e \in Due : cbRow[e].attempts = 0}

\* The rows a run of the query may return: nothing leaves out a held one.
DueRows == Due

Idle(d) == cbHand[d] = NoHand /\ \A e \in Event : cbBatch[d][e] = NoCallback

\* process_due_cmp_callbacks evaluates the query once and keeps its rows.
LoadBatch(d) ==
    /\ Idle(d)
    /\ \E B \in Batches(DueRows) :
        /\ cbBatch' = [cbBatch EXCEPT ![d] =
             [e \in Event |->
                IF e \in B THEN [attempts |-> cbRow[e].attempts,
                                 payload |-> cbRow[e].payload]
                           ELSE NoCallback]]
        /\ cbExcuse' = [e \in Event |->
             IF e \in B /\ \E o \in Dispatcher \ {d} : Holds(o, e)
             THEN cbExcuse[e] \cup {"shared"} ELSE cbExcuse[e]]
    /\ cbSeenUrl' = [cbSeenUrl EXCEPT ![d] = cbUrl]
    /\ UNCHANGED <<cbHook, cbBuilt, cbRow, cbUrl, cbErased, cbHand, cbTried,
                   cbReceived, cbCrashes>>

SavedDelivered(e, c) ==
    [cbRow EXCEPT ![e].status = "delivered", ![e].attempts = c.attempts + 1]

SavedFailedUncounted(e, c) ==
    [cbRow EXCEPT ![e].status = StatusAfterTry(c.attempts),
                  ![e].attempts = c.attempts,
                  ![e].due = FALSE]

\* The columns mark_cmp_callback_failed saves; the payload is not among them.
SavedFailed(e, c) ==
    [cbRow EXCEPT ![e].status = StatusAfterTry(c.attempts + 1),
                  ![e].attempts = c.attempts + 1,
                  ![e].due = IF StatusAfterTry(c.attempts + 1) = "failed"
                             THEN @ ELSE FALSE]

\* A row of a client without a webhook fails without a POST and counts a try.
FailUnconfigured(d, e) ==
    /\ cbHand[d] = NoHand /\ cbBatch[d][e] # NoCallback /\ ~ cbSeenUrl[d]
    /\ cbRow' = SavedFailed(e, cbBatch[d][e])
    /\ cbBatch' = [cbBatch EXCEPT ![d][e] = NoCallback]
    /\ cbTried' = [cbTried EXCEPT ![e] = @ + 1]
    /\ UNCHANGED <<cbHook, cbBuilt, cbUrl, cbErased, cbHand, cbSeenUrl,
                   cbReceived, cbExcuse, cbCrashes>>

\* One POST: taken and answered, taken and its answer lost, or not taken.
Post(d, e) ==
    /\ cbHand[d] = NoHand /\ cbBatch[d][e] # NoCallback /\ cbSeenUrl[d]
    /\ \E taken \in BOOLEAN, answer \in {"ok", "error"} :
        /\ answer = "ok" => taken
        /\ cbHand' = [cbHand EXCEPT ![d] = [answer |-> answer, event |-> e,
                                            copy |-> cbBatch[d][e]]]
        /\ cbReceived' = [cbReceived EXCEPT ![e] = IF taken THEN @ + 1 ELSE @]
    /\ cbBatch' = [cbBatch EXCEPT ![d][e] = NoCallback]
    /\ cbTried' = [cbTried EXCEPT ![e] = @ + 1]
    /\ UNCHANGED <<cbHook, cbBuilt, cbRow, cbUrl, cbErased, cbSeenUrl, cbExcuse,
                   cbCrashes>>

MarkDelivered(d) ==
    /\ cbHand[d] # NoHand /\ cbHand[d].answer = "ok"
    /\ cbRow' = SavedDelivered(cbHand[d].event, cbHand[d].copy)
    /\ cbHand' = [cbHand EXCEPT ![d] = NoHand]
    /\ UNCHANGED <<cbHook, cbBuilt, cbUrl, cbErased, cbBatch, cbSeenUrl,
                   cbGhosts, cbCrashes>>

MarkFailed(d) ==
    /\ cbHand[d] # NoHand /\ cbHand[d].answer = "error"
    /\ cbRow' = SavedFailed(cbHand[d].event, cbHand[d].copy)
    /\ cbHand' = [cbHand EXCEPT ![d] = NoHand]
    /\ UNCHANGED <<cbHook, cbBuilt, cbUrl, cbErased, cbBatch, cbSeenUrl,
                   cbGhosts, cbCrashes>>

\* The process dies, or an exception the dispatch does not catch ends it.
CrashDispatcher(d) ==
    /\ cbCrashes < MaxCbCrashes /\ ~ Idle(d)
    /\ cbBatch' = [cbBatch EXCEPT ![d] = [e \in Event |-> NoCallback]]
    /\ cbHand' = [cbHand EXCEPT ![d] = NoHand]
    /\ cbExcuse' = IF cbHand[d] = NoHand THEN cbExcuse
                   ELSE Excused(cbHand[d].event, "crash")
    /\ cbCrashes' = cbCrashes + 1
    /\ UNCHANGED <<cbHook, cbBuilt, cbRow, cbUrl, cbErased, cbSeenUrl, cbTried,
                   cbReceived>>

-----------------------------------------------------------------------------
(* Time, configuration and erasure.                                        *)

\* next_attempt_at is reached.
BecomesDue(e) ==
    /\ cbRow[e].status = "pending" /\ ~ cbRow[e].due
    /\ cbRow' = [cbRow EXCEPT ![e].due = TRUE]
    /\ UNCHANGED <<cbHook, cbBuilt, cbUrl, cbErased, cbBatch, cbHand, cbSeenUrl,
                   cbGhosts, cbCrashes>>

\* An operator removes the client's webhook.
RemoveWebhook ==
    /\ cbUrl
    /\ cbUrl' = FALSE
    /\ UNCHANGED <<cbHook, cbBuilt, cbRow, cbErased, cbBatch, cbHand, cbSeenUrl,
                   cbGhosts, cbCrashes>>

AnonymisedIfPending(row) ==
    IF row = NoCallback \/ row.status # "pending" THEN row
    ELSE [row EXCEPT !.payload = "erased"]

\* What the erasure leaves of the callback rows it finds.
Anonymised(row) == IF row = NoCallback THEN row
                   ELSE [row EXCEPT !.payload = "erased"]

\* erase_contact_for_client, one transaction, as far as the outbox goes.
EraseContact ==
    /\ ~ cbErased
    /\ cbErased' = TRUE
    /\ cbRow' = [e \in Event |-> Anonymised(cbRow[e])]
    /\ cbExcuse' = [e \in Event |->
         IF cbHook[e] = "read" THEN cbExcuse[e] \cup {"erasing"} ELSE cbExcuse[e]]
    /\ UNCHANGED <<cbHook, cbBuilt, cbUrl, cbBatch, cbHand, cbSeenUrl, cbTried,
                   cbReceived, cbCrashes>>

CbHookStep(e) == ReadEvent(e) \/ InsertCallback(e)
CbDispatch(d) ==
    \/ LoadBatch(d) \/ MarkDelivered(d) \/ MarkFailed(d)
    \/ \E e \in Event : FailUnconfigured(d, e) \/ Post(d, e)

CbNext ==
    \/ \E e \in Event : CommitEvent(e) \/ LoseHook(e) \/ CbHookStep(e) \/ BecomesDue(e)
    \/ \E d \in Dispatcher : CbDispatch(d) \/ CrashDispatcher(d)
    \/ RemoveWebhook \/ EraseContact

\* Hooks run unless their process dies; systemd keeps the dispatchers running;
\* time passes.
CbFairness ==
    /\ \A e \in Event : WF_cbVars(CbHookStep(e)) /\ WF_cbVars(BecomesDue(e))
    /\ \A d \in Dispatcher : WF_cbVars(CbDispatch(d))

CbSafetySpec == CbInit /\ [][CbNext]_cbVars
CbSpec == CbSafetySpec /\ CbFairness

-----------------------------------------------------------------------------
(* What the outbox must keep.                                              *)

\* A row is delivered only if the CMP took the event, and given up only after
\* max_attempts tries (mark_cmp_callback_delivered, mark_cmp_callback_failed),
\* whatever overlapping dispatchers saved over each other.
CbSettledIsEarned ==
    \A e \in Event :
        /\ cbRow[e].status = "delivered" => cbReceived[e] > 0
        /\ cbRow[e].status = "failed" => cbTried[e] >= MaxAttempts

\* attempt_count counts the attempts, so max_attempts bounds them, unless two
\* dispatchers counted from the same copy or one died before it could save.
CbAttemptsCounted ==
    \A e \in Event :
        cbRow[e] # NoCallback /\ cbExcuse[e] \cap {"shared", "crash"} = {} =>
            cbTried[e] = cbRow[e].attempts
                + (IF \E d \in Dispatcher :
                        cbHand[d] # NoHand /\ cbHand[d].event = e THEN 1 ELSE 0)

\* After the erasure no stored callback names the address, but for a hook that
\* had read the contact before it and inserts after it.
CbErasureReaches ==
    cbErased => \A e \in Event :
        cbRow[e] # NoCallback /\ cbRow[e].payload = "email" =>
            "erasing" \in cbExcuse[e]

\* A committed event is delivered or given up in the end, unless its process
\* died before the hook or no webhook was configured.
CbEventuallySettled ==
    \A e \in Event :
        cbHook[e] = "committed" ~>
            \/ cbHook[e] \in {"lost", "silent"}
            \/ cbRow[e].status \in {"delivered", "failed"}

=============================================================================

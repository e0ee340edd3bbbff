------------------------ MODULE CallbackOutbox_proofs ------------------------
EXTENDS CallbackOutbox, TLAPS

InHand(d, e) == cbHand[d] # NoHand /\ cbHand[d].event = e
InBatch(d, e) == cbBatch[d][e] # NoCallback

\* A row is there once its hook has inserted it; before that nothing was tried.
RowsFit ==
    \A e \in Event :
        /\ cbRow[e] # NoCallback <=> cbHook[e] = "inserted"
        /\ cbRow[e] = NoCallback => cbTried[e] = 0
        /\ cbRow[e].status = "pending" => cbRow[e].attempts < MaxAttempts
        /\ cbRow[e] # NoCallback => cbRow[e].attempts <= cbTried[e]

\* A copy is of a row that is there, and counts no attempt that was not made.
CopiesFit ==
    \A d \in Dispatcher, e \in Event :
        /\ InBatch(d, e) => cbRow[e] # NoCallback /\ cbBatch[d][e].attempts <= cbTried[e]
        /\ InHand(d, e) =>
             /\ cbRow[e] # NoCallback /\ cbHand[d].copy.attempts < cbTried[e]
             /\ cbHand[d].answer = "ok" => cbReceived[e] > 0

\* A hook that has built its payload from an erased contact's email is excused.
HooksFit ==
    cbErased => \A e \in Event :
        cbHook[e] = "read" /\ cbBuilt[e] = "email" => "erasing" \in cbExcuse[e]

\* Where nothing went wrong one dispatcher at most holds an event, once, and its
\* copy says what the row says.
Sole(e) ==
    /\ \A d, o \in Dispatcher : Holds(d, e) /\ Holds(o, e) => d = o
    /\ \A d \in Dispatcher :
         /\ InBatch(d, e) => /\ ~ InHand(d, e) /\ cbTried[e] = cbRow[e].attempts
                             /\ cbBatch[d][e].attempts = cbRow[e].attempts
         /\ InHand(d, e) => /\ cbTried[e] = cbRow[e].attempts + 1
                            /\ cbHand[d].copy.attempts = cbRow[e].attempts
    /\ (\A d \in Dispatcher : ~ Holds(d, e)) => cbTried[e] = cbRow[e].attempts
SoleHolder ==
    \A e \in Event :
        cbRow[e] # NoCallback /\ cbExcuse[e] \cap {"shared", "crash"} = {} => Sole(e)

CbIInv == /\ CbTypeOK /\ RowsFit /\ CopiesFit /\ HooksFit /\ SoleHolder
          /\ CbSettledIsEarned /\ CbErasureReaches

\* The invariant holds before the first event.
LEMMA CbInitially == CbInit => CbIInv
  <1> SUFFICES ASSUME CbInit PROVE CbIInv
    OBVIOUS
  <1>1. CbTypeOK
    BY DEF CbInit, CbTypeOK, Hook, Payload
  <1>2. RowsFit /\ CopiesFit /\ HooksFit /\ SoleHolder /\ CbSettledIsEarned /\ CbErasureReaches
    BY DEF CbInit, RowsFit, CopiesFit, HooksFit, SoleHolder, CbSettledIsEarned,
       CbErasureReaches, InHand, InBatch, NoCallback, NoHand
  <1> QED
    BY <1>1, <1>2 DEF CbIInv

-----------------------------------------------------------------------------
\* What a batch may be: rows that are due, each still below its attempts.
LEMMA BatchIsDue ==
  ASSUME CbTypeOK, RowsFit, NEW B \in Batches(DueRows), NEW e \in B
  PROVE  /\ e \in Event /\ cbRow[e] \in Callback
         /\ cbRow[e].attempts \in 0..(MaxAttempts - 1)
  BY OutboxAssumption DEF Batches, DueRows, Due, CbTypeOK, RowsFit, Callback, NoCallback

\* The rows that the two kinds of save leave.
LEMMA SavesKeepTypes ==
  ASSUME CbTypeOK, NEW e \in Event, cbRow[e] # NoCallback, NEW c \in Copy
  PROVE  /\ SavedDelivered(e, c) \in [Event -> Callback \cup {NoCallback}]
         /\ SavedFailed(e, c) \in [Event -> Callback \cup {NoCallback}]
         /\ \A o \in Event \ {e} : /\ SavedDelivered(e, c)[o] = cbRow[o]
                                   /\ SavedFailed(e, c)[o] = cbRow[o]
         /\ SavedDelivered(e, c)[e] # NoCallback /\ SavedFailed(e, c)[e] # NoCallback
         /\ SavedDelivered(e, c)[e].payload = cbRow[e].payload
         /\ SavedFailed(e, c)[e].payload = cbRow[e].payload
         /\ SavedDelivered(e, c)[e].attempts = c.attempts + 1
         /\ SavedFailed(e, c)[e].attempts = c.attempts + 1
         /\ SavedDelivered(e, c)[e].status = "delivered"
         /\ SavedFailed(e, c)[e].status =
              IF c.attempts + 1 >= MaxAttempts THEN "failed" ELSE "pending"
  <1>1. /\ cbRow[e] \in Callback /\ c.attempts \in 0..(MaxAttempts - 1)
        /\ cbRow \in [Event -> Callback \cup {NoCallback}]
    BY DEF CbTypeOK, Copy
  <1>2. c.attempts + 1 \in 0..MaxAttempts
    BY <1>1, OutboxAssumption
  <1>3. /\ SavedDelivered(e, c) \in [Event -> Callback \cup {NoCallback}]
        /\ SavedDelivered(e, c)[e] \in Callback
        /\ \A o \in Event \ {e} : SavedDelivered(e, c)[o] = cbRow[o]
        /\ SavedDelivered(e, c)[e].payload = cbRow[e].payload
        /\ SavedDelivered(e, c)[e].attempts = c.attempts + 1
        /\ SavedDelivered(e, c)[e].status = "delivered"
    BY <1>1, <1>2 DEF SavedDelivered, Callback, RowStatus
  <1>4. /\ SavedFailed(e, c) \in [Event -> Callback \cup {NoCallback}]
        /\ SavedFailed(e, c)[e] \in Callback
        /\ \A o \in Event \ {e} : SavedFailed(e, c)[o] = cbRow[o]
        /\ SavedFailed(e, c)[e].payload = cbRow[e].payload
        /\ SavedFailed(e, c)[e].attempts = c.attempts + 1
        /\ SavedFailed(e, c)[e].status =
              IF c.attempts + 1 >= MaxAttempts THEN "failed" ELSE "pending"
    BY <1>1, <1>2 DEF SavedFailed, StatusAfterTry, Callback, RowStatus
  <1>5. \A r \in Callback : r # NoCallback
    BY DEF Callback, NoCallback, RowStatus
  <1> QED
    BY <1>3, <1>4, <1>5

\* The copy in a dispatcher's hand.
LEMMA HandFits ==
  ASSUME CbTypeOK, CopiesFit, NEW d \in Dispatcher, cbHand[d] # NoHand
  PROVE  /\ cbHand[d].event \in Event /\ cbHand[d].copy \in Copy
         /\ cbRow[cbHand[d].event] # NoCallback
  BY DEF CbTypeOK, CopiesFit, InHand, Hand

-----------------------------------------------------------------------------
\* Every step of a hook, a dispatcher or an erasure keeps the types.
LEMMA CbTypeStep == CbTypeOK /\ RowsFit /\ CopiesFit /\ [CbNext]_cbVars => CbTypeOK'
  <1> SUFFICES ASSUME CbTypeOK, RowsFit, CopiesFit, [CbNext]_cbVars PROVE CbTypeOK'
    OBVIOUS
  <1> USE OutboxAssumption DEF CbTypeOK, Hook, Payload, Excuse, cbGhosts
  <1>1. ASSUME NEW e \in Event, CommitEvent(e) \/ LoseHook(e) \/ ReadEvent(e) PROVE CbTypeOK'
    BY <1>1 DEF CommitEvent, LoseHook, ReadEvent
  <1>2. ASSUME NEW e \in Event, InsertCallback(e) PROVE CbTypeOK'
    <2>1. [status |-> "pending", attempts |-> 0, due |-> TRUE, payload |-> cbBuilt[e]]
            \in Callback
      BY DEF Callback, RowStatus
    <2> QED
      BY <1>2, <2>1 DEF InsertCallback
  <1>3. ASSUME NEW e \in Event, BecomesDue(e) PROVE CbTypeOK'
    <2>1. cbRow[e] \in Callback
      BY <1>3 DEF BecomesDue, NoCallback
    <2>2. [cbRow[e] EXCEPT !.due = TRUE] \in Callback
      BY <2>1 DEF Callback
    <2> QED
      BY <1>3, <2>2 DEF BecomesDue
  <1>4. ASSUME NEW d \in Dispatcher, LoadBatch(d) PROVE CbTypeOK'
    <2>1. PICK B \in Batches(DueRows) :
            /\ cbBatch' = [cbBatch EXCEPT ![d] =
                 [e \in Event |->
                    IF e \in B THEN [attempts |-> cbRow[e].attempts,
                                     payload |-> cbRow[e].payload]
                               ELSE NoCallback]]
            /\ cbExcuse' = [e \in Event |->
                 IF e \in B /\ \E o \in Dispatcher \ {d} : Holds(o, e)
                 THEN cbExcuse[e] \cup {"shared"} ELSE cbExcuse[e]]
      BY <1>4 DEF LoadBatch
    <2>2. ASSUME NEW e \in B
          PROVE  [attempts |-> cbRow[e].attempts, payload |-> cbRow[e].payload] \in Copy
      BY BatchIsDue DEF Copy, Callback
    <2>3. cbBatch' \in [Dispatcher -> [Event -> Copy \cup {NoCallback}]]
      BY <2>1, <2>2
    <2>4. cbExcuse' \in [Event -> SUBSET Excuse]
      BY <2>1
    <2> QED
      BY <1>4, <2>3, <2>4 DEF LoadBatch
  <1>5. ASSUME NEW d \in Dispatcher, NEW e \in Event, FailUnconfigured(d, e) PROVE CbTypeOK'
    <2>1. cbBatch[d][e] \in Copy /\ cbRow[e] # NoCallback
      BY <1>5 DEF FailUnconfigured, CopiesFit, InBatch
    <2>2. cbRow' \in [Event -> Callback \cup {NoCallback}]
      BY <1>5, <2>1, SavesKeepTypes DEF FailUnconfigured
    <2> QED
      BY <1>5, <2>2 DEF FailUnconfigured
  <1>6. ASSUME NEW d \in Dispatcher, NEW e \in Event, Post(d, e) PROVE CbTypeOK'
    <2>1. cbBatch[d][e] \in Copy
      BY <1>6 DEF Post
    <2>2. PICK taken \in BOOLEAN, answer \in {"ok", "error"} :
            /\ cbHand' = [cbHand EXCEPT ![d] = [answer |-> answer, event |-> e,
                                                copy |-> cbBatch[d][e]]]
            /\ cbReceived' = [cbReceived EXCEPT ![e] = IF taken THEN @ + 1 ELSE @]
      BY <1>6 DEF Post
    <2>3. cbHand' \in [Dispatcher -> Hand \cup {NoHand}]
      BY <2>1, <2>2 DEF Hand
    <2>4. cbReceived' \in [Event -> Nat]
      BY <2>2
    <2> QED
      BY <1>6, <2>3, <2>4 DEF Post
  <1>7. ASSUME NEW d \in Dispatcher, MarkDelivered(d) \/ MarkFailed(d) PROVE CbTypeOK'
    <2>1. cbRow' \in [Event -> Callback \cup {NoCallback}]
      BY <1>7, HandFits, SavesKeepTypes DEF MarkDelivered, MarkFailed
    <2> QED
      BY <1>7, <2>1 DEF MarkDelivered, MarkFailed
  <1>8. ASSUME NEW d \in Dispatcher, CrashDispatcher(d) PROVE CbTypeOK'
    <2>1. cbExcuse' \in [Event -> SUBSET Excuse]
      BY <1>8 DEF CrashDispatcher, Excused
    <2> QED
      BY <1>8, <2>1 DEF CrashDispatcher
  <1>9. CASE RemoveWebhook
    BY <1>9 DEF RemoveWebhook
  <1>10. CASE EraseContact
    <2>1. \A e \in Event : Anonymised(cbRow[e]) \in Callback \cup {NoCallback}
      BY DEF Anonymised, Callback
    <2>2. cbExcuse' \in [Event -> SUBSET Excuse]
      BY <1>10 DEF EraseContact
    <2> QED
      BY <1>10, <2>1, <2>2 DEF EraseContact
  <1>11. CASE UNCHANGED cbVars
    BY <1>11 DEF cbVars
  <1> QED
    BY <1>1, <1>2, <1>3, <1>4, <1>5, <1>6, <1>7, <1>8, <1>9, <1>10, <1>11
       DEF CbNext, CbHookStep, CbDispatch

\* What a save does to the rows, for a copy from a batch or from a hand.
LEMMA SaveInPlace ==
  ASSUME CbTypeOK, NEW e \in Event, cbRow[e] # NoCallback, NEW c \in Copy,
         cbRow' \in {SavedDelivered(e, c), SavedFailed(e, c)}
  PROVE  /\ \A o \in Event \ {e} : cbRow'[o] = cbRow[o]
         /\ cbRow'[e] # NoCallback /\ cbRow'[e].payload = cbRow[e].payload
         /\ cbRow'[e].attempts = c.attempts + 1 /\ c.attempts \in Nat
         /\ cbRow'[e].status = "pending" => c.attempts + 1 < MaxAttempts
         /\ cbRow' = SavedDelivered(e, c) => cbRow'[e].status = "delivered"
         /\ cbRow'[e].status = "delivered" => cbRow' = SavedDelivered(e, c)
         /\ cbRow'[e].status = "failed" => c.attempts + 1 >= MaxAttempts
  <1>1. c.attempts \in Nat
    BY DEF Copy
  <1> QED
    BY <1>1, SavesKeepTypes, OutboxAssumption

\* Every step keeps what is known of the stored rows (RowsFit).
LEMMA RowsStep ==
  CbTypeOK /\ RowsFit /\ CopiesFit /\ [CbNext]_cbVars => RowsFit'
  <1> SUFFICES ASSUME CbTypeOK, RowsFit, CopiesFit, [CbNext]_cbVars PROVE RowsFit'
    OBVIOUS
  <1> USE OutboxAssumption DEF cbGhosts
  <1>t. /\ cbHook \in [Event -> Hook] /\ cbTried \in [Event -> Nat]
        /\ cbRow \in [Event -> Callback \cup {NoCallback}]
    BY DEF CbTypeOK
  <1>a. \A r \in Callback : r # NoCallback /\ r.attempts \in Nat
    BY DEF Callback, NoCallback
  <1>1. ASSUME NEW e \in Event, CommitEvent(e) \/ LoseHook(e) \/ ReadEvent(e) PROVE RowsFit'
    BY <1>1, <1>t DEF CommitEvent, LoseHook, ReadEvent, RowsFit
  <1>2. ASSUME NEW e \in Event, InsertCallback(e) PROVE RowsFit'
    <2>1. cbTried[e] = 0 /\ cbHook[e] # "inserted"
      BY <1>2 DEF InsertCallback, RowsFit
    <2>2. /\ cbHook'[e] = "inserted" /\ cbRow'[e] # NoCallback /\ cbTried' = cbTried
          /\ cbRow'[e].attempts = 0
          /\ \A o \in Event \ {e} : cbRow'[o] = cbRow[o] /\ cbHook'[o] = cbHook[o]
      BY <1>2, <1>t DEF InsertCallback, NoCallback
    <2> QED
      BY <2>1, <2>2 DEF RowsFit
  <1>3. ASSUME NEW e \in Event, BecomesDue(e) PROVE RowsFit'
    <2>1. cbRow[e] \in Callback
      BY <1>3, <1>t DEF BecomesDue, NoCallback
    <2>2. /\ cbRow'[e] # NoCallback /\ cbRow'[e].status = cbRow[e].status
          /\ cbRow'[e].attempts = cbRow[e].attempts
          /\ \A o \in Event \ {e} : cbRow'[o] = cbRow[o]
          /\ cbHook' = cbHook /\ cbTried' = cbTried
      BY <1>3, <1>t, <2>1 DEF BecomesDue, NoCallback, Callback
    <2> QED
      BY <2>1, <2>2, <1>a DEF RowsFit
  <1>4. ASSUME NEW d \in Dispatcher, LoadBatch(d) \/ CrashDispatcher(d) PROVE RowsFit'
    BY <1>4 DEF LoadBatch, CrashDispatcher, RowsFit
  <1>5. ASSUME NEW d \in Dispatcher, NEW e \in Event, FailUnconfigured(d, e) PROVE RowsFit'
    <2>1. /\ cbBatch[d][e] \in Copy /\ cbRow[e] # NoCallback
          /\ cbBatch[d][e].attempts <= cbTried[e]
      BY <1>5 DEF FailUnconfigured, CopiesFit, InBatch, CbTypeOK
    <2>2. /\ cbRow' = SavedFailed(e, cbBatch[d][e]) /\ cbHook' = cbHook
          /\ cbTried' = [cbTried EXCEPT ![e] = @ + 1]
      BY <1>5 DEF FailUnconfigured
    <2>3. /\ \A o \in Event \ {e} : cbRow'[o] = cbRow[o]
          /\ cbRow'[e] # NoCallback
          /\ cbRow'[e].attempts = cbBatch[d][e].attempts + 1
          /\ cbBatch[d][e].attempts \in Nat
          /\ cbRow'[e].status = "pending" => cbBatch[d][e].attempts + 1 < MaxAttempts
      BY <2>1, <2>2, SaveInPlace
    <2> QED
      BY <2>1, <2>2, <2>3, <1>t DEF RowsFit
  <1>6. ASSUME NEW d \in Dispatcher, NEW e \in Event, Post(d, e) PROVE RowsFit'
    <2>1. cbRow[e] # NoCallback
      BY <1>6 DEF Post, CopiesFit, InBatch
    <2>2. /\ cbRow' = cbRow /\ cbHook' = cbHook
          /\ cbTried' = [cbTried EXCEPT ![e] = @ + 1]
      BY <1>6 DEF Post
    <2>3. \A o \in Event : cbRow[o] # NoCallback => cbRow[o].attempts \in Nat
      BY <1>a, <1>t
    <2> QED
      BY <2>1, <2>2, <2>3, <1>t DEF RowsFit
  <1>7. ASSUME NEW d \in Dispatcher, MarkDelivered(d) \/ MarkFailed(d) PROVE RowsFit'
    <2> DEFINE e == cbHand[d].event
               c == cbHand[d].copy
    <2>1. e \in Event /\ c \in Copy /\ cbRow[e] # NoCallback /\ c.attempts < cbTried[e]
      BY <1>7, HandFits DEF MarkDelivered, MarkFailed, CopiesFit, InHand
    <2>2. /\ cbRow' \in {SavedDelivered(e, c), SavedFailed(e, c)}
          /\ cbHook' = cbHook /\ cbTried' = cbTried
      BY <1>7 DEF MarkDelivered, MarkFailed
    <2> HIDE DEF e, c
    <2>3. /\ \A o \in Event \ {e} : cbRow'[o] = cbRow[o]
          /\ cbRow'[e] # NoCallback /\ cbRow'[e].attempts = c.attempts + 1
          /\ c.attempts \in Nat
          /\ cbRow'[e].status = "pending" => c.attempts + 1 < MaxAttempts
      BY <2>1, <2>2, SaveInPlace
    <2> QED
      BY <2>1, <2>2, <2>3, <1>t DEF RowsFit
  <1>8. CASE RemoveWebhook
    BY <1>8 DEF RemoveWebhook, RowsFit
  <1>9. CASE EraseContact
    <2>1. ASSUME NEW e \in Event
          PROVE  /\ cbRow'[e] = NoCallback <=> cbRow[e] = NoCallback
                 /\ cbRow[e] # NoCallback => /\ cbRow'[e].status = cbRow[e].status
                                             /\ cbRow'[e].attempts = cbRow[e].attempts
      BY <1>9, <1>t DEF EraseContact, Anonymised, Callback, NoCallback
    <2>2. cbHook' = cbHook /\ cbTried' = cbTried
      BY <1>9 DEF EraseContact
    <2>3. ASSUME NEW e \in Event, cbRow'[e].status = "pending"
          PROVE  cbRow'[e].attempts < MaxAttempts
      <3>1. cbRow[e] # NoCallback
        BY <2>1, <2>3 DEF NoCallback
      <3> QED
        BY <2>1, <2>3, <3>1 DEF RowsFit
    <2> QED
      BY <2>1, <2>2, <2>3 DEF RowsFit
  <1>10. CASE UNCHANGED cbVars
    BY <1>10 DEF cbVars, RowsFit
  <1> QED
    BY <1>1, <1>2, <1>3, <1>4, <1>5, <1>6, <1>7, <1>8, <1>9, <1>10
       DEF CbNext, CbHookStep, CbDispatch

\* Every step keeps what is known of the dispatchers' copies (CopiesFit).
LEMMA CopiesStep ==
  CbTypeOK /\ RowsFit /\ CopiesFit /\ [CbNext]_cbVars => CopiesFit'
  <1> SUFFICES ASSUME CbTypeOK, RowsFit, CopiesFit, [CbNext]_cbVars PROVE CopiesFit'
    OBVIOUS
  <1> USE DEF cbGhosts, InBatch, InHand
  <1>t. /\ cbTried \in [Event -> Nat] /\ cbReceived \in [Event -> Nat]
        /\ cbRow \in [Event -> Callback \cup {NoCallback}]
        /\ cbBatch \in [Dispatcher -> [Event -> Copy \cup {NoCallback}]]
        /\ cbHand \in [Dispatcher -> Hand \cup {NoHand}]
    BY DEF CbTypeOK
  <1>a. \A c \in Copy : c.attempts \in Nat /\ c # NoCallback
    BY DEF Copy, NoCallback
  <1>b. \A h \in Hand : h.copy.attempts \in Nat /\ h.event \in Event /\ h # NoHand
    BY <1>a DEF Hand, NoHand
  <1>1. ASSUME UNCHANGED <<cbBatch, cbHand, cbTried, cbReceived>>,
               \A e \in Event : cbRow[e] # NoCallback => cbRow'[e] # NoCallback
        PROVE  CopiesFit'
    BY <1>1 DEF CopiesFit
  <1>2. ASSUME NEW e \in Event, CommitEvent(e) \/ LoseHook(e) \/ ReadEvent(e) PROVE CopiesFit'
    BY <1>1, <1>2 DEF CommitEvent, LoseHook, ReadEvent
  <1>3. ASSUME NEW e \in Event, InsertCallback(e) PROVE CopiesFit'
    <2>1. \A o \in Event : cbRow[o] # NoCallback => cbRow'[o] # NoCallback
      BY <1>3, <1>t DEF InsertCallback, NoCallback
    <2> QED
      BY <1>1, <1>3, <2>1 DEF InsertCallback
  <1>4. ASSUME NEW e \in Event, BecomesDue(e) PROVE CopiesFit'
    <2>1. cbRow[e] \in Callback
      BY <1>4, <1>t DEF BecomesDue, NoCallback
    <2>2. \A o \in Event : cbRow[o] # NoCallback => cbRow'[o] # NoCallback
      BY <1>4, <1>t, <2>1 DEF BecomesDue, NoCallback, Callback
    <2> QED
      BY <1>1, <1>4, <2>2 DEF BecomesDue
  <1>5. ASSUME NEW d \in Dispatcher, LoadBatch(d) PROVE CopiesFit'
    <2>1. PICK B \in Batches(DueRows) :
            cbBatch' = [cbBatch EXCEPT ![d] =
                 [e \in Event |->
                    IF e \in B THEN [attempts |-> cbRow[e].attempts,
                                     payload |-> cbRow[e].payload]
                               ELSE NoCallback]]
      BY <1>5 DEF LoadBatch
    <2>2. \A e \in B : cbRow[e] # NoCallback /\ cbRow[e].attempts <= cbTried[e]
      <3> SUFFICES ASSUME NEW e \in B
                   PROVE  cbRow[e] # NoCallback /\ cbRow[e].attempts <= cbTried[e]
        OBVIOUS
      <3>1. e \in Event /\ cbRow[e] # NoCallback
        BY BatchIsDue DEF Callback, NoCallback
      <3> QED
        BY <3>1 DEF RowsFit
    <2>3. UNCHANGED <<cbRow, cbHand, cbTried, cbReceived>>
      BY <1>5 DEF LoadBatch
    <2> QED
      BY <2>1, <2>2, <2>3, <1>t DEF CopiesFit
  <1>6. ASSUME NEW d \in Dispatcher, NEW e \in Event, FailUnconfigured(d, e) PROVE CopiesFit'
    <2>1. cbBatch[d][e] \in Copy /\ cbRow[e] # NoCallback
      BY <1>6, <1>t DEF FailUnconfigured, CopiesFit
    <2>2. \A o \in Event : cbRow[o] # NoCallback => cbRow'[o] # NoCallback
      BY <1>6, <2>1, SaveInPlace DEF FailUnconfigured
    <2>3. /\ cbBatch' = [cbBatch EXCEPT ![d][e] = NoCallback]
          /\ cbTried' = [cbTried EXCEPT ![e] = @ + 1]
          /\ UNCHANGED <<cbHand, cbReceived>>
      BY <1>6 DEF FailUnconfigured
    <2> QED
      BY <2>2, <2>3, <1>t, <1>a, <1>b DEF CopiesFit
  <1>7. ASSUME NEW d \in Dispatcher, NEW e \in Event, Post(d, e) PROVE CopiesFit'
    <2>1. cbBatch[d][e] \in Copy /\ cbRow[e] # NoCallback /\ cbBatch[d][e].attempts <= cbTried[e]
      BY <1>7, <1>t DEF Post, CopiesFit
    <2>2. PICK taken \in BOOLEAN, answer \in {"ok", "error"} :
            /\ answer = "ok" => taken
            /\ cbHand' = [cbHand EXCEPT ![d] = [answer |-> answer, event |-> e,
                                                copy |-> cbBatch[d][e]]]
            /\ cbReceived' = [cbReceived EXCEPT ![e] = IF taken THEN @ + 1 ELSE @]
      BY <1>7 DEF Post
    <2>3. /\ cbBatch' = [cbBatch EXCEPT ![d][e] = NoCallback]
          /\ cbTried' = [cbTried EXCEPT ![e] = @ + 1]
          /\ cbRow' = cbRow
      BY <1>7 DEF Post
    <2>4. \A o \in Event : cbTried'[o] >= cbTried[o] /\ cbReceived'[o] >= cbReceived[o]
      BY <2>2, <2>3, <1>t
    <2>5. ASSUME NEW p \in Dispatcher, NEW o \in Event, InBatch(p, o)'
          PROVE  cbRow'[o] # NoCallback /\ cbBatch'[p][o].attempts <= cbTried'[o]
      <3>1. InBatch(p, o) /\ cbBatch'[p][o] = cbBatch[p][o] /\ cbBatch[p][o] \in Copy
        BY <2>3, <2>5, <1>t
      <3> QED
        BY <2>3, <2>4, <3>1, <1>t, <1>a DEF CopiesFit
    <2>6. ASSUME NEW p \in Dispatcher, NEW o \in Event, InHand(p, o)'
          PROVE  /\ cbRow'[o] # NoCallback /\ cbHand'[p].copy.attempts < cbTried'[o]
                 /\ cbHand'[p].answer = "ok" => cbReceived'[o] > 0
      <3>1. CASE p = d
        <4>1. o = e /\ cbHand'[p].copy = cbBatch[d][e] /\ cbHand'[p].answer = answer
          BY <2>2, <2>6, <3>1, <1>t
        <4> QED
          BY <2>1, <2>2, <2>3, <4>1, <1>t, <1>a
      <3>2. CASE p # d
        <4>1. cbHand'[p] = cbHand[p] /\ cbHand[p] \in Hand
          BY <2>2, <2>6, <3>2, <1>t
        <4>2. /\ cbRow[o] # NoCallback /\ cbHand[p].copy.attempts < cbTried[o]
              /\ cbHand[p].answer = "ok" => cbReceived[o] > 0
          BY <2>6, <4>1 DEF CopiesFit
        <4>3. /\ cbTried'[o] \in Nat /\ cbReceived'[o] \in Nat
              /\ cbHand[p].copy.attempts \in Nat
          BY <2>2, <2>3, <4>1, <1>t, <1>b
        <4> QED
          BY <2>3, <2>4, <4>1, <4>2, <4>3, <1>t
      <3> QED
        BY <3>1, <3>2
    <2> QED
      BY <2>5, <2>6 DEF CopiesFit
  <1>8. ASSUME NEW d \in Dispatcher, MarkDelivered(d) \/ MarkFailed(d) PROVE CopiesFit'
    <2> DEFINE e == cbHand[d].event
               c == cbHand[d].copy
    <2>1. e \in Event /\ c \in Copy /\ cbRow[e] # NoCallback
      BY <1>8, HandFits DEF MarkDelivered, MarkFailed
    <2>2. /\ cbRow' \in {SavedDelivered(e, c), SavedFailed(e, c)}
          /\ cbHand' = [cbHand EXCEPT ![d] = NoHand]
          /\ UNCHANGED <<cbBatch, cbTried, cbReceived>>
      BY <1>8 DEF MarkDelivered, MarkFailed
    <2> HIDE DEF e, c
    <2>3. \A o \in Event : cbRow[o] # NoCallback => cbRow'[o] # NoCallback
      BY <2>1, <2>2, SaveInPlace
    <2> QED
      BY <2>2, <2>3, <1>t DEF CopiesFit
  <1>9. ASSUME NEW d \in Dispatcher, CrashDispatcher(d) PROVE CopiesFit'
    BY <1>9, <1>t DEF CrashDispatcher, CopiesFit
  <1>10. CASE RemoveWebhook
    BY <1>1, <1>10 DEF RemoveWebhook
  <1>11. CASE EraseContact
    <2>1. \A e \in Event : cbRow[e] # NoCallback => cbRow'[e] # NoCallback
      BY <1>11, <1>t DEF EraseContact, Anonymised, Callback, NoCallback
    <2> QED
      BY <1>1, <1>11, <2>1 DEF EraseContact
  <1>12. CASE UNCHANGED cbVars
    BY <1>12 DEF cbVars, CopiesFit
  <1> QED
    BY <1>2, <1>3, <1>4, <1>5, <1>6, <1>7, <1>8, <1>9, <1>10, <1>11, <1>12
       DEF CbNext, CbHookStep, CbDispatch

\* No action but an insertion and the erasure touches a stored payload.
LEMMA ErasureStep ==
  /\ CbTypeOK /\ RowsFit /\ CopiesFit /\ HooksFit /\ CbErasureReaches /\ [CbNext]_cbVars
  => HooksFit' /\ CbErasureReaches'
  <1> SUFFICES ASSUME CbTypeOK, RowsFit, CopiesFit, HooksFit, CbErasureReaches,
                      [CbNext]_cbVars
               PROVE  HooksFit' /\ CbErasureReaches'
    OBVIOUS
  <1> USE DEF cbGhosts, InBatch
  <1>t. /\ cbRow \in [Event -> Callback \cup {NoCallback}] /\ cbHook \in [Event -> Hook]
        /\ cbBuilt \in [Event -> Payload] /\ cbExcuse \in [Event -> SUBSET Excuse]
        /\ cbBatch \in [Dispatcher -> [Event -> Copy \cup {NoCallback}]]
    BY DEF CbTypeOK
  <1>1. ASSUME UNCHANGED <<cbHook, cbBuilt, cbErased>>,
               \A e \in Event : cbExcuse[e] \subseteq cbExcuse'[e],
               \A e \in Event : cbRow'[e] # NoCallback =>
                   cbRow[e] # NoCallback /\ cbRow'[e].payload = cbRow[e].payload
        PROVE  HooksFit' /\ CbErasureReaches'
    BY <1>1 DEF HooksFit, CbErasureReaches
  <1>2. ASSUME NEW e \in Event, CommitEvent(e) \/ LoseHook(e) \/ ReadEvent(e)
        PROVE  HooksFit' /\ CbErasureReaches'
    BY <1>2, <1>t DEF CommitEvent, LoseHook, ReadEvent, HooksFit, CbErasureReaches
  <1>3. ASSUME NEW e \in Event, InsertCallback(e) PROVE HooksFit' /\ CbErasureReaches'
    <2>1. /\ cbHook[e] = "read" /\ cbHook'[e] = "inserted" /\ cbRow'[e].payload = cbBuilt[e]
          /\ \A o \in Event \ {e} : cbRow'[o] = cbRow[o] /\ cbHook'[o] = cbHook[o]
          /\ UNCHANGED <<cbBuilt, cbErased, cbExcuse>>
      BY <1>3, <1>t DEF InsertCallback
    <2> QED
      BY <2>1 DEF HooksFit, CbErasureReaches
  <1>4. ASSUME NEW e \in Event, BecomesDue(e) PROVE HooksFit' /\ CbErasureReaches'
    <2>1. cbRow[e] \in Callback
      BY <1>4, <1>t DEF BecomesDue, NoCallback
    <2>2. \A o \in Event : cbRow'[o] # NoCallback =>
             cbRow[o] # NoCallback /\ cbRow'[o].payload = cbRow[o].payload
      BY <1>4, <1>t, <2>1 DEF BecomesDue, NoCallback, Callback
    <2> QED
      BY <1>1, <1>4, <2>2 DEF BecomesDue
  <1>5. ASSUME NEW d \in Dispatcher, LoadBatch(d) PROVE HooksFit' /\ CbErasureReaches'
    <2>1. \A e \in Event : cbExcuse[e] \subseteq cbExcuse'[e]
      BY <1>5 DEF LoadBatch
    <2> QED
      BY <1>1, <1>5, <2>1 DEF LoadBatch
  <1>6. ASSUME NEW d \in Dispatcher, NEW e \in Event, FailUnconfigured(d, e)
        PROVE  HooksFit' /\ CbErasureReaches'
    <2>1. cbBatch[d][e] \in Copy /\ cbRow[e] # NoCallback
      BY <1>6, <1>t DEF FailUnconfigured, CopiesFit
    <2>2. \A o \in Event : cbRow'[o] # NoCallback =>
             cbRow[o] # NoCallback /\ cbRow'[o].payload = cbRow[o].payload
      BY <1>6, <2>1, SaveInPlace DEF FailUnconfigured
    <2> QED
      BY <1>1, <1>6, <2>2 DEF FailUnconfigured
  <1>7. ASSUME NEW d \in Dispatcher, NEW e \in Event, Post(d, e)
        PROVE  HooksFit' /\ CbErasureReaches'
    BY <1>1, <1>7 DEF Post
  <1>8. ASSUME NEW d \in Dispatcher, MarkDelivered(d) \/ MarkFailed(d)
        PROVE  HooksFit' /\ CbErasureReaches'
    <2> DEFINE e == cbHand[d].event
               c == cbHand[d].copy
    <2>1. e \in Event /\ c \in Copy /\ cbRow[e] # NoCallback
      BY <1>8, HandFits DEF MarkDelivered, MarkFailed
    <2>2. cbRow' \in {SavedDelivered(e, c), SavedFailed(e, c)}
      BY <1>8 DEF MarkDelivered, MarkFailed
    <2> HIDE DEF e, c
    <2>3. \A o \in Event : cbRow'[o] # NoCallback =>
             cbRow[o] # NoCallback /\ cbRow'[o].payload = cbRow[o].payload
      BY <2>1, <2>2, SaveInPlace
    <2> QED
      BY <1>1, <1>8, <2>3 DEF MarkDelivered, MarkFailed
  <1>9. ASSUME NEW d \in Dispatcher, CrashDispatcher(d) PROVE HooksFit' /\ CbErasureReaches'
    <2>1. \A e \in Event : cbExcuse[e] \subseteq cbExcuse'[e]
      BY <1>9, <1>t DEF CrashDispatcher, Excused
    <2> QED
      BY <1>1, <1>9, <2>1 DEF CrashDispatcher
  <1>10. CASE RemoveWebhook
    BY <1>1, <1>10 DEF RemoveWebhook
  <1>11. CASE EraseContact
    <2>1. \A e \in Event : cbRow'[e] = NoCallback \/ cbRow'[e].payload = "erased"
      BY <1>11, <1>t DEF EraseContact, Anonymised, Callback
    <2>2. HooksFit'
      BY <1>11, <1>t DEF EraseContact, HooksFit
    <2> QED
      BY <2>1, <2>2 DEF CbErasureReaches
  <1>12. CASE UNCHANGED cbVars
    BY <1>1, <1>12 DEF cbVars
  <1> QED
    BY <1>2, <1>3, <1>4, <1>5, <1>6, <1>7, <1>8, <1>9, <1>10, <1>11, <1>12
       DEF CbNext, CbHookStep, CbDispatch

\* No step settles a row that was not delivered or tried as often as allowed.
LEMMA EarnedStep ==
  /\ CbTypeOK /\ RowsFit /\ CopiesFit /\ CbSettledIsEarned /\ [CbNext]_cbVars
  => CbSettledIsEarned'
  <1> SUFFICES ASSUME CbTypeOK, RowsFit, CopiesFit, CbSettledIsEarned, [CbNext]_cbVars
               PROVE  CbSettledIsEarned'
    OBVIOUS
  <1> USE OutboxAssumption DEF cbGhosts, InBatch, InHand
  <1>t. /\ cbRow \in [Event -> Callback \cup {NoCallback}]
        /\ cbTried \in [Event -> Nat] /\ cbReceived \in [Event -> Nat]
        /\ cbBatch \in [Dispatcher -> [Event -> Copy \cup {NoCallback}]]
    BY DEF CbTypeOK
  <1>1. ASSUME UNCHANGED <<cbTried, cbReceived>>,
               \A e \in Event : cbRow'[e].status \in {"delivered", "failed"} =>
                   cbRow'[e].status = cbRow[e].status
        PROVE  CbSettledIsEarned'
    BY <1>1 DEF CbSettledIsEarned
  <1>2. ASSUME NEW e \in Event, CommitEvent(e) \/ LoseHook(e) \/ ReadEvent(e)
        PROVE  CbSettledIsEarned'
    BY <1>1, <1>2 DEF CommitEvent, LoseHook, ReadEvent
  <1>3. ASSUME NEW e \in Event, InsertCallback(e) PROVE CbSettledIsEarned'
    <2>1. \A o \in Event : cbRow'[o] = cbRow[o] \/ cbRow'[o].status = "pending"
      BY <1>3, <1>t DEF InsertCallback
    <2> QED
      BY <1>1, <1>3, <2>1 DEF InsertCallback
  <1>4. ASSUME NEW e \in Event, BecomesDue(e) PROVE CbSettledIsEarned'
    <2>1. cbRow[e] \in Callback
      BY <1>4, <1>t DEF BecomesDue, NoCallback
    <2>2. \A o \in Event : cbRow'[o].status = cbRow[o].status
      BY <1>4, <1>t, <2>1 DEF BecomesDue, Callback
    <2> QED
      BY <1>1, <1>4, <2>2 DEF BecomesDue
  <1>5. ASSUME NEW d \in Dispatcher, LoadBatch(d) \/ CrashDispatcher(d)
        PROVE  CbSettledIsEarned'
    BY <1>1, <1>5 DEF LoadBatch, CrashDispatcher
  <1>6. ASSUME NEW d \in Dispatcher, NEW e \in Event, FailUnconfigured(d, e)
        PROVE  CbSettledIsEarned'
    <2>1. /\ cbBatch[d][e] \in Copy /\ cbRow[e] # NoCallback
          /\ cbBatch[d][e].attempts <= cbTried[e]
      BY <1>6, <1>t DEF FailUnconfigured, CopiesFit
    <2>2. /\ cbRow' = SavedFailed(e, cbBatch[d][e]) /\ cbReceived' = cbReceived
          /\ cbTried' = [cbTried EXCEPT ![e] = @ + 1]
      BY <1>6 DEF FailUnconfigured
    <2>3. /\ \A o \in Event \ {e} : cbRow'[o] = cbRow[o]
          /\ cbRow'[e].status = IF cbBatch[d][e].attempts + 1 >= MaxAttempts
                                THEN "failed" ELSE "pending"
          /\ cbBatch[d][e].attempts \in Nat
      BY <2>1, <2>2, SavesKeepTypes DEF Copy
    <2> QED
      BY <2>1, <2>2, <2>3, <1>t DEF CbSettledIsEarned
  <1>7. ASSUME NEW d \in Dispatcher, NEW e \in Event, Post(d, e) PROVE CbSettledIsEarned'
    <2>1. /\ cbRow' = cbRow
          /\ \A o \in Event : cbTried'[o] >= cbTried[o] /\ cbReceived'[o] >= cbReceived[o]
          /\ cbTried' \in [Event -> Nat] /\ cbReceived' \in [Event -> Nat]
      BY <1>7, <1>t DEF Post
    <2> QED
      BY <2>1, <1>t DEF CbSettledIsEarned
  <1>8. ASSUME NEW d \in Dispatcher, MarkDelivered(d) \/ MarkFailed(d)
        PROVE  CbSettledIsEarned'
    <2> DEFINE e == cbHand[d].event
               c == cbHand[d].copy
    <2>1. /\ e \in Event /\ c \in Copy /\ cbRow[e] # NoCallback /\ c.attempts < cbTried[e]
          /\ cbHand[d].answer = "ok" => cbReceived[e] > 0
      BY <1>8, HandFits DEF MarkDelivered, MarkFailed, CopiesFit
    <2>2. /\ \/ cbRow' = SavedDelivered(e, c) /\ cbHand[d].answer = "ok"
             \/ cbRow' = SavedFailed(e, c)
          /\ cbTried' = cbTried /\ cbReceived' = cbReceived
      BY <1>8 DEF MarkDelivered, MarkFailed
    <2> HIDE DEF e, c
    <2>3. /\ \A o \in Event \ {e} : cbRow'[o] = cbRow[o]
          /\ cbRow'[e].status = "delivered" => cbReceived[e] > 0
          /\ cbRow'[e].status = "failed" => c.attempts + 1 >= MaxAttempts
          /\ c.attempts \in Nat
      BY <2>1, <2>2, SavesKeepTypes DEF Copy
    <2> QED
      BY <2>1, <2>2, <2>3, <1>t DEF CbSettledIsEarned
  <1>9. CASE RemoveWebhook
    BY <1>1, <1>9 DEF RemoveWebhook
  <1>10. CASE EraseContact
    <2>1. \A e \in Event : cbRow'[e].status = cbRow[e].status
      BY <1>10, <1>t DEF EraseContact, Anonymised, Callback
    <2> QED
      BY <1>1, <1>10, <2>1 DEF EraseContact
  <1>11. CASE UNCHANGED cbVars
    BY <1>1, <1>11 DEF cbVars
  <1> QED
    BY <1>2, <1>3, <1>4, <1>5, <1>6, <1>7, <1>8, <1>9, <1>10, <1>11
       DEF CbNext, CbHookStep, CbDispatch

-----------------------------------------------------------------------------
\* A step that leaves what is said and held of an event alone.
LEMMA SoleKept ==
  ASSUME SoleHolder, NEW e \in Event, cbExcuse[e] \subseteq cbExcuse'[e],
         cbRow'[e] # NoCallback =>
             cbRow[e] # NoCallback /\ cbRow'[e].attempts = cbRow[e].attempts,
         cbTried'[e] = cbTried[e],
         \A d \in Dispatcher :
             /\ cbBatch'[d][e] = cbBatch[d][e]
             /\ InHand(d, e)' <=> InHand(d, e)
             /\ InHand(d, e) => cbHand'[d] = cbHand[d],
         cbRow'[e] # NoCallback, cbExcuse'[e] \cap {"shared", "crash"} = {}
  PROVE  Sole(e)'
  <1>1. Sole(e)
    BY DEF SoleHolder
  <1>2. \A d \in Dispatcher : Holds(d, e)' <=> Holds(d, e)
    BY DEF Holds, InHand
  <1>3. \A d \in Dispatcher : InBatch(d, e)' <=> InBatch(d, e)
    BY DEF InBatch
  <1> QED
    BY <1>1, <1>2, <1>3 DEF Sole

\* A row without an excuse has one dispatcher at most, whose copy is current.
LEMMA SoleStep ==
  /\ CbTypeOK /\ RowsFit /\ CopiesFit /\ SoleHolder /\ [CbNext]_cbVars => SoleHolder'
  <1> SUFFICES ASSUME CbTypeOK, RowsFit, CopiesFit, SoleHolder, [CbNext]_cbVars,
                      NEW e \in Event, cbRow'[e] # NoCallback,
                      cbExcuse'[e] \cap {"shared", "crash"} = {}
               PROVE  Sole(e)'
    BY DEF SoleHolder
  <1> USE DEF cbGhosts
  <1>t. /\ cbRow \in [Event -> Callback \cup {NoCallback}] /\ cbTried \in [Event -> Nat]
        /\ cbExcuse \in [Event -> SUBSET Excuse]
        /\ cbBatch \in [Dispatcher -> [Event -> Copy \cup {NoCallback}]]
        /\ cbHand \in [Dispatcher -> Hand \cup {NoHand}]
    BY DEF CbTypeOK
  <1>1. ASSUME UNCHANGED <<cbTried, cbBatch, cbHand>>, cbExcuse[e] \subseteq cbExcuse'[e],
               cbRow[e] # NoCallback /\ cbRow'[e].attempts = cbRow[e].attempts
        PROVE  Sole(e)'
    BY <1>1, SoleKept DEF InHand
  <1>2. ASSUME NEW x \in Event, CommitEvent(x) \/ LoseHook(x) \/ ReadEvent(x) PROVE Sole(e)'
    BY <1>1, <1>2 DEF CommitEvent, LoseHook, ReadEvent
  <1>3. ASSUME NEW x \in Event, InsertCallback(x) PROVE Sole(e)'
    <2>1. UNCHANGED <<cbTried, cbBatch, cbHand, cbExcuse>> /\ cbHook[x] = "read"
      BY <1>3 DEF InsertCallback
    <2>2. CASE e = x
      <3>1. cbRow[e] = NoCallback /\ cbTried[e] = 0
        BY <2>1, <2>2 DEF RowsFit
      <3>2. \A d \in Dispatcher : ~ InBatch(d, e) /\ ~ InHand(d, e) /\ ~ Holds(d, e)
        BY <3>1 DEF CopiesFit, InBatch, InHand, Holds
      <3>3. cbRow'[e].attempts = 0
        BY <1>3, <2>2, <1>t DEF InsertCallback
      <3> QED
        BY <2>1, <3>1, <3>2, <3>3 DEF Sole, InBatch, InHand, Holds
    <2>3. CASE e # x
      <3>1. cbRow'[e] = cbRow[e]
        BY <1>3, <2>3, <1>t DEF InsertCallback
      <3> QED
        BY <1>1, <2>1, <3>1
    <2> QED
      BY <2>2, <2>3
  <1>4. ASSUME NEW x \in Event, BecomesDue(x) PROVE Sole(e)'
    <2>1. cbRow[x] \in Callback
      BY <1>4, <1>t DEF BecomesDue, NoCallback
    <2>2. cbRow[e] # NoCallback /\ cbRow'[e].attempts = cbRow[e].attempts
      BY <1>4, <1>t, <2>1 DEF BecomesDue, NoCallback, Callback
    <2> QED
      BY <1>1, <1>4, <2>2 DEF BecomesDue
  <1>5. ASSUME NEW d \in Dispatcher, LoadBatch(d) PROVE Sole(e)'
    <2>1. PICK B \in Batches(DueRows) :
            /\ cbBatch' = [cbBatch EXCEPT ![d] =
                 [x \in Event |->
                    IF x \in B THEN [attempts |-> cbRow[x].attempts,
                                     payload |-> cbRow[x].payload]
                               ELSE NoCallback]]
            /\ cbExcuse' = [x \in Event |->
                 IF x \in B /\ \E o \in Dispatcher \ {d} : Holds(o, x)
                 THEN cbExcuse[x] \cup {"shared"} ELSE cbExcuse[x]]
      BY <1>5 DEF LoadBatch
    <2>2. /\ UNCHANGED <<cbRow, cbTried, cbHand>>
          /\ cbHand[d] = NoHand /\ cbBatch[d][e] = NoCallback
      BY <1>5 DEF LoadBatch, Idle
    <2>3. CASE e \in B
      <3>1. /\ \A o \in Dispatcher \ {d} : ~ Holds(o, e)
            /\ cbExcuse[e] \cap {"shared", "crash"} = {}
        BY <2>1, <2>3
      <3>2. \A o \in Dispatcher : ~ Holds(o, e)
        BY <2>2, <3>1 DEF Holds
      <3>3. cbTried[e] = cbRow[e].attempts
        BY <2>2, <3>1, <3>2 DEF SoleHolder, Sole
      <3>4. cbBatch'[d][e].attempts = cbRow[e].attempts
        BY <2>1, <2>3, <1>t
      <3>5. \A o \in Dispatcher \ {d} : ~ Holds(o, e)' /\ ~ InBatch(o, e)' /\ ~ InHand(o, e)'
        BY <2>1, <2>2, <3>2, <1>t DEF Holds, InBatch, InHand
      <3>6. ~ InHand(d, e)' /\ (InBatch(d, e)' => Holds(d, e)')
        BY <2>2 DEF InHand, InBatch, Holds
      <3> QED
        BY <2>1, <2>2, <3>3, <3>4, <3>5, <3>6, <1>t DEF Sole
    <2>4. CASE e \notin B
      <3>1. \A o \in Dispatcher : cbBatch'[o][e] = cbBatch[o][e]
        BY <2>1, <2>2, <2>4, <1>t
      <3>2. cbExcuse'[e] = cbExcuse[e]
        BY <2>1, <2>4
      <3> QED
        BY <2>2, <3>1, <3>2, SoleKept DEF InHand
    <2> QED
      BY <2>3, <2>4
  <1>6. ASSUME NEW d \in Dispatcher, NEW x \in Event, FailUnconfigured(d, x) PROVE Sole(e)'
    <2>1. cbBatch[d][x] \in Copy /\ cbRow[x] # NoCallback
      BY <1>6, <1>t DEF FailUnconfigured, CopiesFit, InBatch
    <2>2. /\ cbRow' = SavedFailed(x, cbBatch[d][x])
          /\ cbBatch' = [cbBatch EXCEPT ![d][x] = NoCallback]
          /\ cbTried' = [cbTried EXCEPT ![x] = @ + 1]
          /\ UNCHANGED <<cbHand, cbExcuse>> /\ cbHand[d] = NoHand /\ InBatch(d, x)
      BY <1>6 DEF FailUnconfigured, InBatch
    <2>3. /\ \A o \in Event \ {x} : cbRow'[o] = cbRow[o]
          /\ cbRow'[x].attempts = cbBatch[d][x].attempts + 1
      BY <2>1, <2>2, SaveInPlace
    <2>4. CASE e = x
      <3>1. Sole(e)
        BY <2>1, <2>2, <2>4 DEF SoleHolder
      <3>2. Holds(d, e)
        BY <2>2, <2>4 DEF Holds, InBatch
      <3>3. \A o \in Dispatcher : ~ Holds(o, e)'
        BY <2>2, <2>4, <3>1, <3>2, <1>t DEF Sole, Holds
      <3>4. cbTried'[e] = cbRow'[e].attempts
        BY <2>2, <2>3, <2>4, <3>1, <1>t DEF Sole
      <3>5. \A o \in Dispatcher : ~ InBatch(o, e)' /\ ~ InHand(o, e)'
        BY <3>3 DEF Holds, InBatch, InHand
      <3> QED
        BY <3>3, <3>4, <3>5 DEF Sole
    <2>5. CASE e # x
      BY <2>2, <2>3, <2>5, <1>t, SoleKept DEF InHand
    <2> QED
      BY <2>4, <2>5
  <1>7. ASSUME NEW d \in Dispatcher, NEW x \in Event, Post(d, x) PROVE Sole(e)'
    <2>1. /\ cbBatch' = [cbBatch EXCEPT ![d][x] = NoCallback]
          /\ cbTried' = [cbTried EXCEPT ![x] = @ + 1]
          /\ UNCHANGED <<cbRow, cbExcuse>> /\ cbHand[d] = NoHand /\ InBatch(d, x)
      BY <1>7 DEF Post, InBatch
    <2>2. /\ cbHand'[d] # NoHand /\ cbHand'[d].event = x /\ cbHand'[d].copy = cbBatch[d][x]
          /\ \A o \in Dispatcher \ {d} : cbHand'[o] = cbHand[o]
      BY <1>7, <1>t DEF Post, NoHand
    <2>3. CASE e = x
      <3>1. Sole(e)
        BY <2>1, <2>3 DEF SoleHolder
      <3>2. Holds(d, e)
        BY <2>1, <2>3 DEF Holds, InBatch
      <3>3. \A o \in Dispatcher \ {d} : ~ Holds(o, e)' /\ ~ InBatch(o, e)' /\ ~ InHand(o, e)'
        BY <2>1, <2>2, <3>1, <3>2, <1>t DEF Sole, Holds, InBatch, InHand
      <3>4. /\ cbTried'[e] = cbRow'[e].attempts + 1
            /\ cbHand'[d].copy.attempts = cbRow'[e].attempts
        BY <2>1, <2>2, <2>3, <3>1, <1>t DEF Sole
      <3>5. ~ InBatch(d, e)' /\ InHand(d, e)' /\ Holds(d, e)'
        BY <2>1, <2>2, <2>3, <1>t DEF InBatch, InHand, Holds
      <3> QED
        BY <3>3, <3>4, <3>5 DEF Sole
    <2>4. CASE e # x
      BY <2>1, <2>2, <2>4, <1>t, SoleKept DEF InHand
    <2> QED
      BY <2>3, <2>4
  <1>8. ASSUME NEW d \in Dispatcher, MarkDelivered(d) \/ MarkFailed(d) PROVE Sole(e)'
    <2> DEFINE x == cbHand[d].event
               c == cbHand[d].copy
    <2>1. x \in Event /\ c \in Copy /\ cbRow[x] # NoCallback
      BY <1>8, HandFits DEF MarkDelivered, MarkFailed
    <2>2. /\ cbRow' \in {SavedDelivered(x, c), SavedFailed(x, c)}
          /\ cbHand' = [cbHand EXCEPT ![d] = NoHand] /\ cbHand[d] # NoHand
          /\ UNCHANGED <<cbBatch, cbTried, cbExcuse>>
      BY <1>8 DEF MarkDelivered, MarkFailed
    <2>3. InHand(d, x)
      BY <2>2 DEF InHand
    <2>4. \A o \in Event \ {x} : ~ InHand(d, o)
      BY DEF InHand
    <2>5. c = cbHand[d].copy
      OBVIOUS
    <2> HIDE DEF x, c
    <2>6. /\ \A o \in Event \ {x} : cbRow'[o] = cbRow[o]
          /\ cbRow'[x].attempts = c.attempts + 1
      BY <2>1, <2>2, SaveInPlace
    <2>7. ~ InHand(d, e)' /\ \A o \in Dispatcher \ {d} : cbHand'[o] = cbHand[o]
      BY <2>2, <1>t DEF InHand
    <2>8. CASE e = x
      <3>1. Sole(e)
        BY <2>1, <2>2, <2>8 DEF SoleHolder
      <3>2. Holds(d, e) /\ ~ InBatch(d, e)
        BY <2>3, <2>8, <3>1 DEF Sole, Holds, InHand
      <3>3. \A o \in Dispatcher : ~ Holds(o, e)' /\ ~ InBatch(o, e)' /\ ~ InHand(o, e)'
        BY <2>2, <2>7, <3>1, <3>2 DEF Sole, Holds, InBatch, InHand
      <3>4. cbTried'[e] = cbRow'[e].attempts
        BY <2>2, <2>3, <2>5, <2>6, <2>8, <3>1 DEF Sole
      <3> QED
        BY <3>3, <3>4 DEF Sole
    <2>9. CASE e # x
      <3>1. \A o \in Dispatcher : InHand(o, e)' <=> InHand(o, e)
        BY <2>4, <2>7, <2>9 DEF InHand
      <3> QED
        BY <2>2, <2>4, <2>6, <2>7, <2>9, <3>1, SoleKept
    <2> QED
      BY <2>8, <2>9
  <1>9. ASSUME NEW d \in Dispatcher, CrashDispatcher(d) PROVE Sole(e)'
    <2>1. /\ cbBatch' = [cbBatch EXCEPT ![d] = [x \in Event |-> NoCallback]]
          /\ cbHand' = [cbHand EXCEPT ![d] = NoHand]
          /\ cbExcuse' = IF cbHand[d] = NoHand THEN cbExcuse
                         ELSE Excused(cbHand[d].event, "crash")
          /\ UNCHANGED <<cbRow, cbTried>>
      BY <1>9 DEF CrashDispatcher
    <2>2. ~ InHand(d, e) /\ cbExcuse[e] \cap {"shared", "crash"} = {}
      BY <2>1, <1>t DEF InHand, Excused
    <2>3. Sole(e)
      BY <2>1, <2>2 DEF SoleHolder
    <2>4. ~ InHand(d, e)' /\ ~ InBatch(d, e)' /\ ~ Holds(d, e)'
      BY <2>1, <1>t DEF InHand, InBatch, Holds
    <2>5. \A o \in Dispatcher \ {d} : cbBatch'[o] = cbBatch[o] /\ cbHand'[o] = cbHand[o]
      BY <2>1, <1>t
    <2>6. \A o \in Dispatcher \ {d} :
            /\ Holds(o, e)' <=> Holds(o, e)
            /\ InBatch(o, e)' <=> InBatch(o, e)
            /\ InHand(o, e)' <=> InHand(o, e)
      BY <2>5 DEF Holds, InBatch, InHand
    <2>7. Holds(d, e) => InBatch(d, e)
      BY <2>2 DEF Holds, InBatch, InHand
    <2>8. (\A o \in Dispatcher : ~ Holds(o, e)') => cbTried'[e] = cbRow'[e].attempts
      BY <2>1, <2>3, <2>6, <2>7 DEF Sole
    <2> QED
      BY <2>1, <2>3, <2>4, <2>5, <2>6, <2>8 DEF Sole
  <1>10. CASE RemoveWebhook
    BY <1>1, <1>10 DEF RemoveWebhook
  <1>11. CASE EraseContact
    <2>1. cbRow[e] # NoCallback /\ cbRow'[e].attempts = cbRow[e].attempts
      BY <1>11, <1>t DEF EraseContact, Anonymised, Callback
    <2>2. cbExcuse[e] \subseteq cbExcuse'[e]
      BY <1>11 DEF EraseContact
    <2> QED
      BY <1>1, <1>11, <2>1, <2>2 DEF EraseContact
  <1>12. CASE UNCHANGED cbVars
    BY <1>1, <1>12 DEF cbVars
  <1> QED
    BY <1>2, <1>3, <1>4, <1>5, <1>6, <1>7, <1>8, <1>9, <1>10, <1>11, <1>12
       DEF CbNext, CbHookStep, CbDispatch

-----------------------------------------------------------------------------
\* Whatever hooks, dispatchers and erasures interleave, the invariant holds.
THEOREM CallbackInvariance == CbSafetySpec => []CbIInv
  <1>1. CbIInv /\ [CbNext]_cbVars => CbIInv'
    BY CbTypeStep, RowsStep, CopiesStep, ErasureStep, EarnedStep, SoleStep DEF CbIInv
  <1> QED
    BY CbInitially, <1>1, PTL DEF CbSafetySpec

\* Every variable of the callback outbox keeps its type.
THEOREM CallbackTypeCorrect == CbSafetySpec => []CbTypeOK
  <1>1. CbIInv => CbTypeOK
    BY DEF CbIInv
  <1> QED
    BY <1>1, CallbackInvariance, PTL

\* Nothing is called delivered that the CMP has not taken, nor given up before
\* its attempts are used up, whatever overlapping dispatchers save.
THEOREM SettledIsEarned == CbSafetySpec => []CbSettledIsEarned
  <1>1. CbIInv => CbSettledIsEarned
    BY DEF CbIInv
  <1> QED
    BY <1>1, CallbackInvariance, PTL

\* attempt_count counts the attempts, but for shared copies and crashes.
THEOREM AttemptsAreCounted == CbSafetySpec => []CbAttemptsCounted
  <1>1. CbIInv => CbAttemptsCounted
    <2> SUFFICES ASSUME CbIInv, NEW e \in Event, cbRow[e] # NoCallback,
                        cbExcuse[e] \cap {"shared", "crash"} = {}
                 PROVE  cbTried[e] = cbRow[e].attempts
                            + (IF \E d \in Dispatcher : InHand(d, e) THEN 1 ELSE 0)
      BY DEF CbAttemptsCounted, InHand
    <2>1. Sole(e)
      BY DEF CbIInv, SoleHolder
    <2>2. cbRow[e].attempts \in Nat /\ cbTried[e] \in Nat
      BY DEF CbIInv, CbTypeOK, Callback
    <2>3. CASE \E d \in Dispatcher : InHand(d, e)
      BY <2>1, <2>2, <2>3 DEF Sole
    <2>4. CASE ~ \E d \in Dispatcher : InHand(d, e)
      <3>1. cbTried[e] = cbRow[e].attempts
        BY <2>1, <2>4 DEF Sole, Holds, InBatch, InHand
      <3> QED
        BY <2>2, <2>4, <3>1
    <2> QED
      BY <2>3, <2>4
  <1> QED
    BY <1>1, CallbackInvariance, PTL

\* After an erasure no stored callback names the address, but for a hook that
\* had read the contact before.
THEOREM ErasureReaches == CbSafetySpec => []CbErasureReaches
  <1>1. CbIInv => CbErasureReaches
    BY DEF CbIInv
  <1> QED
    BY <1>1, CallbackInvariance, PTL

=============================================================================

-------------------- MODULE TransactionalDelivery_proofs --------------------
EXTENDS TransactionalDelivery, FiniteSetTheorems, TLAPS

\* Types are kept: one step per action.
LEMMA TypeStep == TypeOK /\ JobsInHand /\ [Next]_vars => TypeOK'
  <1> SUFFICES ASSUME TypeOK, JobsInHand, [Next]_vars PROVE TypeOK'
    OBVIOUS
  <1> USE DeliveryAssumption DEF TypeOK, Status, Terminal, RequesterPhase, WorkerPhase,
          Owning, Kind, JobsInHand, ProviderEvent, dbVars, taskVars, apiVars, workerVars,
          sesVars
  <1>1. ASSUME NEW q \in Requester, NEW keys \in SUBSET Message, NEW isBulk \in BOOLEAN,
               CheckKeys(q, keys, isBulk)
        PROVE  TypeOK'
    BY <1>1 DEF CheckKeys
  <1>2. ASSUME NEW q \in Requester, CommitRows(q) PROVE TypeOK'
    <2>1. /\ row' \in [Message -> Status]
          /\ lastError' \subseteq Message
      BY <1>2 DEF CommitRows
    <2>2. /\ rpc' \in [Requester -> RequesterPhase]
          /\ want' \in [Requester -> SUBSET Message]
          /\ bulk' \in [Requester -> BOOLEAN]
      <3>1. PICK allowed \in SUBSET want[q] :
              IF allowed = {}
              THEN RequesterDone(q)
              ELSE /\ rpc' = [rpc EXCEPT ![q] = "committed"]
                   /\ want' = [want EXCEPT ![q] = allowed]
                   /\ UNCHANGED bulk
        BY <1>2 DEF CommitRows
      <3>2. allowed \in SUBSET Message /\ {} \in SUBSET Message
        OBVIOUS
      <3>3. CASE allowed = {}
        <4>1. RequesterDone(q)
          BY <3>1, <3>3
        <4> QED
          BY <4>1 DEF RequesterDone
      <3>4. CASE allowed # {}
        BY <3>1, <3>2, <3>4
      <3> QED
        BY <3>3, <3>4
    <2> QED
      BY <1>2, <2>1, <2>2 DEF CommitRows
  <1>3. ASSUME NEW q \in Requester, RollBack(q) PROVE TypeOK'
    BY <1>3 DEF RollBack, RequesterDone
  <1>4. ASSUME NEW q \in Requester, EnqueueOnCommit(q) PROVE TypeOK'
    BY <1>4 DEF EnqueueOnCommit, RequesterDone
  <1>5. ASSUME NEW q \in Requester, LoseEnqueue(q) PROVE TypeOK'
    BY <1>5 DEF LoseEnqueue, RequesterDone
  <1>6. ASSUME NEW w \in Worker, NEW batch \in batches, TakeBatch(w, batch) PROVE TypeOK'
    BY <1>6 DEF TakeBatch
  <1>7. ASSUME NEW w \in Worker, NEW m \in Message, FanOut(w, m) PROVE TypeOK'
    <2>1. /\ wpc' \in [Worker -> WorkerPhase]
          /\ job' \in [Worker -> Message \cup {NoMessage}]
          /\ copy' \in [Worker -> 0..MaxCopies]
          /\ todo' \in [Worker -> SUBSET Message]
      <3>1. todo[w] \ {m} \in SUBSET Message /\ {} \in SUBSET Message
        OBVIOUS
      <3>2. CASE todo[w] = {m}
        BY <1>7, <3>1, <3>2 DEF FanOut, WorkerDone
      <3>3. CASE todo[w] # {m}
        BY <1>7, <3>1, <3>3 DEF FanOut
      <3> QED
        BY <3>2, <3>3
    <2>2. tasks' \in [Message -> Nat]
      BY <1>7 DEF FanOut
    <2> QED
      BY <1>7, <2>1, <2>2 DEF FanOut
  <1>8. ASSUME NEW w \in Worker, NEW m \in Message, TakeTask(w, m) PROVE TypeOK'
    BY <1>8 DEF TakeTask
  <1>9. ASSUME NEW w \in Worker, ClaimTerminal(w) PROVE TypeOK'
    BY <1>9 DEF ClaimTerminal, WorkerDone
  <1>10. ASSUME NEW w \in Worker, ClaimSending(w) PROVE TypeOK'
    BY <1>10 DEF ClaimSending, WorkerTo
  <1>11. ASSUME NEW w \in Worker, ClaimQueued(w) PROVE TypeOK'
    BY <1>11 DEF ClaimQueued, MayClaim, WorkerTo
  <1>12. ASSUME NEW w \in Worker, SesAccepts(w) PROVE TypeOK'
    BY <1>12 DEF SesAccepts
  <1>13. ASSUME NEW w \in Worker, SesAnswerLost(w) PROVE TypeOK'
    BY <1>13 DEF SesAnswerLost, WorkerTo
  <1>14. ASSUME NEW w \in Worker, SesRefuses(w) PROVE TypeOK'
    BY <1>14 DEF SesRefuses, WorkerTo
  <1>15. ASSUME NEW w \in Worker, MarkSent(w) PROVE TypeOK'
    BY <1>15 DEF MarkSent, WorkerDone
  <1>16. ASSUME NEW w \in Worker, MarkFailed(w) PROVE TypeOK'
    BY <1>16 DEF MarkFailed, WorkerDone
  <1>17. ASSUME NEW w \in Worker, MarkRetryable(w) PROVE TypeOK'
    BY <1>17 DEF MarkRetryable, WorkerTo, RetryStatus, ErrorAfterRetry
  <1>18. ASSUME NEW w \in Worker, RecordRetryableError(w) PROVE TypeOK'
    BY <1>18 DEF RecordRetryableError, WorkerDone
  <1>19. ASSUME NEW w \in Worker, WorkerDies(w) PROVE TypeOK'
    BY <1>19 DEF WorkerDies, WorkerDone
  <1>20. ASSUME ReenqueueScan PROVE TypeOK'
    BY <1>20 DEF ReenqueueScan, Recoverable
  <1>21. ASSUME NEW m \in Message, ReenqueueOne(m) PROVE TypeOK'
    BY <1>21 DEF ReenqueueOne
  <1>22. ASSUME NEW m \in Message, ReenqueueFails(m) PROVE TypeOK'
    BY <1>22 DEF ReenqueueFails
  <1>23. ASSUME NEW e \in ProviderEvent, Webhook(e) PROVE TypeOK'
    BY <1>23 DEF Webhook, Unseen, StatusOf, ProviderEvent
  <1>24. ASSUME NEW c \in Contact, UpdateSuppression(c) PROVE TypeOK'
    BY <1>24 DEF UpdateSuppression
  <1>25. CASE UNCHANGED vars
    BY <1>25 DEF vars
  <1> HIDE DEF TypeOK, JobsInHand
  <1> QED
    BY <1>1, <1>2, <1>3, <1>4, <1>5, <1>6, <1>7, <1>8, <1>9, <1>10, <1>11, <1>12, <1>13,
       <1>14, <1>15, <1>16, <1>17, <1>18, <1>19, <1>20, <1>21, <1>22, <1>23, <1>24, <1>25
       DEF Next, Request, FinishRequest, Work, Take, Answer, Reenqueue

\* The phase of a worker keeps saying what it holds.
LEMMA JobsStep == TypeOK /\ JobsInHand /\ [Next]_vars => JobsInHand'
  <1> SUFFICES ASSUME TypeOK, JobsInHand, [Next]_vars PROVE JobsInHand'
    OBVIOUS
  <1> USE DeliveryAssumption DEF TypeOK, Status, Terminal, RequesterPhase, WorkerPhase,
          Owning, Kind, JobsInHand, dbVars, taskVars, apiVars, workerVars, sesVars
  <1>1. ASSUME NEW q \in Requester, NEW keys \in SUBSET Message, NEW isBulk \in BOOLEAN,
               CheckKeys(q, keys, isBulk)
        PROVE  JobsInHand'
    BY <1>1 DEF CheckKeys
  <1>2. ASSUME NEW q \in Requester, CommitRows(q) PROVE JobsInHand'
    BY <1>2 DEF CommitRows, Decision, Insertable, RequesterDone
  <1>3. ASSUME NEW q \in Requester, RollBack(q) PROVE JobsInHand'
    BY <1>3 DEF RollBack, RequesterDone
  <1>4. ASSUME NEW q \in Requester, EnqueueOnCommit(q) PROVE JobsInHand'
    BY <1>4 DEF EnqueueOnCommit, RequesterDone
  <1>5. ASSUME NEW q \in Requester, LoseEnqueue(q) PROVE JobsInHand'
    BY <1>5 DEF LoseEnqueue, RequesterDone
  <1>6. ASSUME NEW w \in Worker, NEW batch \in batches, TakeBatch(w, batch)
        PROVE  JobsInHand'
    BY <1>6 DEF TakeBatch
  <1>7. ASSUME NEW w \in Worker, NEW m \in Message, FanOut(w, m) PROVE JobsInHand'
    BY <1>7 DEF FanOut, WorkerDone
  <1>8. ASSUME NEW w \in Worker, NEW m \in Message, TakeTask(w, m) PROVE JobsInHand'
    BY <1>8 DEF TakeTask
  <1>9. ASSUME NEW w \in Worker, ClaimTerminal(w) PROVE JobsInHand'
    BY <1>9 DEF ClaimTerminal, WorkerDone
  <1>10. ASSUME NEW w \in Worker, ClaimSending(w) PROVE JobsInHand'
    BY <1>10 DEF ClaimSending, WorkerTo
  <1>11. ASSUME NEW w \in Worker, ClaimQueued(w) PROVE JobsInHand'
    BY <1>11 DEF ClaimQueued, MayClaim, WorkerTo
  <1>12. ASSUME NEW w \in Worker, SesAccepts(w) PROVE JobsInHand'
    BY <1>12 DEF SesAccepts
  <1>13. ASSUME NEW w \in Worker, SesAnswerLost(w) PROVE JobsInHand'
    BY <1>13 DEF SesAnswerLost, WorkerTo
  <1>14. ASSUME NEW w \in Worker, SesRefuses(w) PROVE JobsInHand'
    BY <1>14 DEF SesRefuses, WorkerTo
  <1>15. ASSUME NEW w \in Worker, MarkSent(w) PROVE JobsInHand'
    BY <1>15 DEF MarkSent, WorkerDone
  <1>16. ASSUME NEW w \in Worker, MarkFailed(w) PROVE JobsInHand'
    BY <1>16 DEF MarkFailed, WorkerDone
  <1>17. ASSUME NEW w \in Worker, MarkRetryable(w) PROVE JobsInHand'
    BY <1>17 DEF MarkRetryable, WorkerTo, RetryStatus, ErrorAfterRetry
  <1>18. ASSUME NEW w \in Worker, RecordRetryableError(w) PROVE JobsInHand'
    BY <1>18 DEF RecordRetryableError, WorkerDone
  <1>19. ASSUME NEW w \in Worker, WorkerDies(w) PROVE JobsInHand'
    BY <1>19 DEF WorkerDies, WorkerDone
  <1>20. ASSUME ReenqueueScan PROVE JobsInHand'
    BY <1>20 DEF ReenqueueScan, Recoverable
  <1>21. ASSUME NEW m \in Message, ReenqueueOne(m) PROVE JobsInHand'
    BY <1>21 DEF ReenqueueOne
  <1>22. ASSUME NEW m \in Message, ReenqueueFails(m) PROVE JobsInHand'
    BY <1>22 DEF ReenqueueFails
  <1>23. ASSUME NEW e \in ProviderEvent, Webhook(e) PROVE JobsInHand'
    BY <1>23 DEF Webhook, Unseen, StatusOf, ProviderEvent
  <1>24. ASSUME NEW c \in Contact, UpdateSuppression(c) PROVE JobsInHand'
    BY <1>24 DEF UpdateSuppression
  <1>25. CASE UNCHANGED vars
    BY <1>25 DEF vars
  <1> HIDE DEF TypeOK, JobsInHand
  <1> QED
    BY <1>1, <1>2, <1>3, <1>4, <1>5, <1>6, <1>7, <1>8, <1>9, <1>10, <1>11, <1>12, <1>13,
       <1>14, <1>15, <1>16, <1>17, <1>18, <1>19, <1>20, <1>21, <1>22, <1>23, <1>24, <1>25
       DEF Next, Request, FinishRequest, Work, Take, Answer, Reenqueue

\* The claim stays exclusive: only ClaimQueued starts a span of ownership, and
\* it finds the row "queued", which no owner of it allows.
LEMMA ClaimStep == IInv /\ [Next]_vars => OneSender'
  <1> SUFFICES ASSUME IInv, [Next]_vars PROVE OneSender'
    OBVIOUS
  <1> USE DeliveryAssumption DEF TypeOK, Status, Terminal, RequesterPhase, WorkerPhase,
          Owning, Kind, JobsInHand, IInv, OneSender, Holds, StoredIdIsLastCopy,
          StoredIdIsSettled, dbVars, taskVars, apiVars, workerVars, sesVars
  <1>1. ASSUME NEW q \in Requester, NEW keys \in SUBSET Message, NEW isBulk \in BOOLEAN,
               CheckKeys(q, keys, isBulk)
        PROVE  OneSender'
    BY <1>1 DEF CheckKeys
  <1>2. ASSUME NEW q \in Requester, CommitRows(q) PROVE OneSender'
    BY <1>2 DEF CommitRows, Decision, Insertable, RequesterDone
  <1>3. ASSUME NEW q \in Requester, RollBack(q) PROVE OneSender'
    BY <1>3 DEF RollBack, RequesterDone
  <1>4. ASSUME NEW q \in Requester, EnqueueOnCommit(q) PROVE OneSender'
    BY <1>4 DEF EnqueueOnCommit, RequesterDone
  <1>5. ASSUME NEW q \in Requester, LoseEnqueue(q) PROVE OneSender'
    BY <1>5 DEF LoseEnqueue, RequesterDone
  <1>6. ASSUME NEW w \in Worker, NEW batch \in batches, TakeBatch(w, batch) PROVE OneSender'
    BY <1>6 DEF TakeBatch
  <1>7. ASSUME NEW w \in Worker, NEW m \in Message, FanOut(w, m) PROVE OneSender'
    BY <1>7 DEF FanOut, WorkerDone
  <1>8. ASSUME NEW w \in Worker, NEW m \in Message, TakeTask(w, m) PROVE OneSender'
    BY <1>8 DEF TakeTask
  <1>9. ASSUME NEW w \in Worker, ClaimTerminal(w) PROVE OneSender'
    BY <1>9 DEF ClaimTerminal, WorkerDone
  <1>10. ASSUME NEW w \in Worker, ClaimSending(w) PROVE OneSender'
    BY <1>10 DEF ClaimSending, WorkerTo
  <1>11. ASSUME NEW w \in Worker, ClaimQueued(w) PROVE OneSender'
    BY <1>11 DEF ClaimQueued, MayClaim, WorkerTo
  <1>12. ASSUME NEW w \in Worker, SesAccepts(w) PROVE OneSender'
    BY <1>12 DEF SesAccepts
  <1>13. ASSUME NEW w \in Worker, SesAnswerLost(w) PROVE OneSender'
    BY <1>13 DEF SesAnswerLost, WorkerTo
  <1>14. ASSUME NEW w \in Worker, SesRefuses(w) PROVE OneSender'
    BY <1>14 DEF SesRefuses, WorkerTo
  <1>15. ASSUME NEW w \in Worker, MarkSent(w) PROVE OneSender'
    BY <1>15 DEF MarkSent, WorkerDone
  <1>16. ASSUME NEW w \in Worker, MarkFailed(w) PROVE OneSender'
    BY <1>16 DEF MarkFailed, WorkerDone
  <1>17. ASSUME NEW w \in Worker, MarkRetryable(w) PROVE OneSender'
    BY <1>17 DEF MarkRetryable, WorkerTo, RetryStatus, ErrorAfterRetry
  <1>18. ASSUME NEW w \in Worker, RecordRetryableError(w) PROVE OneSender'
    BY <1>18 DEF RecordRetryableError, WorkerDone
  <1>19. ASSUME NEW w \in Worker, WorkerDies(w) PROVE OneSender'
    BY <1>19 DEF WorkerDies, WorkerDone
  <1>20. ASSUME ReenqueueScan PROVE OneSender'
    BY <1>20 DEF ReenqueueScan, Recoverable
  <1>21. ASSUME NEW m \in Message, ReenqueueOne(m) PROVE OneSender'
    BY <1>21 DEF ReenqueueOne
  <1>22. ASSUME NEW m \in Message, ReenqueueFails(m) PROVE OneSender'
    BY <1>22 DEF ReenqueueFails
  <1>23. ASSUME NEW e \in ProviderEvent, Webhook(e) PROVE OneSender'
    BY <1>23 DEF Webhook, Unseen, StatusOf, ProviderEvent
  <1>24. ASSUME NEW c \in Contact, UpdateSuppression(c) PROVE OneSender'
    BY <1>24 DEF UpdateSuppression
  <1>25. CASE UNCHANGED vars
    BY <1>25 DEF vars
  <1> HIDE DEF IInv, OneSender
  <1> QED
    BY <1>1, <1>2, <1>3, <1>4, <1>5, <1>6, <1>7, <1>8, <1>9, <1>10, <1>11, <1>12, <1>13,
       <1>14, <1>15, <1>16, <1>17, <1>18, <1>19, <1>20, <1>21, <1>22, <1>23, <1>24, <1>25
       DEF Next, Request, FinishRequest, Work, Take, Answer, Reenqueue

\* Only the owner of a row learns of its MessageId, and only in SesAccepts.
LEMMA AcksStep == IInv /\ [Next]_vars => AcksInHand'
  <1> SUFFICES ASSUME IInv, [Next]_vars PROVE AcksInHand'
    OBVIOUS
  <1> USE DeliveryAssumption DEF TypeOK, Status, Terminal, RequesterPhase, WorkerPhase,
          Owning, Kind, JobsInHand, IInv, OneSender, Holds, AcksInHand, CopiesExplained,
          dbVars, taskVars, apiVars, workerVars, sesVars
  <1>1. ASSUME NEW q \in Requester, NEW keys \in SUBSET Message, NEW isBulk \in BOOLEAN,
               CheckKeys(q, keys, isBulk)
        PROVE  AcksInHand'
    BY <1>1 DEF CheckKeys
  <1>2. ASSUME NEW q \in Requester, CommitRows(q) PROVE AcksInHand'
    BY <1>2 DEF CommitRows, Decision, Insertable, RequesterDone
  <1>3. ASSUME NEW q \in Requester, RollBack(q) PROVE AcksInHand'
    BY <1>3 DEF RollBack, RequesterDone
  <1>4. ASSUME NEW q \in Requester, EnqueueOnCommit(q) PROVE AcksInHand'
    BY <1>4 DEF EnqueueOnCommit, RequesterDone
  <1>5. ASSUME NEW q \in Requester, LoseEnqueue(q) PROVE AcksInHand'
    BY <1>5 DEF LoseEnqueue, RequesterDone
  <1>6. ASSUME NEW w \in Worker, NEW batch \in batches, TakeBatch(w, batch)
        PROVE  AcksInHand'
    BY <1>6 DEF TakeBatch
  <1>7. ASSUME NEW w \in Worker, NEW m \in Message, FanOut(w, m) PROVE AcksInHand'
    BY <1>7 DEF FanOut, WorkerDone
  <1>8. ASSUME NEW w \in Worker, NEW m \in Message, TakeTask(w, m) PROVE AcksInHand'
    BY <1>8 DEF TakeTask
  <1>9. ASSUME NEW w \in Worker, ClaimTerminal(w) PROVE AcksInHand'
    BY <1>9 DEF ClaimTerminal, WorkerDone
  <1>10. ASSUME NEW w \in Worker, ClaimSending(w) PROVE AcksInHand'
    BY <1>10 DEF ClaimSending, WorkerTo
  <1>11. ASSUME NEW w \in Worker, ClaimQueued(w) PROVE AcksInHand'
    BY <1>11 DEF ClaimQueued, MayClaim, WorkerTo
  <1>12. ASSUME NEW w \in Worker, SesAccepts(w) PROVE AcksInHand'
    BY <1>12 DEF SesAccepts
  <1>13. ASSUME NEW w \in Worker, SesAnswerLost(w) PROVE AcksInHand'
    BY <1>13 DEF SesAnswerLost, WorkerTo
  <1>14. ASSUME NEW w \in Worker, SesRefuses(w) PROVE AcksInHand'
    BY <1>14 DEF SesRefuses, WorkerTo
  <1>15. ASSUME NEW w \in Worker, MarkSent(w) PROVE AcksInHand'
    BY <1>15 DEF MarkSent, WorkerDone
  <1>16. ASSUME NEW w \in Worker, MarkFailed(w) PROVE AcksInHand'
    BY <1>16 DEF MarkFailed, WorkerDone
  <1>17. ASSUME NEW w \in Worker, MarkRetryable(w) PROVE AcksInHand'
    BY <1>17 DEF MarkRetryable, WorkerTo, RetryStatus, ErrorAfterRetry
  <1>18. ASSUME NEW w \in Worker, RecordRetryableError(w) PROVE AcksInHand'
    BY <1>18 DEF RecordRetryableError, WorkerDone
  <1>19. ASSUME NEW w \in Worker, WorkerDies(w) PROVE AcksInHand'
    BY <1>19 DEF WorkerDies, WorkerDone
  <1>20. ASSUME ReenqueueScan PROVE AcksInHand'
    BY <1>20 DEF ReenqueueScan, Recoverable
  <1>21. ASSUME NEW m \in Message, ReenqueueOne(m) PROVE AcksInHand'
    BY <1>21 DEF ReenqueueOne
  <1>22. ASSUME NEW m \in Message, ReenqueueFails(m) PROVE AcksInHand'
    BY <1>22 DEF ReenqueueFails
  <1>23. ASSUME NEW e \in ProviderEvent, Webhook(e) PROVE AcksInHand'
    BY <1>23 DEF Webhook, Unseen, StatusOf, ProviderEvent
  <1>24. ASSUME NEW c \in Contact, UpdateSuppression(c) PROVE AcksInHand'
    BY <1>24 DEF UpdateSuppression
  <1>25. CASE UNCHANGED vars
    BY <1>25 DEF vars
  <1> HIDE DEF IInv, AcksInHand
  <1> QED
    BY <1>1, <1>2, <1>3, <1>4, <1>5, <1>6, <1>7, <1>8, <1>9, <1>10, <1>11, <1>12, <1>13,
       <1>14, <1>15, <1>16, <1>17, <1>18, <1>19, <1>20, <1>21, <1>22, <1>23, <1>24, <1>25
       DEF Next, Request, FinishRequest, Work, Take, Answer, Reenqueue

\* Every new copy is acknowledged or adds a lost answer; an acknowledged row
\* is owned or settled, so MarkRetryable never reaches it.
LEMMA CopiesStep == IInv /\ [Next]_vars => CopiesExplained'
  <1> SUFFICES ASSUME IInv, [Next]_vars PROVE CopiesExplained'
    OBVIOUS
  <1> USE DeliveryAssumption DEF TypeOK, Status, Terminal, RequesterPhase, WorkerPhase,
          Owning, Kind, JobsInHand, IInv, OneSender, AcksInHand, CopiesExplained,
          StoredIdIsSettled, dbVars, taskVars, apiVars, workerVars, sesVars
  <1>1. ASSUME NEW q \in Requester, NEW keys \in SUBSET Message, NEW isBulk \in BOOLEAN,
               CheckKeys(q, keys, isBulk)
        PROVE  CopiesExplained'
    BY <1>1 DEF CheckKeys
  <1>2. ASSUME NEW q \in Requester, CommitRows(q) PROVE CopiesExplained'
    BY <1>2 DEF CommitRows, Decision, Insertable, RequesterDone
  <1>3. ASSUME NEW q \in Requester, RollBack(q) PROVE CopiesExplained'
    BY <1>3 DEF RollBack, RequesterDone
  <1>4. ASSUME NEW q \in Requester, EnqueueOnCommit(q) PROVE CopiesExplained'
    BY <1>4 DEF EnqueueOnCommit, RequesterDone
  <1>5. ASSUME NEW q \in Requester, LoseEnqueue(q) PROVE CopiesExplained'
    BY <1>5 DEF LoseEnqueue, RequesterDone
  <1>6. ASSUME NEW w \in Worker, NEW batch \in batches, TakeBatch(w, batch)
        PROVE  CopiesExplained'
    BY <1>6 DEF TakeBatch
  <1>7. ASSUME NEW w \in Worker, NEW m \in Message, FanOut(w, m) PROVE CopiesExplained'
    BY <1>7 DEF FanOut, WorkerDone
  <1>8. ASSUME NEW w \in Worker, NEW m \in Message, TakeTask(w, m) PROVE CopiesExplained'
    BY <1>8 DEF TakeTask
  <1>9. ASSUME NEW w \in Worker, ClaimTerminal(w) PROVE CopiesExplained'
    BY <1>9 DEF ClaimTerminal, WorkerDone
  <1>10. ASSUME NEW w \in Worker, ClaimSending(w) PROVE CopiesExplained'
    BY <1>10 DEF ClaimSending, WorkerTo
  <1>11. ASSUME NEW w \in Worker, ClaimQueued(w) PROVE CopiesExplained'
    BY <1>11 DEF ClaimQueued, MayClaim, WorkerTo
  <1>12. ASSUME NEW w \in Worker, SesAccepts(w) PROVE CopiesExplained'
    BY <1>12 DEF SesAccepts
  <1>13. ASSUME NEW w \in Worker, SesAnswerLost(w) PROVE CopiesExplained'
    BY <1>13 DEF SesAnswerLost, WorkerTo
  <1>14. ASSUME NEW w \in Worker, SesRefuses(w) PROVE CopiesExplained'
    BY <1>14 DEF SesRefuses, WorkerTo
  <1>15. ASSUME NEW w \in Worker, MarkSent(w) PROVE CopiesExplained'
    BY <1>15 DEF MarkSent, WorkerDone
  <1>16. ASSUME NEW w \in Worker, MarkFailed(w) PROVE CopiesExplained'
    BY <1>16 DEF MarkFailed, WorkerDone
  <1>17. ASSUME NEW w \in Worker, MarkRetryable(w) PROVE CopiesExplained'
    BY <1>17 DEF MarkRetryable, WorkerTo, RetryStatus, ErrorAfterRetry
  <1>18. ASSUME NEW w \in Worker, RecordRetryableError(w) PROVE CopiesExplained'
    BY <1>18 DEF RecordRetryableError, WorkerDone
  <1>19. ASSUME NEW w \in Worker, WorkerDies(w) PROVE CopiesExplained'
    BY <1>19 DEF WorkerDies, WorkerDone
  <1>20. ASSUME ReenqueueScan PROVE CopiesExplained'
    BY <1>20 DEF ReenqueueScan, Recoverable
  <1>21. ASSUME NEW m \in Message, ReenqueueOne(m) PROVE CopiesExplained'
    BY <1>21 DEF ReenqueueOne
  <1>22. ASSUME NEW m \in Message, ReenqueueFails(m) PROVE CopiesExplained'
    BY <1>22 DEF ReenqueueFails
  <1>23. ASSUME NEW e \in ProviderEvent, Webhook(e) PROVE CopiesExplained'
    BY <1>23 DEF Webhook, Unseen, StatusOf, ProviderEvent
  <1>24. ASSUME NEW c \in Contact, UpdateSuppression(c) PROVE CopiesExplained'
    BY <1>24 DEF UpdateSuppression
  <1>25. CASE UNCHANGED vars
    BY <1>25 DEF vars
  <1> HIDE DEF IInv, CopiesExplained
  <1> QED
    BY <1>1, <1>2, <1>3, <1>4, <1>5, <1>6, <1>7, <1>8, <1>9, <1>10, <1>11, <1>12, <1>13,
       <1>14, <1>15, <1>16, <1>17, <1>18, <1>19, <1>20, <1>21, <1>22, <1>23, <1>24, <1>25
       DEF Next, Request, FinishRequest, Work, Take, Answer, Reenqueue

\* MarkSent stores the id of the copy its worker holds, the last one sent.
LEMMA StoredIdStep == IInv /\ [Next]_vars => (StoredIdIsLastCopy' /\ StoredIdIsSettled')
  <1> SUFFICES ASSUME IInv, [Next]_vars PROVE (StoredIdIsLastCopy' /\ StoredIdIsSettled')
    OBVIOUS
  <1> USE DeliveryAssumption DEF TypeOK, Status, Terminal, RequesterPhase, WorkerPhase,
          Owning, Kind, JobsInHand, IInv, OneSender, AcksInHand, CopiesExplained,
          StoredIdIsLastCopy, StoredIdIsSettled, dbVars, taskVars, apiVars, workerVars,
          sesVars
  <1>1. ASSUME NEW q \in Requester, NEW keys \in SUBSET Message, NEW isBulk \in BOOLEAN,
               CheckKeys(q, keys, isBulk)
        PROVE  (StoredIdIsLastCopy' /\ StoredIdIsSettled')
    BY <1>1 DEF CheckKeys
  <1>2. ASSUME NEW q \in Requester, CommitRows(q)
        PROVE  (StoredIdIsLastCopy' /\ StoredIdIsSettled')
    BY <1>2 DEF CommitRows, Decision, Insertable, RequesterDone
  <1>3. ASSUME NEW q \in Requester, RollBack(q)
        PROVE  (StoredIdIsLastCopy' /\ StoredIdIsSettled')
    BY <1>3 DEF RollBack, RequesterDone
  <1>4. ASSUME NEW q \in Requester, EnqueueOnCommit(q)
        PROVE  (StoredIdIsLastCopy' /\ StoredIdIsSettled')
    BY <1>4 DEF EnqueueOnCommit, RequesterDone
  <1>5. ASSUME NEW q \in Requester, LoseEnqueue(q)
        PROVE  (StoredIdIsLastCopy' /\ StoredIdIsSettled')
    BY <1>5 DEF LoseEnqueue, RequesterDone
  <1>6. ASSUME NEW w \in Worker, NEW batch \in batches, TakeBatch(w, batch)
        PROVE  (StoredIdIsLastCopy' /\ StoredIdIsSettled')
    BY <1>6 DEF TakeBatch
  <1>7. ASSUME NEW w \in Worker, NEW m \in Message, FanOut(w, m)
        PROVE  (StoredIdIsLastCopy' /\ StoredIdIsSettled')
    BY <1>7 DEF FanOut, WorkerDone
  <1>8. ASSUME NEW w \in Worker, NEW m \in Message, TakeTask(w, m)
        PROVE  (StoredIdIsLastCopy' /\ StoredIdIsSettled')
    BY <1>8 DEF TakeTask
  <1>9. ASSUME NEW w \in Worker, ClaimTerminal(w)
        PROVE  (StoredIdIsLastCopy' /\ StoredIdIsSettled')
    BY <1>9 DEF ClaimTerminal, WorkerDone
  <1>10. ASSUME NEW w \in Worker, ClaimSending(w)
         PROVE  (StoredIdIsLastCopy' /\ StoredIdIsSettled')
    BY <1>10 DEF ClaimSending, WorkerTo
  <1>11. ASSUME NEW w \in Worker, ClaimQueued(w)
         PROVE  (StoredIdIsLastCopy' /\ StoredIdIsSettled')
    BY <1>11 DEF ClaimQueued, MayClaim, WorkerTo
  <1>12. ASSUME NEW w \in Worker, SesAccepts(w)
         PROVE  (StoredIdIsLastCopy' /\ StoredIdIsSettled')
    BY <1>12 DEF SesAccepts
  <1>13. ASSUME NEW w \in Worker, SesAnswerLost(w)
         PROVE  (StoredIdIsLastCopy' /\ StoredIdIsSettled')
    BY <1>13 DEF SesAnswerLost, WorkerTo
  <1>14. ASSUME NEW w \in Worker, SesRefuses(w)
         PROVE  (StoredIdIsLastCopy' /\ StoredIdIsSettled')
    BY <1>14 DEF SesRefuses, WorkerTo
  <1>15. ASSUME NEW w \in Worker, MarkSent(w)
         PROVE  (StoredIdIsLastCopy' /\ StoredIdIsSettled')
    BY <1>15 DEF MarkSent, WorkerDone
  <1>16. ASSUME NEW w \in Worker, MarkFailed(w)
         PROVE  (StoredIdIsLastCopy' /\ StoredIdIsSettled')
    BY <1>16 DEF MarkFailed, WorkerDone
  <1>17. ASSUME NEW w \in Worker, MarkRetryable(w)
         PROVE  (StoredIdIsLastCopy' /\ StoredIdIsSettled')
    BY <1>17 DEF MarkRetryable, WorkerTo, RetryStatus, ErrorAfterRetry
  <1>18. ASSUME NEW w \in Worker, RecordRetryableError(w)
         PROVE  (StoredIdIsLastCopy' /\ StoredIdIsSettled')
    BY <1>18 DEF RecordRetryableError, WorkerDone
  <1>19. ASSUME NEW w \in Worker, WorkerDies(w)
         PROVE  (StoredIdIsLastCopy' /\ StoredIdIsSettled')
    BY <1>19 DEF WorkerDies, WorkerDone
  <1>20. ASSUME ReenqueueScan PROVE (StoredIdIsLastCopy' /\ StoredIdIsSettled')
    BY <1>20 DEF ReenqueueScan, Recoverable
  <1>21. ASSUME NEW m \in Message, ReenqueueOne(m)
         PROVE  (StoredIdIsLastCopy' /\ StoredIdIsSettled')
    BY <1>21 DEF ReenqueueOne
  <1>22. ASSUME NEW m \in Message, ReenqueueFails(m)
         PROVE  (StoredIdIsLastCopy' /\ StoredIdIsSettled')
    BY <1>22 DEF ReenqueueFails
  <1>23. ASSUME NEW e \in ProviderEvent, Webhook(e)
         PROVE  (StoredIdIsLastCopy' /\ StoredIdIsSettled')
    BY <1>23 DEF Webhook, Unseen, StatusOf, ProviderEvent
  <1>24. ASSUME NEW c \in Contact, UpdateSuppression(c)
         PROVE  (StoredIdIsLastCopy' /\ StoredIdIsSettled')
    BY <1>24 DEF UpdateSuppression
  <1>25. CASE UNCHANGED vars
    BY <1>25 DEF vars
  <1> HIDE DEF IInv, StoredIdIsLastCopy, StoredIdIsSettled
  <1> QED
    BY <1>1, <1>2, <1>3, <1>4, <1>5, <1>6, <1>7, <1>8, <1>9, <1>10, <1>11, <1>12, <1>13,
       <1>14, <1>15, <1>16, <1>17, <1>18, <1>19, <1>20, <1>21, <1>22, <1>23, <1>24, <1>25
       DEF Next, Request, FinishRequest, Work, Take, Answer, Reenqueue

\* Each hand-over (commit, enqueue, fan-out, pick-up, retry) passes a queued row
\* on, writes its last_error, or counts it as dropped.
LEMMA SilentLossStep == IInv /\ [Next]_vars => NoSilentLoss'
  <1> SUFFICES ASSUME IInv, [Next]_vars PROVE NoSilentLoss'
    OBVIOUS
  <1> USE DeliveryAssumption DEF TypeOK, Status, Terminal, RequesterPhase, WorkerPhase,
          Owning, Kind, JobsInHand, IInv, OneSender, NoSilentLoss, Pursued, dbVars,
          taskVars, apiVars, workerVars, sesVars
  <1>1. ASSUME NEW q \in Requester, NEW keys \in SUBSET Message, NEW isBulk \in BOOLEAN,
               CheckKeys(q, keys, isBulk)
        PROVE  NoSilentLoss'
    BY <1>1 DEF CheckKeys
  <1>2. ASSUME NEW q \in Requester, CommitRows(q) PROVE NoSilentLoss'
    <2>1. PICK allowed \in SUBSET want[q] :
            /\ row' = [m \in Message |->
                 IF m \in allowed THEN "queued"
                 ELSE IF m \in want[q] THEN "skipped" ELSE row[m]]
            /\ lastError' = lastError \cup (want[q] \ allowed)
            /\ allowed # {} => rpc' = [rpc EXCEPT ![q] = "committed"]
                               /\ want' = [want EXCEPT ![q] = allowed]
      BY <1>2 DEF CommitRows
    <2>2. \A p \in Requester : p # q => rpc'[p] = rpc[p] /\ want'[p] = want[p]
      BY <1>2 DEF CommitRows, RequesterDone
    <2>3. rpc[q] = "checked" /\ UNCHANGED <<taskVars, workerVars, dropped>>
      BY <1>2 DEF CommitRows
    <2>4. ASSUME NEW m \in Message, row'[m] = "queued"
          PROVE  Pursued(m)' \/ m \in lastError' \/ m \in dropped'
      <3>1. CASE m \in allowed
        BY <2>1, <3>1
      <3>2. CASE m \notin allowed
        BY <2>1, <2>2, <2>3, <2>4, <3>2
      <3> QED
        BY <3>1, <3>2
    <2> QED
      BY <2>4
  <1>3. ASSUME NEW q \in Requester, RollBack(q) PROVE NoSilentLoss'
    BY <1>3 DEF RollBack, RequesterDone
  <1>4. ASSUME NEW q \in Requester, EnqueueOnCommit(q) PROVE NoSilentLoss'
    BY <1>4 DEF EnqueueOnCommit, RequesterDone
  <1>5. ASSUME NEW q \in Requester, LoseEnqueue(q) PROVE NoSilentLoss'
    BY <1>5 DEF LoseEnqueue, RequesterDone
  <1>6. ASSUME NEW w \in Worker, NEW batch \in batches, TakeBatch(w, batch)
        PROVE  NoSilentLoss'
    BY <1>6 DEF TakeBatch
  <1>7. ASSUME NEW w \in Worker, NEW m \in Message, FanOut(w, m) PROVE NoSilentLoss'
    BY <1>7 DEF FanOut, WorkerDone
  <1>8. ASSUME NEW w \in Worker, NEW m \in Message, TakeTask(w, m) PROVE NoSilentLoss'
    BY <1>8 DEF TakeTask
  <1>9. ASSUME NEW w \in Worker, ClaimTerminal(w) PROVE NoSilentLoss'
    BY <1>9 DEF ClaimTerminal, WorkerDone
  <1>10. ASSUME NEW w \in Worker, ClaimSending(w) PROVE NoSilentLoss'
    BY <1>10 DEF ClaimSending, WorkerTo
  <1>11. ASSUME NEW w \in Worker, ClaimQueued(w) PROVE NoSilentLoss'
    BY <1>11 DEF ClaimQueued, MayClaim, WorkerTo
  <1>12. ASSUME NEW w \in Worker, SesAccepts(w) PROVE NoSilentLoss'
    BY <1>12 DEF SesAccepts
  <1>13. ASSUME NEW w \in Worker, SesAnswerLost(w) PROVE NoSilentLoss'
    BY <1>13 DEF SesAnswerLost, WorkerTo
  <1>14. ASSUME NEW w \in Worker, SesRefuses(w) PROVE NoSilentLoss'
    BY <1>14 DEF SesRefuses, WorkerTo
  <1>15. ASSUME NEW w \in Worker, MarkSent(w) PROVE NoSilentLoss'
    BY <1>15 DEF MarkSent, WorkerDone
  <1>16. ASSUME NEW w \in Worker, MarkFailed(w) PROVE NoSilentLoss'
    BY <1>16 DEF MarkFailed, WorkerDone
  <1>17. ASSUME NEW w \in Worker, MarkRetryable(w) PROVE NoSilentLoss'
    BY <1>17 DEF MarkRetryable, WorkerTo, RetryStatus, ErrorAfterRetry
  <1>18. ASSUME NEW w \in Worker, RecordRetryableError(w) PROVE NoSilentLoss'
    BY <1>18 DEF RecordRetryableError, WorkerDone
  <1>19. ASSUME NEW w \in Worker, WorkerDies(w) PROVE NoSilentLoss'
    BY <1>19 DEF WorkerDies, WorkerDone
  <1>20. ASSUME ReenqueueScan PROVE NoSilentLoss'
    BY <1>20 DEF ReenqueueScan, Recoverable
  <1>21. ASSUME NEW m \in Message, ReenqueueOne(m) PROVE NoSilentLoss'
    BY <1>21 DEF ReenqueueOne
  <1>22. ASSUME NEW m \in Message, ReenqueueFails(m) PROVE NoSilentLoss'
    BY <1>22 DEF ReenqueueFails
  <1>23. ASSUME NEW e \in ProviderEvent, Webhook(e) PROVE NoSilentLoss'
    BY <1>23 DEF Webhook, Unseen, StatusOf, ProviderEvent
  <1>24. ASSUME NEW c \in Contact, UpdateSuppression(c) PROVE NoSilentLoss'
    BY <1>24 DEF UpdateSuppression
  <1>25. CASE UNCHANGED vars
    BY <1>25 DEF vars
  <1> HIDE DEF IInv, NoSilentLoss
  <1> QED
    BY <1>1, <1>2, <1>3, <1>4, <1>5, <1>6, <1>7, <1>8, <1>9, <1>10, <1>11, <1>12, <1>13,
       <1>14, <1>15, <1>16, <1>17, <1>18, <1>19, <1>20, <1>21, <1>22, <1>23, <1>24, <1>25
       DEF Next, Request, FinishRequest, Work, Take, Answer, Reenqueue

\* What one step may do to a settled row (the body of SettledIsFinal).
Settles ==
    \A m \in Message :
        /\ row[m] \in Terminal => row'[m] \in Terminal
        /\ row[m] = "skipped" => row'[m] = "skipped"
        /\ sesId[m] # 0 => sesId'[m] = sesId[m]

\* A settled row is out of reach of the insert, the claim and the retry.
LEMMA SettledStep == IInv /\ [Next]_vars => Settles
  <1> SUFFICES ASSUME IInv, [Next]_vars PROVE Settles
    OBVIOUS
  <1> USE DeliveryAssumption DEF TypeOK, Status, Terminal, RequesterPhase, WorkerPhase,
          Owning, Kind, JobsInHand, IInv, OneSender, StoredIdIsLastCopy, StoredIdIsSettled,
          Settles, dbVars, taskVars, apiVars, workerVars, sesVars
  <1>1. ASSUME NEW q \in Requester, NEW keys \in SUBSET Message, NEW isBulk \in BOOLEAN,
               CheckKeys(q, keys, isBulk)
        PROVE  Settles
    BY <1>1 DEF CheckKeys
  <1>2. ASSUME NEW q \in Requester, CommitRows(q) PROVE Settles
    BY <1>2 DEF CommitRows, Decision, Insertable, RequesterDone
  <1>3. ASSUME NEW q \in Requester, RollBack(q) PROVE Settles
    BY <1>3 DEF RollBack, RequesterDone
  <1>4. ASSUME NEW q \in Requester, EnqueueOnCommit(q) PROVE Settles
    BY <1>4 DEF EnqueueOnCommit, RequesterDone
  <1>5. ASSUME NEW q \in Requester, LoseEnqueue(q) PROVE Settles
    BY <1>5 DEF LoseEnqueue, RequesterDone
  <1>6. ASSUME NEW w \in Worker, NEW batch \in batches, TakeBatch(w, batch) PROVE Settles
    BY <1>6 DEF TakeBatch
  <1>7. ASSUME NEW w \in Worker, NEW m \in Message, FanOut(w, m) PROVE Settles
    BY <1>7 DEF FanOut, WorkerDone
  <1>8. ASSUME NEW w \in Worker, NEW m \in Message, TakeTask(w, m) PROVE Settles
    BY <1>8 DEF TakeTask
  <1>9. ASSUME NEW w \in Worker, ClaimTerminal(w) PROVE Settles
    BY <1>9 DEF ClaimTerminal, WorkerDone
  <1>10. ASSUME NEW w \in Worker, ClaimSending(w) PROVE Settles
    BY <1>10 DEF ClaimSending, WorkerTo
  <1>11. ASSUME NEW w \in Worker, ClaimQueued(w) PROVE Settles
    BY <1>11 DEF ClaimQueued, MayClaim, WorkerTo
  <1>12. ASSUME NEW w \in Worker, SesAccepts(w) PROVE Settles
    BY <1>12 DEF SesAccepts
  <1>13. ASSUME NEW w \in Worker, SesAnswerLost(w) PROVE Settles
    BY <1>13 DEF SesAnswerLost, WorkerTo
  <1>14. ASSUME NEW w \in Worker, SesRefuses(w) PROVE Settles
    BY <1>14 DEF SesRefuses, WorkerTo
  <1>15. ASSUME NEW w \in Worker, MarkSent(w) PROVE Settles
    BY <1>15 DEF MarkSent, WorkerDone
  <1>16. ASSUME NEW w \in Worker, MarkFailed(w) PROVE Settles
    BY <1>16 DEF MarkFailed, WorkerDone
  <1>17. ASSUME NEW w \in Worker, MarkRetryable(w) PROVE Settles
    BY <1>17 DEF MarkRetryable, WorkerTo, RetryStatus, ErrorAfterRetry
  <1>18. ASSUME NEW w \in Worker, RecordRetryableError(w) PROVE Settles
    BY <1>18 DEF RecordRetryableError, WorkerDone
  <1>19. ASSUME NEW w \in Worker, WorkerDies(w) PROVE Settles
    BY <1>19 DEF WorkerDies, WorkerDone
  <1>20. ASSUME ReenqueueScan PROVE Settles
    BY <1>20 DEF ReenqueueScan, Recoverable
  <1>21. ASSUME NEW m \in Message, ReenqueueOne(m) PROVE Settles
    BY <1>21 DEF ReenqueueOne
  <1>22. ASSUME NEW m \in Message, ReenqueueFails(m) PROVE Settles
    BY <1>22 DEF ReenqueueFails
  <1>23. ASSUME NEW e \in ProviderEvent, Webhook(e) PROVE Settles
    BY <1>23 DEF Webhook, Unseen, StatusOf, ProviderEvent
  <1>24. ASSUME NEW c \in Contact, UpdateSuppression(c) PROVE Settles
    BY <1>24 DEF UpdateSuppression
  <1>25. CASE UNCHANGED vars
    BY <1>25 DEF vars
  <1> HIDE DEF IInv, Settles
  <1> QED
    BY <1>1, <1>2, <1>3, <1>4, <1>5, <1>6, <1>7, <1>8, <1>9, <1>10, <1>11, <1>12, <1>13,
       <1>14, <1>15, <1>16, <1>17, <1>18, <1>19, <1>20, <1>21, <1>22, <1>23, <1>24, <1>25
       DEF Next, Request, FinishRequest, Work, Take, Answer, Reenqueue

Phases == [m \in Message |-> PhaseOf(m)]

\* The steps of the pipeline that MessagePromise does not see.
LEMMA QuietStep ==
  ASSUME [Next]_vars
  PROVE  \/ UNCHANGED <<row, accepted, acked>>
         \/ \E q \in Requester : CommitRows(q)
         \/ \E w \in Worker : \/ ClaimQueued(w) \/ SesAccepts(w) \/ SesAnswerLost(w)
                              \/ MarkSent(w) \/ MarkFailed(w) \/ MarkRetryable(w)
         \/ \E e \in ProviderEvent : Webhook(e)
  <1> DEFINE Quiet == UNCHANGED <<row, accepted, acked>>
  <1> USE DEF dbVars, sesVars
  <1>1. ASSUME NEW q \in Requester, NEW keys \in SUBSET Message, NEW isBulk \in BOOLEAN,
               CheckKeys(q, keys, isBulk)
        PROVE  Quiet
    BY <1>1 DEF CheckKeys
  <1>2. ASSUME NEW q \in Requester, RollBack(q) PROVE Quiet
    BY <1>2 DEF RollBack
  <1>3. ASSUME NEW q \in Requester, EnqueueOnCommit(q) PROVE Quiet
    BY <1>3 DEF EnqueueOnCommit
  <1>4. ASSUME NEW q \in Requester, LoseEnqueue(q) PROVE Quiet
    BY <1>4 DEF LoseEnqueue
  <1>5. ASSUME NEW w \in Worker, NEW batch \in batches, TakeBatch(w, batch) PROVE Quiet
    BY <1>5 DEF TakeBatch
  <1>6. ASSUME NEW w \in Worker, NEW m \in Message, FanOut(w, m) PROVE Quiet
    BY <1>6 DEF FanOut
  <1>7. ASSUME NEW w \in Worker, NEW m \in Message, TakeTask(w, m) PROVE Quiet
    BY <1>7 DEF TakeTask
  <1>8. ASSUME NEW w \in Worker, ClaimTerminal(w) PROVE Quiet
    BY <1>8 DEF ClaimTerminal
  <1>9. ASSUME NEW w \in Worker, ClaimSending(w) PROVE Quiet
    BY <1>9 DEF ClaimSending
  <1>10. ASSUME NEW w \in Worker, SesRefuses(w) PROVE Quiet
    BY <1>10 DEF SesRefuses
  <1>11. ASSUME NEW w \in Worker, RecordRetryableError(w) PROVE Quiet
    BY <1>11 DEF RecordRetryableError
  <1>12. ASSUME NEW w \in Worker, WorkerDies(w) PROVE Quiet
    BY <1>12 DEF WorkerDies
  <1>13. ASSUME ReenqueueScan PROVE Quiet
    BY <1>13 DEF ReenqueueScan
  <1>14. ASSUME NEW m \in Message, ReenqueueOne(m) PROVE Quiet
    BY <1>14 DEF ReenqueueOne
  <1>15. ASSUME NEW m \in Message, ReenqueueFails(m) PROVE Quiet
    BY <1>15 DEF ReenqueueFails
  <1>16. ASSUME NEW c \in Contact, UpdateSuppression(c) PROVE Quiet
    BY <1>16 DEF UpdateSuppression
  <1>17. CASE UNCHANGED vars
    BY <1>17 DEF vars
  <1> HIDE DEF Quiet
  <1>q. Quiet => UNCHANGED <<row, accepted, acked>>
    BY DEF Quiet
  <1> QED
    BY <1>1, <1>2, <1>3, <1>4, <1>5, <1>6, <1>7, <1>8, <1>9, <1>10, <1>11, <1>12, <1>13,
       <1>14, <1>15, <1>16, <1>17,
       <1>q DEF Next, Request, FinishRequest, Work, Take, Answer, Reenqueue

\* The empty database maps to the initial state of the promise.
LEMMA PromiseInit == Init => Promise!Init
  BY DEF Init, Promise!Init, PhaseOf

\* Every step of the pipeline is a step of the promise or a stutter.
LEMMA PromiseStep ==
  ASSUME IInv, [Next]_vars
  PROVE  [Promise!Next]_<<Phases, accepted>>
  <1> DEFINE Same == accepted' = accepted /\ \A m \in Message : PhaseOf(m)' = PhaseOf(m)
  <1>0. Same => UNCHANGED <<Phases, accepted>>
    BY DEF Phases
  <1>1. TypeOK /\ JobsInHand /\ OneSender /\ AcksInHand /\ StoredIdIsLastCopy /\ StoredIdIsSettled
    BY DEF IInv
  <1>2. CASE UNCHANGED <<row, accepted, acked>>
    BY <1>0, <1>2 DEF PhaseOf
  <1>3. ASSUME NEW q \in Requester, CommitRows(q) PROVE Promise!Accept
    <2>1. PICK allowed \in SUBSET want[q] :
            row' = [m \in Message |->
              IF m \in allowed THEN "queued"
              ELSE IF m \in want[q] THEN "skipped" ELSE row[m]]
      BY <1>3 DEF CommitRows
    <2>2. /\ \A m \in want[q] : row[m] = "absent"
          /\ UNCHANGED <<accepted, acked>>
      BY <1>3 DEF CommitRows, Insertable, sesVars
    <2>3. allowed \in SUBSET Message /\ want[q] \ allowed \in SUBSET Message
      BY <1>1 DEF TypeOK
    <2>4. \A m \in want[q] : m \notin acked /\ PhaseOf(m) = "absent"
      BY <1>1, <2>2 DEF StoredIdIsSettled, PhaseOf, TypeOK
    <2>5. \A m \in Message : PhaseOf(m)' =
            IF m \in allowed THEN "open"
            ELSE IF m \in want[q] \ allowed THEN "refused" ELSE PhaseOf(m)
      BY <2>1, <2>2, <2>4 DEF PhaseOf
    <2>6. /\ allowed \cap (want[q] \ allowed) = {}
          /\ \A m \in allowed \cup (want[q] \ allowed) : m \in Message /\ Phases[m] = "absent"
      BY <2>3, <2>4 DEF Phases
    <2>7. Phases' = [m \in Message |->
            IF m \in allowed THEN "open"
            ELSE IF m \in want[q] \ allowed THEN "refused" ELSE Phases[m]]
      BY <2>5 DEF Phases
    <2>8. \E opened, refused \in SUBSET Message :
            /\ opened \cap refused = {}
            /\ \A m \in opened \cup refused : Phases[m] = "absent"
            /\ Phases' = [m \in Message |->
                 IF m \in opened THEN "open"
                 ELSE IF m \in refused THEN "refused" ELSE Phases[m]]
            /\ UNCHANGED accepted
      BY <2>2, <2>3, <2>6, <2>7
    <2> QED
      BY <2>8 DEF Promise!Accept, Phases
  <1>4. ASSUME NEW w \in Worker, ClaimQueued(w) \/ MarkSent(w) \/ MarkRetryable(w)
        PROVE  Same
    <2>1. job[w] \in Message /\ UNCHANGED <<accepted, acked>>
      BY <1>1, <1>4 DEF ClaimQueued, MarkSent, MarkRetryable, JobsInHand, Owning, sesVars
    <2>2. CASE ClaimQueued(w)
      BY <1>1, <2>1, <2>2 DEF ClaimQueued, MayClaim, PhaseOf, TypeOK
    <2>3. CASE MarkSent(w)
      BY <1>1, <2>1, <2>3 DEF MarkSent, AcksInHand, OneSender, Owning, PhaseOf, TypeOK
    <2>4. CASE MarkRetryable(w)
      BY <1>1, <2>1, <2>4 DEF MarkRetryable, RetryStatus, PhaseOf, TypeOK
    <2> QED
      BY <1>4, <2>2, <2>3, <2>4
  <1>5. ASSUME NEW w \in Worker, SesAccepts(w) \/ SesAnswerLost(w)
        PROVE  Promise!SendCopy(job[w])
    <2>1. /\ job[w] \in Message /\ job[w] \notin acked
          /\ row[job[w]] = "sending" /\ row' = row
          /\ accepted' = [accepted EXCEPT ![job[w]] = @ + 1]
          /\ acked' = acked \/ acked' = acked \cup {job[w]}
      BY <1>1, <1>5
         DEF SesAccepts, SesAnswerLost, JobsInHand, AcksInHand, OneSender, Owning, dbVars
    <2>2. PhaseOf(job[w]) = "open"
      BY <2>1 DEF PhaseOf
    <2>3. CASE acked' = acked
      <3>1. \A m \in Message : PhaseOf(m)' = PhaseOf(m)
        BY <2>1, <2>3 DEF PhaseOf
      <3> QED
        BY <2>1, <2>2, <3>1 DEF Promise!SendCopy
    <2>4. CASE acked' = acked \cup {job[w]}
      <3>1. \A m \in Message :
              PhaseOf(m)' = IF m = job[w] THEN "delivered" ELSE PhaseOf(m)
        BY <2>1, <2>4 DEF PhaseOf
      <3> QED
        BY <2>1, <2>2, <3>1 DEF Promise!SendCopy
    <2> QED
      BY <2>1, <2>3, <2>4
  <1>6. ASSUME NEW w \in Worker, MarkFailed(w) PROVE Promise!Refuse({job[w]})
    <2>1. /\ job[w] \in Message /\ job[w] \notin acked
          /\ row[job[w]] = "sending"
          /\ UNCHANGED <<accepted, acked>>
      BY <1>1, <1>6 DEF MarkFailed, JobsInHand, AcksInHand, OneSender, Owning, sesVars
    <2>2. row' = [row EXCEPT ![job[w]] = "failed"]
      BY <1>6, <2>1 DEF MarkFailed, Terminal
    <2>3. PhaseOf(job[w]) = "open"
      BY <2>1 DEF PhaseOf
    <2>4. \A m \in Message : row'[m] = IF m = job[w] THEN "failed" ELSE row[m]
      BY <1>1, <2>2 DEF TypeOK
    <2>5. \A m \in Message :
            PhaseOf(m)' = IF m = job[w] THEN "refused" ELSE PhaseOf(m)
      BY <2>1, <2>4 DEF PhaseOf
    <2> QED
      BY <2>1, <2>3, <2>5 DEF Promise!Refuse
  <1>7. ASSUME NEW e \in ProviderEvent, Webhook(e) PROVE Same
    <2>1. /\ e.msg \in Message /\ e.copy # 0
          /\ UNCHANGED <<accepted, acked>>
      BY <1>7 DEF Webhook, ProviderEvent, sesVars
    <2>2. CASE row' = row
      BY <2>1, <2>2 DEF PhaseOf
    <2>3. CASE row' # row
      <3>1. /\ sesId[e.msg] # 0
            /\ \/ row' = [row EXCEPT ![e.msg] = "bounced"]
               \/ row' = [row EXCEPT ![e.msg] = "complained"]
               \/ row' = [row EXCEPT ![e.msg] = "failed"]
        <4>1. /\ sesId[e.msg] = e.copy
              /\ e.kind \in {"hard_bounce", "complaint", "reject"}
              /\ row' = [row EXCEPT ![e.msg] = StatusOf[e.kind]]
          BY <1>7, <2>3 DEF Webhook, StatusOf
        <4>2. /\ StatusOf["hard_bounce"] = "bounced"
              /\ StatusOf["complaint"] = "complained"
              /\ StatusOf["reject"] = "failed"
          BY DEF StatusOf
        <4> QED
          BY <2>1, <4>1, <4>2
      <3>2. e.msg \in acked /\ row[e.msg] # "absent"
        BY <1>1, <2>1, <3>1 DEF StoredIdIsLastCopy, StoredIdIsSettled
      <3> QED
        BY <1>1, <2>1, <3>1, <3>2 DEF PhaseOf, TypeOK
    <2> QED
      BY <2>2, <2>3
  <1> HIDE DEF Same
  <1>8. ASSUME NEW w \in Worker,
               SesAccepts(w) \/ SesAnswerLost(w) \/ MarkFailed(w)
        PROVE  Promise!Next
    <2>1. job[w] \in Message
      BY <1>1, <1>8 DEF SesAccepts, SesAnswerLost, MarkFailed, JobsInHand, Owning
    <2>2. {job[w]} \in SUBSET Message
      BY <2>1
    <2> QED
      BY <1>5, <1>6, <1>8, <2>1, <2>2 DEF Promise!Next
  <1> QED
    BY QuietStep, <1>0, <1>2, <1>3, <1>4, <1>7, <1>8 DEF Promise!Next

-----------------------------------------------------------------------------
(* Opens.                                                                  *)

Opens(m) == {e \in recorded : e.msg = m /\ e.kind = "open"}

\* The events that were recorded are finitely many: only then has their number a
\* successor.
OpensInv == IsFiniteSet(recorded) /\ OpensCountedOnce

\* An event that is applied was not recorded before, and is recorded with the
\* count it raises; nothing else touches either.
LEMMA OpensStep == TypeOK /\ OpensInv /\ [Next]_vars => OpensInv'
  <1> SUFFICES ASSUME TypeOK, OpensInv, [Next]_vars PROVE OpensInv'
    OBVIOUS
  <1>1. CASE UNCHANGED <<recorded, openCount>>
    BY <1>1 DEF OpensInv, OpensCountedOnce
  <1>2. ASSUME NEW e \in ProviderEvent, Webhook(e) PROVE OpensInv'
    <2>1. /\ recorded' = recorded \cup {e} /\ e \notin recorded
          /\ \/ openCount' = openCount
             \/ e.kind = "open" /\ openCount' = [openCount EXCEPT ![e.msg] = @ + 1]
      <3>1. recorded' = recorded \cup {e} /\ e \notin recorded
        BY <1>2 DEF Webhook, Unseen
      <3>2. openCount' = IF sesId[e.msg] = e.copy /\ e.kind = "open"
                         THEN [openCount EXCEPT ![e.msg] = @ + 1] ELSE openCount
        BY <1>2 DEF Webhook
      <3> QED
        BY <3>1, <3>2
    <2>2. IsFiniteSet(recorded')
      BY <2>1, FS_AddElement DEF OpensInv
    <2>3. ASSUME NEW m \in Message PROVE openCount'[m] <= Cardinality(Opens(m)')
      <3> DEFINE S == Opens(m)
                 T == Opens(m)'
      <3>1. IsFiniteSet(S) /\ Cardinality(S) \in Nat
        BY FS_Subset, FS_CardinalityType DEF OpensInv, Opens
      <3>2. openCount[m] \in Nat /\ openCount[m] <= Cardinality(S)
        BY DEF TypeOK, OpensInv, OpensCountedOnce, Opens
      <3>3. CASE e.msg = m /\ e.kind = "open"
        <4>1. T = S \cup {e} /\ e \notin S
          BY <2>1, <3>3 DEF Opens
        <4>2. openCount'[m] \in {openCount[m], openCount[m] + 1}
          BY <2>1, <3>3 DEF TypeOK
        <4> HIDE DEF S, T
        <4>3. Cardinality(T) = Cardinality(S) + 1
          BY <3>1, <4>1, FS_AddElement
        <4>4. openCount'[m] <= Cardinality(T)
          BY <3>1, <3>2, <4>2, <4>3
        <4> QED
          BY <4>4 DEF T
      <3>4. CASE ~ (e.msg = m /\ e.kind = "open")
        <4>1. T = S
          BY <2>1, <3>4 DEF Opens
        <4>2. openCount'[m] = openCount[m]
          BY <2>1, <3>4 DEF TypeOK
        <4> QED
          BY <3>2, <4>1, <4>2
      <3> QED
        BY <3>3, <3>4
    <2> QED
      BY <2>2, <2>3 DEF OpensInv, OpensCountedOnce, Opens
  <1> QED
    BY <1>1, <1>2
       DEF Next, Request, FinishRequest, Take, Work, Answer, Reenqueue, CheckKeys, CommitRows,
           RollBack, EnqueueOnCommit, LoseEnqueue, TakeBatch, FanOut, TakeTask, ClaimTerminal,
           ClaimSending, ClaimQueued, SesAccepts, SesAnswerLost, SesRefuses, MarkSent,
           MarkFailed, MarkRetryable, RecordRetryableError, WorkerDies, ReenqueueScan,
           ReenqueueOne, ReenqueueFails, UpdateSuppression, dbVars, vars

\* The invariant holds of the empty database.
LEMMA InvInit == Init => IInv
  BY DeliveryAssumption
     DEF Init, IInv, TypeOK, Status, Terminal, RequesterPhase, WorkerPhase, Owning,
         JobsInHand, OneSender, AcksInHand, CopiesExplained, StoredIdIsLastCopy,
         StoredIdIsSettled, NoSilentLoss

\* The conjuncts of the invariant are kept together.
LEMMA InvStep == IInv /\ [Next]_vars => IInv'
  <1> SUFFICES ASSUME IInv, [Next]_vars PROVE IInv'
    OBVIOUS
  <1>1. TypeOK' /\ JobsInHand'
    BY TypeStep, JobsStep DEF IInv
  <1> QED
    BY <1>1, ClaimStep, AcksStep, CopiesStep, StoredIdStep, SilentLossStep DEF IInv

\* The inductive invariant holds in every reachable state.
THEOREM Invariance == Spec => []IInv
  <1>1. Init => IInv
    BY InvInit
  <1>2. IInv /\ [Next]_vars => IInv'
    BY InvStep
  <1> QED
    BY <1>1, <1>2, PTL DEF Spec

\* Every variable keeps its type in every reachable state.
THEOREM TypeCorrect == Spec => []TypeOK
  <1>1. IInv => TypeOK
    BY DEF IInv
  <1> QED
    BY <1>1, Invariance, PTL

\* At any time at most one worker is between its claim of a row and the
\* recording of SES's answer, for any number of workers and tasks.
THEOREM OneSenderHolds == Spec => []OneSender
  <1>1. IInv => OneSender
    BY DEF IInv
  <1> QED
    BY <1>1, Invariance, PTL

\* No copy of a message leaves after a worker has received its MessageId:
\* a second copy always stems from an answer that was lost.
THEOREM CopiesAreExplained == Spec => []CopiesExplained
  <1>1. IInv => CopiesExplained
    BY DEF IInv
  <1> QED
    BY <1>1, Invariance, PTL

\* A stored ses_message_id is the id of the last copy SES took.
THEOREM StoredIdHolds == Spec => []StoredIdIsLastCopy
  <1>1. IInv => StoredIdIsLastCopy
    BY DEF IInv
  <1> QED
    BY <1>1, Invariance, PTL

\* A queued row is on its way to a worker, explains itself in last_error, or
\* lost its enqueue or its task.
THEOREM NothingSilentlyLost == Spec => []NoSilentLoss
  <1>1. IInv => NoSilentLoss
    BY DEF IInv
  <1> QED
    BY <1>1, Invariance, PTL

\* Whatever events arrive again, however often: no open counts twice, for any number
\* of messages and of copies.
THEOREM OpensCountOnce == Spec => []OpensCountedOnce
  <1>1. Init => OpensInv
    <2> SUFFICES ASSUME Init PROVE OpensInv
      OBVIOUS
    <2>1. recorded = {} /\ openCount = [m \in Message |-> 0]
      BY DEF Init
    <2>2. \A m \in Message : Opens(m) = {}
      BY <2>1 DEF Opens
    <2>3. IsFiniteSet({}) /\ Cardinality({}) = 0
      BY FS_EmptySet
    <2> QED
      BY <2>1, <2>2, <2>3 DEF OpensInv, OpensCountedOnce, Opens
  <1>2. OpensInv => OpensCountedOnce
    BY DEF OpensInv
  <1> QED
    BY <1>1, <1>2, OpensStep, TypeCorrect, PTL DEF Spec

\* No request, task, mark or provider event makes a settled row sendable
\* again, changes a skipped row or rewrites a stored id.
THEOREM SettledStaysFinal == Spec => SettledIsFinal
  <1>1. IInv /\ [Next]_vars => [Settles]_vars
    BY SettledStep
  <1>2. [Settles]_vars => [\A m \in Message :
         /\ row[m] \in Terminal => row'[m] \in Terminal
         /\ row[m] = "skipped" => row'[m] = "skipped"
         /\ sesId[m] # 0 => sesId'[m] = sesId[m]]_vars
    BY DEF Settles
  <1> QED
    BY <1>1, <1>2, Invariance, PTL DEF Spec, SettledIsFinal

\* The pipeline, for any number of clients, workers, lost answers and crashes,
\* implements the abstract promise of one outcome per message.
THEOREM PromiseKept == Spec => KeepsPromise
  <1>1. IInv /\ [Next]_vars => [Promise!Next]_<<Phases, accepted>>
    BY PromiseStep
  <1> QED
    BY <1>1, PromiseInit, Invariance, PTL DEF Spec, KeepsPromise, Promise!Spec, Phases

=============================================================================

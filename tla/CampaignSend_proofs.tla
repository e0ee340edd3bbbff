-------------------------- MODULE CampaignSend_proofs --------------------------
EXTENDS CampaignSend, FiniteSetTheorems, TLAPS

-----------------------------------------------------------------------------
(* Counting recipients.                                                    *)

\* What a count query returns is a number.
LEMMA CountType ==
  ASSUME NEW rows, NEW S
  PROVE  IsFiniteSet(With(rows, S)) /\ Cardinality(With(rows, S)) \in Nat
  <1>1. With(rows, S) \in SUBSET Contact
    BY DEF With
  <1>2. IsFiniteSet(With(rows, S))
    BY <1>1, FS_Subset, CampaignAssumption
  <1> QED
    BY <1>2, FS_CardinalityType

\* So is the number of recipients with a ses_message_id.
LEMMA RecordedType ==
  ASSUME NEW R \in SUBSET Contact
  PROVE  IsFiniteSet(R) /\ Cardinality(R) \in Nat
  <1>1. IsFiniteSet(R)
    BY FS_Subset, CampaignAssumption
  <1> QED
    BY <1>1, FS_CardinalityType

\* Rows that are "sent" carry a ses_message_id, so that no count of them
\* exceeds the number of records.
LEMMA SentAreRecorded ==
  ASSUME NEW rows, NEW R \in SUBSET Contact,
         \A c \in Contact : rows[c] = "sent" => c \in R
  PROVE  SentIn(rows) <= Cardinality(R)
  <1>1. With(rows, {"sent"}) \in SUBSET R
    BY DEF With
  <1>2. Cardinality(With(rows, {"sent"})) <= Cardinality(R)
    BY <1>1, RecordedType, FS_Subset
  <1> QED
    BY <1>2 DEF SentIn

\* Nobody has a status if every recipient has another one.
LEMMA CountNone ==
  ASSUME NEW rows, NEW S, \A c \in Contact : rows[c] \notin S
  PROVE  With(rows, S) = {} /\ Cardinality(With(rows, S)) = 0
  <1>1. With(rows, S) = {}
    BY DEF With
  <1> QED
    BY <1>1, FS_EmptySet

\* Two disjoint groups are counted together.
LEMMA DisjointCount ==
  ASSUME NEW S, NEW T, NEW U, IsFiniteSet(S), IsFiniteSet(T), S \cap T = {}, U = S \cup T
  PROVE  Cardinality(U) = Cardinality(S) + Cardinality(T)
  <1>1. Cardinality(S \cup T)
          = Cardinality(S) + Cardinality(T) - Cardinality(S \cap T)
    BY FS_Union
  <1>2. /\ Cardinality(S \cap T) = 0
        /\ Cardinality(S) \in Nat /\ Cardinality(T) \in Nat
    BY FS_EmptySet, FS_CardinalityType
  <1> QED
    BY <1>1, <1>2

-----------------------------------------------------------------------------
(* Preservation of the inductive invariant, part by part.                  *)

\* Types are kept.
LEMMA TypeStep == TypeOK /\ LocksHeld /\ [Next]_vars => TypeOK'
  <1> SUFFICES ASSUME TypeOK, LocksHeld, [Next]_vars PROVE TypeOK'
    OBVIOUS
  <1> USE CampaignAssumption DEF TypeOK, CampaignStatus, RecipientStatus, Holding,
     Locking, WorkerPhase, Batch, FormData, campaignVars, recipientVars, taskVars,
     workerVars, sesVars, LocksHeld
  <1>1. ASSUME NEW candidates \in SUBSET Contact, NEW size \in BatchSizes,
     QueueCampaign(candidates, size) PROVE TypeOK'
    <2> DEFINE rows == Snapshot(candidates)
    <2>1. rows \in [Contact -> RecipientStatus]
      BY DEF Snapshot
    <2>2. /\ Cardinality(With(rows, RecipientStatus \ {"none", "skipped"})) \in Nat
          /\ Cardinality(With(rows, {"skipped"})) \in Nat
          /\ SentIn(rows) \in Nat
      BY CountType DEF SentIn
    <2>3. round' \in 0..MaxRounds /\ round + 1 \in 1..MaxRounds
      BY <1>1 DEF QueueCampaign
    <2>4. hooks' \subseteq Batch
      <3>1. PICK slices \in Slicings(With(rows, {"pending"}), size) :
              hooks' = hooks \cup {[round |-> round + 1, members |-> s] : s \in slices}
        BY <1>1 DEF QueueCampaign
      <3>2. \A s \in slices : s \subseteq Contact
        BY DEF Slicings, With
      <3> QED
        BY <3>1, <3>2, <2>3
    <2> HIDE DEF rows
    <2>5. /\ status' = "queued" /\ recipient' = rows
          /\ recipientCount' = Cardinality(With(rows, RecipientStatus \ {"none", "skipped"}))
          /\ skippedCount' = Cardinality(With(rows, {"skipped"}))
          /\ sentCount' = SentIn(rows)
          /\ UNCHANGED <<completed, recorded, barred, batches, workerVars, form,
                         cancelling, sesVars, reopened>>
      BY <1>1 DEF QueueCampaign, rows
    <2> QED
      BY <2>1, <2>2, <2>3, <2>4, <2>5
  <1>2. ASSUME NEW b \in hooks, EnqueueBatch(b) PROVE TypeOK'
    BY <1>2 DEF EnqueueBatch
  <1>3. ASSUME LoseHooks PROVE TypeOK'
    BY <1>3 DEF LoseHooks
  <1>4. ASSUME OpenForm PROVE TypeOK'
    BY <1>4 DEF OpenForm
  <1>5. ASSUME SaveForm PROVE TypeOK'
    BY <1>5 DEF SaveForm
  <1>6. ASSUME RejectForm PROVE TypeOK'
    BY <1>6 DEF RejectForm
  <1>7. ASSUME CancelDraft PROVE TypeOK'
    BY <1>7 DEF CancelDraft
  <1>8. ASSUME BeginCancel PROVE TypeOK'
    BY <1>8 DEF BeginCancel
  <1>9. ASSUME CommitCancel PROVE TypeOK'
    <2>1. Cardinality(ToSkip) \in Nat
      BY CountType DEF ToSkip
    <2>2. skippedCount' \in Nat /\ recipientCount' \in Nat
      BY <1>9, <2>1 DEF CommitCancel, CountWithout
    <2>3. recipient' \in [Contact -> RecipientStatus]
      BY <1>9 DEF CommitCancel
    <2> QED
      BY <1>9, <2>2, <2>3 DEF CommitCancel
  <1>10. ASSUME AbortCancel PROVE TypeOK'
    BY <1>10 DEF AbortCancel
  <1>11. ASSUME NEW w \in Worker, NEW b \in batches, TakeBatch(w, b) PROVE TypeOK'
    BY <1>11 DEF TakeBatch
  <1>12. ASSUME NEW w \in Worker, NEW c \in Contact, LockRow(w, c) PROVE TypeOK'
    BY <1>12 DEF LockRow
  <1>13. ASSUME NEW w \in Worker, SkipSettled(w) PROVE TypeOK'
    BY <1>13 DEF SkipSettled, NextRecipient
  <1>14. ASSUME NEW w \in Worker, SkipCancelled(w) PROVE TypeOK'
    BY <1>14 DEF SkipCancelled, NextRecipient
  <1>15. ASSUME NEW w \in Worker, BeginSend(w) PROVE TypeOK'
    BY <1>15 DEF BeginSend, WorkerTo
  <1>16. ASSUME NEW w \in Worker, SesAccepts(w) PROVE TypeOK'
    BY <1>16 DEF SesAccepts, WorkerTo
  <1>17. ASSUME NEW w \in Worker, SesRefuses(w) PROVE TypeOK'
    BY <1>17 DEF SesRefuses, NextRecipient
  <1>18. ASSUME NEW w \in Worker, SesUncertain(w) PROVE TypeOK'
    <2>1. accepted' \in [Contact -> 0..MaxCopies] /\ lost' \in [Contact -> Nat]
      BY <1>18 DEF SesUncertain
    <2>2. /\ wpc' \in [Worker -> WorkerPhase] /\ todo' \in [Worker -> SUBSET Contact]
          /\ cur' \in [Worker -> Contact \cup {NoContact}]
          /\ count' \in [Worker -> Nat] /\ open' \in [Worker -> BOOLEAN]
      <3>1. WorkerDone(w, "failing") \/ WorkerTo(w, "ses")
        BY <1>18 DEF SesUncertain
      <3>2. CASE WorkerDone(w, "failing")
        BY <3>2 DEF WorkerDone
      <3>3. CASE WorkerTo(w, "ses")
        BY <3>3 DEF WorkerTo
      <3> QED
        BY <3>1, <3>2, <3>3
    <2> QED
      BY <1>18, <2>1, <2>2 DEF SesUncertain
  <1>19. ASSUME NEW w \in Worker, CommitSent(w) PROVE TypeOK'
    BY <1>19 DEF CommitSent, NextRecipient
  <1>20. ASSUME NEW w \in Worker, CountSent(w) PROVE TypeOK'
    <2>1. SentIn(recipient) \in Nat
      BY CountType DEF SentIn
    <2> QED
      BY <1>20, <2>1 DEF CountSent
  <1>21. ASSUME NEW w \in Worker, CheckPending(w) PROVE TypeOK'
    BY <1>21 DEF CheckPending, PendingExists
  <1>22. ASSUME NEW w \in Worker, WriteCounts(w) PROVE TypeOK'
    BY <1>22 DEF WriteCounts, WorkerDone
  <1>23. ASSUME NEW w \in Worker, WorkerDies(w) PROVE TypeOK'
    BY <1>23 DEF WorkerDies, WorkerDone
  <1>24. ASSUME NEW w \in Worker, DeadlockAbortsSend(w) PROVE TypeOK'
    BY <1>24 DEF DeadlockAbortsSend, GivesUp, WorkerDone
  <1>25. ASSUME NEW w \in Worker, DeadlockAbortsCancel(w) PROVE TypeOK'
    BY <1>25 DEF DeadlockAbortsCancel, AbortCancel
  <1>26. ASSUME NEW c \in Contact, NEW kind \in DOMAIN StatusOf, Webhook(c, kind) PROVE
     TypeOK'
    BY <1>26 DEF Webhook, StatusOf
  <1>27. ASSUME NEW c \in Contact, Unsubscribe(c) PROVE TypeOK'
    BY <1>27 DEF Unsubscribe
  <1>28. ASSUME NEW c \in Contact, ContactChanges(c) PROVE TypeOK'
    BY <1>28 DEF ContactChanges
  <1>29. CASE UNCHANGED vars
    BY <1>29 DEF vars
  <1> HIDE DEF TypeOK, LocksHeld
  <1> QED
    BY <1>1, <1>2, <1>3, <1>4, <1>5, <1>6, <1>7, <1>8, <1>9, <1>10, <1>11, <1>12, <1>13,
       <1>14, <1>15, <1>16, <1>17, <1>18, <1>19, <1>20, <1>21, <1>22, <1>23, <1>24,
       <1>25, <1>26, <1>27, <1>28, <1>29
       DEF Next, Queueing, EditForm, Cancel, GetCampaign, Answer, Refresh

\* The campaign's row keeps one holder.
LEMMA LocksStep == TypeOK /\ LocksHeld /\ [Next]_vars => LocksHeld'
  <1> SUFFICES ASSUME TypeOK, LocksHeld, [Next]_vars PROVE LocksHeld'
    OBVIOUS
  <1> USE CampaignAssumption DEF Unsettled, TypeOK, RecipientStatus, Holding, Locking,
     WorkerPhase, LocksHeld, campaignVars, recipientVars, taskVars, workerVars, sesVars,
     CampaignFree
  <1>1. ASSUME NEW candidates \in SUBSET Contact, NEW size \in BatchSizes,
     QueueCampaign(candidates, size) PROVE LocksHeld'
    BY <1>1 DEF QueueCampaign
  <1>2. ASSUME NEW b \in hooks, EnqueueBatch(b) PROVE LocksHeld'
    BY <1>2 DEF EnqueueBatch
  <1>3. ASSUME LoseHooks PROVE LocksHeld'
    BY <1>3 DEF LoseHooks
  <1>4. ASSUME OpenForm PROVE LocksHeld'
    BY <1>4 DEF OpenForm
  <1>5. ASSUME SaveForm PROVE LocksHeld'
    BY <1>5 DEF SaveForm
  <1>6. ASSUME RejectForm PROVE LocksHeld'
    BY <1>6 DEF RejectForm
  <1>7. ASSUME CancelDraft PROVE LocksHeld'
    BY <1>7 DEF CancelDraft
  <1>8. ASSUME BeginCancel PROVE LocksHeld'
    BY <1>8 DEF BeginCancel
  <1>9. ASSUME CommitCancel PROVE LocksHeld'
    BY <1>9 DEF CommitCancel
  <1>10. ASSUME AbortCancel PROVE LocksHeld'
    BY <1>10 DEF AbortCancel
  <1>11. ASSUME NEW w \in Worker, NEW b \in batches, TakeBatch(w, b) PROVE LocksHeld'
    BY <1>11 DEF TakeBatch
  <1>12. ASSUME NEW w \in Worker, NEW c \in Contact, LockRow(w, c) PROVE LocksHeld'
    BY <1>12 DEF LockRow
  <1>13. ASSUME NEW w \in Worker, SkipSettled(w) PROVE LocksHeld'
    BY <1>13 DEF SkipSettled, NextRecipient
  <1>14. ASSUME NEW w \in Worker, SkipCancelled(w) PROVE LocksHeld'
    BY <1>14 DEF SkipCancelled, NextRecipient
  <1>15. ASSUME NEW w \in Worker, BeginSend(w) PROVE LocksHeld'
    BY <1>15 DEF BeginSend, WorkerTo, Cancelled
  <1>16. ASSUME NEW w \in Worker, SesAccepts(w) PROVE LocksHeld'
    BY <1>16 DEF SesAccepts, WorkerTo
  <1>17. ASSUME NEW w \in Worker, SesRefuses(w) PROVE LocksHeld'
    BY <1>17 DEF SesRefuses, NextRecipient
  <1>18. ASSUME NEW w \in Worker, SesUncertain(w) PROVE LocksHeld'
    BY <1>18 DEF SesUncertain, WorkerDone, WorkerTo
  <1>19. ASSUME NEW w \in Worker, CommitSent(w) PROVE LocksHeld'
    BY <1>19 DEF CommitSent, NextRecipient
  <1>20. ASSUME NEW w \in Worker, CountSent(w) PROVE LocksHeld'
    BY <1>20 DEF CountSent
  <1>21. ASSUME NEW w \in Worker, CheckPending(w) PROVE LocksHeld'
    BY <1>21 DEF CheckPending
  <1>22. ASSUME NEW w \in Worker, WriteCounts(w) PROVE LocksHeld'
    BY <1>22 DEF WriteCounts, WorkerDone
  <1>23. ASSUME NEW w \in Worker, WorkerDies(w) PROVE LocksHeld'
    BY <1>23 DEF WorkerDies, WorkerDone
  <1>24. ASSUME NEW w \in Worker, DeadlockAbortsSend(w) PROVE LocksHeld'
    BY <1>24 DEF DeadlockAbortsSend, GivesUp, WorkerDone
  <1>25. ASSUME NEW w \in Worker, DeadlockAbortsCancel(w) PROVE LocksHeld'
    BY <1>25 DEF DeadlockAbortsCancel, AbortCancel
  <1>26. ASSUME NEW c \in Contact, NEW kind \in DOMAIN StatusOf, Webhook(c, kind) PROVE
     LocksHeld'
    BY <1>26 DEF Webhook, StatusOf
  <1>27. ASSUME NEW c \in Contact, Unsubscribe(c) PROVE LocksHeld'
    BY <1>27 DEF Unsubscribe
  <1>28. ASSUME NEW c \in Contact, ContactChanges(c) PROVE LocksHeld'
    BY <1>28 DEF ContactChanges
  <1>29. CASE UNCHANGED vars
    BY <1>29 DEF vars
  <1> HIDE DEF TypeOK, LocksHeld
  <1> QED
    BY <1>1, <1>2, <1>3, <1>4, <1>5, <1>6, <1>7, <1>8, <1>9, <1>10, <1>11, <1>12, <1>13,
       <1>14, <1>15, <1>16, <1>17, <1>18, <1>19, <1>20, <1>21, <1>22, <1>23, <1>24,
       <1>25, <1>26, <1>27, <1>28, <1>29
       DEF Next, Queueing, EditForm, Cancel, GetCampaign, Answer, Refresh

\* A recipient with a ses_message_id keeps a status that says so.
LEMMA RecordsStep == TypeOK /\ LocksHeld /\ RecordsAgree /\ [Next]_vars => RecordsAgree'
  <1> SUFFICES ASSUME TypeOK, LocksHeld, RecordsAgree, [Next]_vars PROVE RecordsAgree'
    OBVIOUS
  <1> USE CampaignAssumption DEF TypeOK, RecipientStatus, Holding, Locking, LocksHeld,
     RecordsAgree, campaignVars, recipientVars, taskVars, workerVars, sesVars
  <1>1. ASSUME NEW candidates \in SUBSET Contact, NEW size \in BatchSizes,
     QueueCampaign(candidates, size) PROVE RecordsAgree'
    BY <1>1 DEF QueueCampaign, Snapshot
  <1>2. ASSUME NEW b \in hooks, EnqueueBatch(b) PROVE RecordsAgree'
    BY <1>2 DEF EnqueueBatch
  <1>3. ASSUME LoseHooks PROVE RecordsAgree'
    BY <1>3 DEF LoseHooks
  <1>4. ASSUME OpenForm PROVE RecordsAgree'
    BY <1>4 DEF OpenForm
  <1>5. ASSUME SaveForm PROVE RecordsAgree'
    BY <1>5 DEF SaveForm
  <1>6. ASSUME RejectForm PROVE RecordsAgree'
    BY <1>6 DEF RejectForm
  <1>7. ASSUME CancelDraft PROVE RecordsAgree'
    BY <1>7 DEF CancelDraft
  <1>8. ASSUME BeginCancel PROVE RecordsAgree'
    BY <1>8 DEF BeginCancel
  <1>9. ASSUME CommitCancel PROVE RecordsAgree'
    BY <1>9 DEF CommitCancel, ToSkip, With
  <1>10. ASSUME AbortCancel PROVE RecordsAgree'
    BY <1>10 DEF AbortCancel
  <1>11. ASSUME NEW w \in Worker, NEW b \in batches, TakeBatch(w, b) PROVE RecordsAgree'
    BY <1>11 DEF TakeBatch
  <1>12. ASSUME NEW w \in Worker, NEW c \in Contact, LockRow(w, c) PROVE RecordsAgree'
    BY <1>12 DEF LockRow
  <1>13. ASSUME NEW w \in Worker, SkipSettled(w) PROVE RecordsAgree'
    BY <1>13 DEF SkipSettled, NextRecipient
  <1>14. ASSUME NEW w \in Worker, SkipCancelled(w) PROVE RecordsAgree'
    BY <1>14 DEF SkipCancelled, NextRecipient, Unsettled
  <1>15. ASSUME NEW w \in Worker, BeginSend(w) PROVE RecordsAgree'
    BY <1>15 DEF BeginSend, WorkerTo
  <1>16. ASSUME NEW w \in Worker, SesAccepts(w) PROVE RecordsAgree'
    BY <1>16 DEF SesAccepts, WorkerTo
  <1>17. ASSUME NEW w \in Worker, SesRefuses(w) PROVE RecordsAgree'
    BY <1>17 DEF SesRefuses, NextRecipient, Unsettled
  <1>18. ASSUME NEW w \in Worker, SesUncertain(w) PROVE RecordsAgree'
    BY <1>18 DEF SesUncertain, WorkerDone, WorkerTo
  <1>19. ASSUME NEW w \in Worker, CommitSent(w) PROVE RecordsAgree'
    BY <1>19 DEF CommitSent, NextRecipient, Unsettled
  <1>20. ASSUME NEW w \in Worker, CountSent(w) PROVE RecordsAgree'
    BY <1>20 DEF CountSent
  <1>21. ASSUME NEW w \in Worker, CheckPending(w) PROVE RecordsAgree'
    BY <1>21 DEF CheckPending
  <1>22. ASSUME NEW w \in Worker, WriteCounts(w) PROVE RecordsAgree'
    BY <1>22 DEF WriteCounts, WorkerDone
  <1>23. ASSUME NEW w \in Worker, WorkerDies(w) PROVE RecordsAgree'
    BY <1>23 DEF WorkerDies, WorkerDone
  <1>24. ASSUME NEW w \in Worker, DeadlockAbortsSend(w) PROVE RecordsAgree'
    BY <1>24 DEF DeadlockAbortsSend, GivesUp, WorkerDone
  <1>25. ASSUME NEW w \in Worker, DeadlockAbortsCancel(w) PROVE RecordsAgree'
    BY <1>25 DEF DeadlockAbortsCancel, AbortCancel
  <1>26. ASSUME NEW c \in Contact, NEW kind \in DOMAIN StatusOf, Webhook(c, kind) PROVE
     RecordsAgree'
    BY <1>26 DEF Webhook, StatusOf
  <1>27. ASSUME NEW c \in Contact, Unsubscribe(c) PROVE RecordsAgree'
    BY <1>27 DEF Unsubscribe
  <1>28. ASSUME NEW c \in Contact, ContactChanges(c) PROVE RecordsAgree'
    BY <1>28 DEF ContactChanges
  <1>29. CASE UNCHANGED vars
    BY <1>29 DEF vars
  <1> HIDE DEF TypeOK, LocksHeld, RecordsAgree
  <1> QED
    BY <1>1, <1>2, <1>3, <1>4, <1>5, <1>6, <1>7, <1>8, <1>9, <1>10, <1>11, <1>12, <1>13,
       <1>14, <1>15, <1>16, <1>17, <1>18, <1>19, <1>20, <1>21, <1>22, <1>23, <1>24,
       <1>25, <1>26, <1>27, <1>28, <1>29
       DEF Next, Queueing, EditForm, Cancel, GetCampaign, Answer, Refresh

\* Copies stay accounted for.
LEMMA CopiesStep ==
  TypeOK /\ LocksHeld /\ OneRecordedCopy /\ [Next]_vars => OneRecordedCopy'
  <1> SUFFICES ASSUME TypeOK, LocksHeld, OneRecordedCopy, [Next]_vars PROVE
     OneRecordedCopy'
    OBVIOUS
  <1> USE CampaignAssumption DEF TypeOK, Holding, Locking, LocksHeld, OneRecordedCopy,
     InFlight, campaignVars, recipientVars, taskVars, workerVars, sesVars
  <1>1. ASSUME NEW candidates \in SUBSET Contact, NEW size \in BatchSizes,
     QueueCampaign(candidates, size) PROVE OneRecordedCopy'
    BY <1>1 DEF QueueCampaign
  <1>2. ASSUME NEW b \in hooks, EnqueueBatch(b) PROVE OneRecordedCopy'
    BY <1>2 DEF EnqueueBatch
  <1>3. ASSUME LoseHooks PROVE OneRecordedCopy'
    BY <1>3 DEF LoseHooks
  <1>4. ASSUME OpenForm PROVE OneRecordedCopy'
    BY <1>4 DEF OpenForm
  <1>5. ASSUME SaveForm PROVE OneRecordedCopy'
    BY <1>5 DEF SaveForm
  <1>6. ASSUME RejectForm PROVE OneRecordedCopy'
    BY <1>6 DEF RejectForm
  <1>7. ASSUME CancelDraft PROVE OneRecordedCopy'
    BY <1>7 DEF CancelDraft
  <1>8. ASSUME BeginCancel PROVE OneRecordedCopy'
    BY <1>8 DEF BeginCancel
  <1>9. ASSUME CommitCancel PROVE OneRecordedCopy'
    BY <1>9 DEF CommitCancel
  <1>10. ASSUME AbortCancel PROVE OneRecordedCopy'
    BY <1>10 DEF AbortCancel
  <1>11. ASSUME NEW w \in Worker, NEW b \in batches, TakeBatch(w, b) PROVE
     OneRecordedCopy'
    BY <1>11 DEF TakeBatch
  <1>12. ASSUME NEW w \in Worker, NEW c \in Contact, LockRow(w, c) PROVE
     OneRecordedCopy'
    BY <1>12 DEF LockRow
  <1>13. ASSUME NEW w \in Worker, SkipSettled(w) PROVE OneRecordedCopy'
    BY <1>13 DEF SkipSettled, NextRecipient
  <1>14. ASSUME NEW w \in Worker, SkipCancelled(w) PROVE OneRecordedCopy'
    BY <1>14 DEF SkipCancelled, NextRecipient
  <1>15. ASSUME NEW w \in Worker, BeginSend(w) PROVE OneRecordedCopy'
    BY <1>15 DEF BeginSend, WorkerTo
  <1>16. ASSUME NEW w \in Worker, SesAccepts(w) PROVE OneRecordedCopy'
    BY <1>16 DEF SesAccepts, WorkerTo, Unsettled
  <1>17. ASSUME NEW w \in Worker, SesRefuses(w) PROVE OneRecordedCopy'
    BY <1>17 DEF SesRefuses, NextRecipient
  <1>18. ASSUME NEW w \in Worker, SesUncertain(w) PROVE OneRecordedCopy'
    BY <1>18 DEF SesUncertain, WorkerDone, WorkerTo, Unsettled
  <1>19. ASSUME NEW w \in Worker, CommitSent(w) PROVE OneRecordedCopy'
    BY <1>19 DEF CommitSent, NextRecipient, Unsettled
  <1>20. ASSUME NEW w \in Worker, CountSent(w) PROVE OneRecordedCopy'
    BY <1>20 DEF CountSent
  <1>21. ASSUME NEW w \in Worker, CheckPending(w) PROVE OneRecordedCopy'
    BY <1>21 DEF CheckPending
  <1>22. ASSUME NEW w \in Worker, WriteCounts(w) PROVE OneRecordedCopy'
    BY <1>22 DEF WriteCounts, WorkerDone
  <1>23. ASSUME NEW w \in Worker, WorkerDies(w) PROVE OneRecordedCopy'
    BY <1>23 DEF WorkerDies, WorkerDone, Unsettled
  <1>24. ASSUME NEW w \in Worker, DeadlockAbortsSend(w) PROVE OneRecordedCopy'
    BY <1>24 DEF DeadlockAbortsSend, GivesUp, WorkerDone, Deadlocked
  <1>25. ASSUME NEW w \in Worker, DeadlockAbortsCancel(w) PROVE OneRecordedCopy'
    BY <1>25 DEF DeadlockAbortsCancel, AbortCancel
  <1>26. ASSUME NEW c \in Contact, NEW kind \in DOMAIN StatusOf, Webhook(c, kind) PROVE
     OneRecordedCopy'
    BY <1>26 DEF Webhook, StatusOf
  <1>27. ASSUME NEW c \in Contact, Unsubscribe(c) PROVE OneRecordedCopy'
    BY <1>27 DEF Unsubscribe
  <1>28. ASSUME NEW c \in Contact, ContactChanges(c) PROVE OneRecordedCopy'
    BY <1>28 DEF ContactChanges
  <1>29. CASE UNCHANGED vars
    BY <1>29 DEF vars
  <1> HIDE DEF TypeOK, LocksHeld, OneRecordedCopy
  <1> QED
    BY <1>1, <1>2, <1>3, <1>4, <1>5, <1>6, <1>7, <1>8, <1>9, <1>10, <1>11, <1>12, <1>13,
       <1>14, <1>15, <1>16, <1>17, <1>18, <1>19, <1>20, <1>21, <1>22, <1>23, <1>24,
       <1>25, <1>26, <1>27, <1>28, <1>29
       DEF Next, Queueing, EditForm, Cancel, GetCampaign, Answer, Refresh

\* No count gets ahead of the records.
LEMMA CountsOldStep ==
  TypeOK /\ LocksHeld /\ RecordsAgree /\ CountsAreOld /\ [Next]_vars => CountsAreOld'
  <1> SUFFICES ASSUME TypeOK, LocksHeld, RecordsAgree, CountsAreOld, [Next]_vars PROVE
     CountsAreOld'
    OBVIOUS
  <1> USE CampaignAssumption DEF TypeOK, FormData, CountsAreOld, SentCountIsHonest,
     campaignVars, recipientVars, taskVars, workerVars, sesVars
  <1>1. ASSUME NEW candidates \in SUBSET Contact, NEW size \in BatchSizes,
     QueueCampaign(candidates, size) PROVE CountsAreOld'
    <2>1. \A c \in Contact : Snapshot(candidates)[c] = "sent" => c \in recorded
      BY DEF Snapshot, RecordsAgree
    <2>2. SentIn(Snapshot(candidates)) <= Cardinality(recorded)
      BY <2>1, SentAreRecorded
    <2> QED
      BY <1>1, <2>2 DEF QueueCampaign
  <1>2. ASSUME NEW b \in hooks, EnqueueBatch(b) PROVE CountsAreOld'
    BY <1>2 DEF EnqueueBatch
  <1>3. ASSUME LoseHooks PROVE CountsAreOld'
    BY <1>3 DEF LoseHooks
  <1>4. ASSUME OpenForm PROVE CountsAreOld'
    BY <1>4 DEF OpenForm
  <1>5. ASSUME SaveForm PROVE CountsAreOld'
    BY <1>5 DEF SaveForm
  <1>6. ASSUME RejectForm PROVE CountsAreOld'
    BY <1>6 DEF RejectForm
  <1>7. ASSUME CancelDraft PROVE CountsAreOld'
    BY <1>7 DEF CancelDraft
  <1>8. ASSUME BeginCancel PROVE CountsAreOld'
    BY <1>8 DEF BeginCancel
  <1>9. ASSUME CommitCancel PROVE CountsAreOld'
    BY <1>9 DEF CommitCancel
  <1>10. ASSUME AbortCancel PROVE CountsAreOld'
    BY <1>10 DEF AbortCancel
  <1>11. ASSUME NEW w \in Worker, NEW b \in batches, TakeBatch(w, b) PROVE CountsAreOld'
    BY <1>11 DEF TakeBatch
  <1>12. ASSUME NEW w \in Worker, NEW c \in Contact, LockRow(w, c) PROVE CountsAreOld'
    BY <1>12 DEF LockRow
  <1>13. ASSUME NEW w \in Worker, SkipSettled(w) PROVE CountsAreOld'
    BY <1>13 DEF SkipSettled, NextRecipient
  <1>14. ASSUME NEW w \in Worker, SkipCancelled(w) PROVE CountsAreOld'
    BY <1>14 DEF SkipCancelled, NextRecipient
  <1>15. ASSUME NEW w \in Worker, BeginSend(w) PROVE CountsAreOld'
    BY <1>15 DEF BeginSend, WorkerTo
  <1>16. ASSUME NEW w \in Worker, SesAccepts(w) PROVE CountsAreOld'
    BY <1>16 DEF SesAccepts, WorkerTo
  <1>17. ASSUME NEW w \in Worker, SesRefuses(w) PROVE CountsAreOld'
    BY <1>17 DEF SesRefuses, NextRecipient
  <1>18. ASSUME NEW w \in Worker, SesUncertain(w) PROVE CountsAreOld'
    BY <1>18, RecordedType DEF SesUncertain, WorkerDone, WorkerTo
  <1>19. ASSUME NEW w \in Worker, CommitSent(w) PROVE CountsAreOld'
    <2>1. /\ recorded \in SUBSET Contact /\ recorded' = recorded \cup {cur[w]}
          /\ recorded' \in SUBSET Contact /\ recorded \in SUBSET recorded'
      BY <1>19 DEF CommitSent, LocksHeld, Locking, Holding
    <2>2. /\ Cardinality(recorded) \in Nat /\ Cardinality(recorded') \in Nat
          /\ Cardinality(recorded) <= Cardinality(recorded')
      BY <2>1, RecordedType, FS_Subset
    <2>3. UNCHANGED <<sentCount, count, form>>
      BY <1>19 DEF CommitSent, NextRecipient
    <2> QED
      BY <2>2, <2>3
  <1>20. ASSUME NEW w \in Worker, CountSent(w) PROVE CountsAreOld'
    <2>1. SentIn(recipient) <= Cardinality(recorded)
      BY SentAreRecorded DEF RecordsAgree
    <2> QED
      BY <1>20, <2>1 DEF CountSent
  <1>21. ASSUME NEW w \in Worker, CheckPending(w) PROVE CountsAreOld'
    BY <1>21 DEF CheckPending
  <1>22. ASSUME NEW w \in Worker, WriteCounts(w) PROVE CountsAreOld'
    BY <1>22, RecordedType DEF WriteCounts, WorkerDone
  <1>23. ASSUME NEW w \in Worker, WorkerDies(w) PROVE CountsAreOld'
    BY <1>23, RecordedType DEF WorkerDies, WorkerDone
  <1>24. ASSUME NEW w \in Worker, DeadlockAbortsSend(w) PROVE CountsAreOld'
    BY <1>24, RecordedType DEF DeadlockAbortsSend, GivesUp, WorkerDone
  <1>25. ASSUME NEW w \in Worker, DeadlockAbortsCancel(w) PROVE CountsAreOld'
    BY <1>25 DEF DeadlockAbortsCancel, AbortCancel
  <1>26. ASSUME NEW c \in Contact, NEW kind \in DOMAIN StatusOf, Webhook(c, kind) PROVE
     CountsAreOld'
    BY <1>26 DEF Webhook, StatusOf
  <1>27. ASSUME NEW c \in Contact, Unsubscribe(c) PROVE CountsAreOld'
    BY <1>27 DEF Unsubscribe
  <1>28. ASSUME NEW c \in Contact, ContactChanges(c) PROVE CountsAreOld'
    BY <1>28 DEF ContactChanges
  <1>29. CASE UNCHANGED vars
    BY <1>29 DEF vars
  <1> HIDE DEF TypeOK, LocksHeld, RecordsAgree, CountsAreOld
  <1> QED
    BY <1>1, <1>2, <1>3, <1>4, <1>5, <1>6, <1>7, <1>8, <1>9, <1>10, <1>11, <1>12, <1>13,
       <1>14, <1>15, <1>16, <1>17, <1>18, <1>19, <1>20, <1>21, <1>22, <1>23, <1>24,
       <1>25, <1>26, <1>27, <1>28, <1>29
       DEF Next, Queueing, EditForm, Cancel, GetCampaign, Answer, Refresh

\* A draft nobody has reopened stays empty.
LEMMA FreshStep == TypeOK /\ RecordsAgree /\ FreshDraft /\ [Next]_vars => FreshDraft'
  <1> SUFFICES ASSUME TypeOK, RecordsAgree, FreshDraft, [Next]_vars PROVE FreshDraft'
    OBVIOUS
  <1> USE CampaignAssumption DEF TypeOK, Batch, Holding, Locking, WorkerPhase,
     FreshDraft, campaignVars, recipientVars, taskVars, workerVars, sesVars
  <1>1. ASSUME NEW candidates \in SUBSET Contact, NEW size \in BatchSizes,
     QueueCampaign(candidates, size) PROVE FreshDraft'
    BY <1>1 DEF QueueCampaign
  <1>2. ASSUME NEW b \in hooks, EnqueueBatch(b) PROVE FreshDraft'
    BY <1>2 DEF EnqueueBatch
  <1>3. ASSUME LoseHooks PROVE FreshDraft'
    BY <1>3 DEF LoseHooks
  <1>4. ASSUME OpenForm PROVE FreshDraft'
    BY <1>4 DEF OpenForm
  <1>5. ASSUME SaveForm PROVE FreshDraft'
    BY <1>5 DEF SaveForm
  <1>6. ASSUME RejectForm PROVE FreshDraft'
    BY <1>6 DEF RejectForm
  <1>7. ASSUME CancelDraft PROVE FreshDraft'
    BY <1>7 DEF CancelDraft
  <1>8. ASSUME BeginCancel PROVE FreshDraft'
    BY <1>8 DEF BeginCancel
  <1>9. ASSUME CommitCancel PROVE FreshDraft'
    BY <1>9 DEF CommitCancel
  <1>10. ASSUME AbortCancel PROVE FreshDraft'
    BY <1>10 DEF AbortCancel
  <1>11. ASSUME NEW w \in Worker, NEW b \in batches, TakeBatch(w, b) PROVE FreshDraft'
    BY <1>11 DEF TakeBatch
  <1>12. ASSUME NEW w \in Worker, NEW c \in Contact, LockRow(w, c) PROVE FreshDraft'
    BY <1>12 DEF LockRow
  <1>13. ASSUME NEW w \in Worker, SkipSettled(w) PROVE FreshDraft'
    BY <1>13 DEF SkipSettled, NextRecipient
  <1>14. ASSUME NEW w \in Worker, SkipCancelled(w) PROVE FreshDraft'
    BY <1>14 DEF SkipCancelled, NextRecipient
  <1>15. ASSUME NEW w \in Worker, BeginSend(w) PROVE FreshDraft'
    BY <1>15 DEF BeginSend, WorkerTo
  <1>16. ASSUME NEW w \in Worker, SesAccepts(w) PROVE FreshDraft'
    BY <1>16 DEF SesAccepts, WorkerTo
  <1>17. ASSUME NEW w \in Worker, SesRefuses(w) PROVE FreshDraft'
    BY <1>17 DEF SesRefuses, NextRecipient
  <1>18. ASSUME NEW w \in Worker, SesUncertain(w) PROVE FreshDraft'
    BY <1>18 DEF SesUncertain, WorkerDone, WorkerTo
  <1>19. ASSUME NEW w \in Worker, CommitSent(w) PROVE FreshDraft'
    BY <1>19 DEF CommitSent, NextRecipient
  <1>20. ASSUME NEW w \in Worker, CountSent(w) PROVE FreshDraft'
    BY <1>20 DEF CountSent
  <1>21. ASSUME NEW w \in Worker, CheckPending(w) PROVE FreshDraft'
    BY <1>21 DEF CheckPending
  <1>22. ASSUME NEW w \in Worker, WriteCounts(w) PROVE FreshDraft'
    BY <1>22 DEF WriteCounts, WorkerDone
  <1>23. ASSUME NEW w \in Worker, WorkerDies(w) PROVE FreshDraft'
    BY <1>23 DEF WorkerDies, WorkerDone
  <1>24. ASSUME NEW w \in Worker, DeadlockAbortsSend(w) PROVE FreshDraft'
    BY <1>24 DEF DeadlockAbortsSend, GivesUp, WorkerDone
  <1>25. ASSUME NEW w \in Worker, DeadlockAbortsCancel(w) PROVE FreshDraft'
    BY <1>25 DEF DeadlockAbortsCancel, AbortCancel
  <1>26. ASSUME NEW c \in Contact, NEW kind \in DOMAIN StatusOf, Webhook(c, kind) PROVE
     FreshDraft'
    BY <1>26 DEF Webhook, StatusOf, RecordsAgree
  <1>27. ASSUME NEW c \in Contact, Unsubscribe(c) PROVE FreshDraft'
    BY <1>27 DEF Unsubscribe, RecordsAgree
  <1>28. ASSUME NEW c \in Contact, ContactChanges(c) PROVE FreshDraft'
    BY <1>28 DEF ContactChanges
  <1>29. CASE UNCHANGED vars
    BY <1>29 DEF vars
  <1> HIDE DEF TypeOK, RecordsAgree, FreshDraft
  <1> QED
    BY <1>1, <1>2, <1>3, <1>4, <1>5, <1>6, <1>7, <1>8, <1>9, <1>10, <1>11, <1>12, <1>13,
       <1>14, <1>15, <1>16, <1>17, <1>18, <1>19, <1>20, <1>21, <1>22, <1>23, <1>24,
       <1>25, <1>26, <1>27, <1>28, <1>29
       DEF Next, Queueing, EditForm, Cancel, GetCampaign, Answer, Refresh

\* Nobody becomes pending while a worker is about to say so.
LEMMA PendingStep ==
  TypeOK /\ FreshDraft /\ NobodyPending /\ [Next]_vars => NobodyPending'
  <1> SUFFICES ASSUME TypeOK, FreshDraft, NobodyPending, [Next]_vars PROVE
     NobodyPending'
    OBVIOUS
  <1> USE CampaignAssumption DEF TypeOK, WorkerPhase, Holding, Locking, NobodyPending,
     FreshDraft, With, campaignVars, recipientVars, taskVars, workerVars, sesVars
  <1>1. ASSUME NEW candidates \in SUBSET Contact, NEW size \in BatchSizes,
     QueueCampaign(candidates, size) PROVE NobodyPending'
    BY <1>1 DEF QueueCampaign
  <1>2. ASSUME NEW b \in hooks, EnqueueBatch(b) PROVE NobodyPending'
    BY <1>2 DEF EnqueueBatch
  <1>3. ASSUME LoseHooks PROVE NobodyPending'
    BY <1>3 DEF LoseHooks
  <1>4. ASSUME OpenForm PROVE NobodyPending'
    BY <1>4 DEF OpenForm
  <1>5. ASSUME SaveForm PROVE NobodyPending'
    BY <1>5 DEF SaveForm
  <1>6. ASSUME RejectForm PROVE NobodyPending'
    BY <1>6 DEF RejectForm
  <1>7. ASSUME CancelDraft PROVE NobodyPending'
    BY <1>7 DEF CancelDraft
  <1>8. ASSUME BeginCancel PROVE NobodyPending'
    BY <1>8 DEF BeginCancel
  <1>9. ASSUME CommitCancel PROVE NobodyPending'
    BY <1>9 DEF CommitCancel
  <1>10. ASSUME AbortCancel PROVE NobodyPending'
    BY <1>10 DEF AbortCancel
  <1>11. ASSUME NEW w \in Worker, NEW b \in batches, TakeBatch(w, b) PROVE
     NobodyPending'
    BY <1>11 DEF TakeBatch
  <1>12. ASSUME NEW w \in Worker, NEW c \in Contact, LockRow(w, c) PROVE NobodyPending'
    BY <1>12 DEF LockRow
  <1>13. ASSUME NEW w \in Worker, SkipSettled(w) PROVE NobodyPending'
    BY <1>13 DEF SkipSettled, NextRecipient
  <1>14. ASSUME NEW w \in Worker, SkipCancelled(w) PROVE NobodyPending'
    BY <1>14 DEF SkipCancelled, NextRecipient
  <1>15. ASSUME NEW w \in Worker, BeginSend(w) PROVE NobodyPending'
    BY <1>15 DEF BeginSend, WorkerTo
  <1>16. ASSUME NEW w \in Worker, SesAccepts(w) PROVE NobodyPending'
    BY <1>16 DEF SesAccepts, WorkerTo
  <1>17. ASSUME NEW w \in Worker, SesRefuses(w) PROVE NobodyPending'
    BY <1>17 DEF SesRefuses, NextRecipient
  <1>18. ASSUME NEW w \in Worker, SesUncertain(w) PROVE NobodyPending'
    BY <1>18 DEF SesUncertain, WorkerDone, WorkerTo
  <1>19. ASSUME NEW w \in Worker, CommitSent(w) PROVE NobodyPending'
    BY <1>19 DEF CommitSent, NextRecipient
  <1>20. ASSUME NEW w \in Worker, CountSent(w) PROVE NobodyPending'
    BY <1>20 DEF CountSent
  <1>21. ASSUME NEW w \in Worker, CheckPending(w) PROVE NobodyPending'
    BY <1>21 DEF CheckPending, PendingExists
  <1>22. ASSUME NEW w \in Worker, WriteCounts(w) PROVE NobodyPending'
    BY <1>22 DEF WriteCounts, WorkerDone
  <1>23. ASSUME NEW w \in Worker, WorkerDies(w) PROVE NobodyPending'
    BY <1>23 DEF WorkerDies, WorkerDone
  <1>24. ASSUME NEW w \in Worker, DeadlockAbortsSend(w) PROVE NobodyPending'
    BY <1>24 DEF DeadlockAbortsSend, GivesUp, WorkerDone
  <1>25. ASSUME NEW w \in Worker, DeadlockAbortsCancel(w) PROVE NobodyPending'
    BY <1>25 DEF DeadlockAbortsCancel, AbortCancel
  <1>26. ASSUME NEW c \in Contact, NEW kind \in DOMAIN StatusOf, Webhook(c, kind) PROVE
     NobodyPending'
    BY <1>26 DEF Webhook, StatusOf
  <1>27. ASSUME NEW c \in Contact, Unsubscribe(c) PROVE NobodyPending'
    BY <1>27 DEF Unsubscribe
  <1>28. ASSUME NEW c \in Contact, ContactChanges(c) PROVE NobodyPending'
    BY <1>28 DEF ContactChanges
  <1>29. CASE UNCHANGED vars
    BY <1>29 DEF vars
  <1> HIDE DEF TypeOK, FreshDraft, NobodyPending
  <1> QED
    BY <1>1, <1>2, <1>3, <1>4, <1>5, <1>6, <1>7, <1>8, <1>9, <1>10, <1>11, <1>12, <1>13,
       <1>14, <1>15, <1>16, <1>17, <1>18, <1>19, <1>20, <1>21, <1>22, <1>23, <1>24,
       <1>25, <1>26, <1>27, <1>28, <1>29
       DEF Next, Queueing, EditForm, Cancel, GetCampaign, Answer, Refresh

\* The counters follow the recipients.
LEMMA AgreeStep ==
  TypeOK /\ LocksHeld /\ RecordsAgree /\ FreshDraft /\ CountsAgree /\ [Next]_vars => CountsAgree'
  <1> SUFFICES ASSUME TypeOK, LocksHeld, RecordsAgree, FreshDraft, CountsAgree,
     [Next]_vars PROVE CountsAgree'
    OBVIOUS
  <1> USE CampaignAssumption DEF TypeOK, RecipientStatus, CountsAgree, FreshDraft,
     campaignVars, recipientVars, taskVars, workerVars, sesVars
  <1>1. ASSUME NEW candidates \in SUBSET Contact, NEW size \in BatchSizes,
     QueueCampaign(candidates, size) PROVE CountsAgree'
    BY <1>1 DEF QueueCampaign
  <1>2. ASSUME NEW b \in hooks, EnqueueBatch(b) PROVE CountsAgree'
    BY <1>2 DEF EnqueueBatch
  <1>3. ASSUME LoseHooks PROVE CountsAgree'
    BY <1>3 DEF LoseHooks
  <1>4. ASSUME OpenForm PROVE CountsAgree'
    BY <1>4 DEF OpenForm
  <1>5. ASSUME SaveForm PROVE CountsAgree'
    <2>1. SUFFICES ASSUME ~reopened' PROVE CountsAgree'
      BY DEF CountsAgree
    <2>2. /\ recipient = [c \in Contact |-> "none"]
          /\ form.recipients = 0 /\ form.skipped = 0
      BY <1>5, <2>1 DEF SaveForm
    <2>3. /\ Cardinality(With(recipient, RecipientStatus \ {"none", "skipped"})) = 0
          /\ Cardinality(With(recipient, {"skipped"})) = 0
      BY <2>2, CountNone
    <2> QED
      BY <1>5, <2>2, <2>3 DEF SaveForm
  <1>6. ASSUME RejectForm PROVE CountsAgree'
    BY <1>6 DEF RejectForm
  <1>7. ASSUME CancelDraft PROVE CountsAgree'
    <2>1. SUFFICES ASSUME ~reopened' PROVE CountsAgree'
      BY DEF CountsAgree
    <2>2. With(recipient, {"pending"}) = {}
      BY <1>7, <2>1, CountNone DEF CancelDraft
    <2> QED
      BY <1>7, <2>2 DEF CancelDraft
  <1>8. ASSUME BeginCancel PROVE CountsAgree'
    BY <1>8 DEF BeginCancel
  <1>9. ASSUME CommitCancel PROVE CountsAgree'
    <2> DEFINE kept == RecipientStatus \ {"none", "skipped"}
    <2>1. SUFFICES ASSUME ~reopened' PROVE CountsAgree'
      BY DEF CountsAgree
    <2>2. /\ recipientCount = Cardinality(With(recipient, kept))
          /\ skippedCount = Cardinality(With(recipient, {"skipped"}))
      BY <1>9, <2>1 DEF CommitCancel
    <2>3. /\ With(recipient, kept) = With(recipient', kept) \cup ToSkip
          /\ With(recipient', kept) \cap ToSkip = {}
          /\ With(recipient', {"skipped"}) = With(recipient, {"skipped"}) \cup ToSkip
          /\ With(recipient, {"skipped"}) \cap ToSkip = {}
          /\ With(recipient', {"pending"}) = {}
      BY <1>9 DEF CommitCancel, ToSkip, With
    <2>4. IsFiniteSet(ToSkip) /\ Cardinality(ToSkip) \in Nat
      BY CountType DEF ToSkip
    <2>5. Cardinality(With(recipient, kept))
            = Cardinality(With(recipient', kept)) + Cardinality(ToSkip)
      BY <2>3, <2>4, CountType, DisjointCount
    <2>6. Cardinality(With(recipient', {"skipped"}))
            = Cardinality(With(recipient, {"skipped"})) + Cardinality(ToSkip)
      BY <2>3, <2>4, CountType, DisjointCount
    <2>7. /\ Cardinality(With(recipient', kept)) \in Nat
          /\ Cardinality(With(recipient, kept)) \in Nat
      BY CountType
    <2> HIDE DEF kept
    <2>8. recipientCount' = Cardinality(With(recipient', kept))
      BY <1>9, <2>2, <2>4, <2>5, <2>7 DEF CommitCancel, CountWithout
    <2>9. skippedCount' = Cardinality(With(recipient', {"skipped"}))
      BY <1>9, <2>2, <2>6 DEF CommitCancel
    <2> QED
      BY <2>3, <2>8, <2>9 DEF kept
  <1>10. ASSUME AbortCancel PROVE CountsAgree'
    BY <1>10 DEF AbortCancel
  <1>11. ASSUME NEW w \in Worker, NEW b \in batches, TakeBatch(w, b) PROVE CountsAgree'
    BY <1>11 DEF TakeBatch
  <1>12. ASSUME NEW w \in Worker, NEW c \in Contact, LockRow(w, c) PROVE CountsAgree'
    BY <1>12 DEF LockRow
  <1>13. ASSUME NEW w \in Worker, SkipSettled(w) PROVE CountsAgree'
    BY <1>13 DEF SkipSettled, NextRecipient
  <1>14. ASSUME NEW w \in Worker, SkipCancelled(w) PROVE CountsAgree'
    <2>1. cur[w] \in Contact /\ recipient[cur[w]] = "pending" /\ status = "cancelled"
      BY <1>14 DEF SkipCancelled, Unsettled, Cancelled, LocksHeld, Locking
    <2>2. With(recipient, {"pending"}) # {}
      BY <2>1 DEF With
    <2> QED
      BY <1>14, <2>1, <2>2 DEF SkipCancelled
  <1>15. ASSUME NEW w \in Worker, BeginSend(w) PROVE CountsAgree'
    BY <1>15 DEF BeginSend, WorkerTo
  <1>16. ASSUME NEW w \in Worker, SesAccepts(w) PROVE CountsAgree'
    BY <1>16 DEF SesAccepts, WorkerTo
  <1>17. ASSUME NEW w \in Worker, SesRefuses(w) PROVE CountsAgree'
    <2>1. /\ cur[w] \in Contact /\ recipient[cur[w]] = "pending" /\ status # "cancelled"
      BY <1>17 DEF SesRefuses, Unsettled, LocksHeld, Locking, Holding
    <2>2. /\ With(recipient', RecipientStatus \ {"none", "skipped"})
               = With(recipient, RecipientStatus \ {"none", "skipped"})
          /\ With(recipient', {"skipped"}) = With(recipient, {"skipped"})
      BY <1>17, <2>1 DEF SesRefuses, With
    <2> QED
      BY <1>17, <2>1, <2>2 DEF SesRefuses
  <1>18. ASSUME NEW w \in Worker, SesUncertain(w) PROVE CountsAgree'
    BY <1>18 DEF SesUncertain, WorkerDone, WorkerTo
  <1>19. ASSUME NEW w \in Worker, CommitSent(w) PROVE CountsAgree'
    <2>1. /\ cur[w] \in Contact /\ recipient[cur[w]] = "pending" /\ status # "cancelled"
      BY <1>19 DEF CommitSent, Unsettled, LocksHeld, Locking, Holding
    <2>2. /\ With(recipient', RecipientStatus \ {"none", "skipped"})
               = With(recipient, RecipientStatus \ {"none", "skipped"})
          /\ With(recipient', {"skipped"}) = With(recipient, {"skipped"})
      BY <1>19, <2>1 DEF CommitSent, With
    <2> QED
      BY <1>19, <2>1, <2>2 DEF CommitSent
  <1>20. ASSUME NEW w \in Worker, CountSent(w) PROVE CountsAgree'
    BY <1>20 DEF CountSent
  <1>21. ASSUME NEW w \in Worker, CheckPending(w) PROVE CountsAgree'
    BY <1>21 DEF CheckPending
  <1>22. ASSUME NEW w \in Worker, WriteCounts(w) PROVE CountsAgree'
    BY <1>22 DEF WriteCounts, WorkerDone
  <1>23. ASSUME NEW w \in Worker, WorkerDies(w) PROVE CountsAgree'
    BY <1>23 DEF WorkerDies, WorkerDone
  <1>24. ASSUME NEW w \in Worker, DeadlockAbortsSend(w) PROVE CountsAgree'
    BY <1>24 DEF DeadlockAbortsSend, GivesUp, WorkerDone
  <1>25. ASSUME NEW w \in Worker, DeadlockAbortsCancel(w) PROVE CountsAgree'
    BY <1>25 DEF DeadlockAbortsCancel, AbortCancel
  <1>26. ASSUME NEW c \in Contact, NEW kind \in DOMAIN StatusOf, Webhook(c, kind) PROVE
     CountsAgree'
    <2>1. recipient[c] \notin {"none", "pending", "skipped"}
      BY <1>26 DEF Webhook, RecordsAgree
    <2>2. /\ With(recipient', RecipientStatus \ {"none", "skipped"})
               = With(recipient, RecipientStatus \ {"none", "skipped"})
          /\ With(recipient', {"skipped"}) = With(recipient, {"skipped"})
          /\ With(recipient', {"pending"}) = With(recipient, {"pending"})
      BY <1>26, <2>1 DEF Webhook, StatusOf, With
    <2> QED
      BY <1>26, <2>2 DEF Webhook
  <1>27. ASSUME NEW c \in Contact, Unsubscribe(c) PROVE CountsAgree'
    <2>1. recipient[c] \notin {"none", "pending", "skipped"}
      BY <1>27 DEF Unsubscribe, RecordsAgree
    <2>2. /\ With(recipient', RecipientStatus \ {"none", "skipped"})
               = With(recipient, RecipientStatus \ {"none", "skipped"})
          /\ With(recipient', {"skipped"}) = With(recipient, {"skipped"})
          /\ With(recipient', {"pending"}) = With(recipient, {"pending"})
      BY <1>27, <2>1 DEF Unsubscribe, With
    <2> QED
      BY <1>27, <2>2 DEF Unsubscribe
  <1>28. ASSUME NEW c \in Contact, ContactChanges(c) PROVE CountsAgree'
    BY <1>28 DEF ContactChanges
  <1>29. CASE UNCHANGED vars
    BY <1>29 DEF vars
  <1> HIDE DEF TypeOK, LocksHeld, RecordsAgree, FreshDraft, CountsAgree
  <1> QED
    BY <1>1, <1>2, <1>3, <1>4, <1>5, <1>6, <1>7, <1>8, <1>9, <1>10, <1>11, <1>12, <1>13,
       <1>14, <1>15, <1>16, <1>17, <1>18, <1>19, <1>20, <1>21, <1>22, <1>23, <1>24,
       <1>25, <1>26, <1>27, <1>28, <1>29
       DEF Next, Queueing, EditForm, Cancel, GetCampaign, Answer, Refresh

\* sent_at is only set when nobody is pending.
LEMMA CompletedStep ==
  TypeOK /\ FreshDraft /\ CountsAreOld /\ NobodyPending /\ CompletedMeansDone /\ [Next]_vars => CompletedMeansDone'
  <1> SUFFICES ASSUME TypeOK, FreshDraft, CountsAreOld, NobodyPending,
     CompletedMeansDone, [Next]_vars PROVE CompletedMeansDone'
    OBVIOUS
  <1> USE CampaignAssumption DEF TypeOK, CompletedMeansDone, campaignVars,
     recipientVars, taskVars, workerVars, sesVars
  <1>1. ASSUME NEW candidates \in SUBSET Contact, NEW size \in BatchSizes,
     QueueCampaign(candidates, size) PROVE CompletedMeansDone'
    BY <1>1 DEF QueueCampaign, FreshDraft
  <1>2. ASSUME NEW b \in hooks, EnqueueBatch(b) PROVE CompletedMeansDone'
    BY <1>2 DEF EnqueueBatch
  <1>3. ASSUME LoseHooks PROVE CompletedMeansDone'
    BY <1>3 DEF LoseHooks
  <1>4. ASSUME OpenForm PROVE CompletedMeansDone'
    BY <1>4 DEF OpenForm
  <1>5. ASSUME SaveForm PROVE CompletedMeansDone'
    BY <1>5 DEF SaveForm, FreshDraft
  <1>6. ASSUME RejectForm PROVE CompletedMeansDone'
    BY <1>6 DEF RejectForm
  <1>7. ASSUME CancelDraft PROVE CompletedMeansDone'
    BY <1>7 DEF CancelDraft
  <1>8. ASSUME BeginCancel PROVE CompletedMeansDone'
    BY <1>8 DEF BeginCancel
  <1>9. ASSUME CommitCancel PROVE CompletedMeansDone'
    <2>1. With(recipient', {"pending"}) \subseteq With(recipient, {"pending"})
      BY <1>9 DEF CommitCancel, With
    <2>2. recorded \subseteq recorded' /\ UNCHANGED <<completed, reopened>>
      BY <1>9 DEF CommitCancel
    <2> QED
      BY <2>1, <2>2
  <1>10. ASSUME AbortCancel PROVE CompletedMeansDone'
    BY <1>10 DEF AbortCancel
  <1>11. ASSUME NEW w \in Worker, NEW b \in batches, TakeBatch(w, b) PROVE
     CompletedMeansDone'
    BY <1>11 DEF TakeBatch
  <1>12. ASSUME NEW w \in Worker, NEW c \in Contact, LockRow(w, c) PROVE
     CompletedMeansDone'
    BY <1>12 DEF LockRow
  <1>13. ASSUME NEW w \in Worker, SkipSettled(w) PROVE CompletedMeansDone'
    BY <1>13 DEF SkipSettled, NextRecipient
  <1>14. ASSUME NEW w \in Worker, SkipCancelled(w) PROVE CompletedMeansDone'
    <2>1. With(recipient', {"pending"}) \subseteq With(recipient, {"pending"})
      BY <1>14 DEF SkipCancelled, With
    <2>2. recorded \subseteq recorded' /\ UNCHANGED <<completed, reopened>>
      BY <1>14 DEF SkipCancelled
    <2> QED
      BY <2>1, <2>2
  <1>15. ASSUME NEW w \in Worker, BeginSend(w) PROVE CompletedMeansDone'
    BY <1>15 DEF BeginSend, WorkerTo
  <1>16. ASSUME NEW w \in Worker, SesAccepts(w) PROVE CompletedMeansDone'
    BY <1>16 DEF SesAccepts, WorkerTo
  <1>17. ASSUME NEW w \in Worker, SesRefuses(w) PROVE CompletedMeansDone'
    <2>1. With(recipient', {"pending"}) \subseteq With(recipient, {"pending"})
      BY <1>17 DEF SesRefuses, With
    <2>2. recorded \subseteq recorded' /\ UNCHANGED <<completed, reopened>>
      BY <1>17 DEF SesRefuses
    <2> QED
      BY <2>1, <2>2
  <1>18. ASSUME NEW w \in Worker, SesUncertain(w) PROVE CompletedMeansDone'
    BY <1>18 DEF SesUncertain, WorkerDone, WorkerTo
  <1>19. ASSUME NEW w \in Worker, CommitSent(w) PROVE CompletedMeansDone'
    <2>1. With(recipient', {"pending"}) \subseteq With(recipient, {"pending"})
      BY <1>19 DEF CommitSent, With
    <2>2. recorded \subseteq recorded' /\ UNCHANGED <<completed, reopened>>
      BY <1>19 DEF CommitSent
    <2> QED
      BY <2>1, <2>2
  <1>20. ASSUME NEW w \in Worker, CountSent(w) PROVE CompletedMeansDone'
    BY <1>20 DEF CountSent
  <1>21. ASSUME NEW w \in Worker, CheckPending(w) PROVE CompletedMeansDone'
    BY <1>21 DEF CheckPending
  <1>22. ASSUME NEW w \in Worker, WriteCounts(w) PROVE CompletedMeansDone'
    <2>1. CASE completed \/ ~completed'
      BY <1>22, <2>1 DEF WriteCounts
    <2>2. CASE count[w] > 0 /\ ~open[w] /\ ~reopened
      <3>1. With(recipient, {"pending"}) = {}
        BY <1>22, <2>2 DEF WriteCounts, NobodyPending
      <3>2. Cardinality(recorded) > 0
        BY <2>2, RecordedType DEF CountsAreOld, SentCountIsHonest
      <3>3. recorded # {}
        <4>1. SUFFICES ASSUME recorded = {} PROVE FALSE
          OBVIOUS
        <4>2. Cardinality(recorded) = 0
          BY <4>1, FS_EmptySet, Zenon
        <4> QED
          BY <3>2, <4>2
      <3> QED
        BY <1>22, <3>1, <3>3 DEF WriteCounts
    <2>3. CASE reopened
      BY <1>22, <2>3 DEF WriteCounts
    <2> QED
      BY <1>22, <2>1, <2>2, <2>3 DEF WriteCounts
  <1>23. ASSUME NEW w \in Worker, WorkerDies(w) PROVE CompletedMeansDone'
    BY <1>23 DEF WorkerDies, WorkerDone
  <1>24. ASSUME NEW w \in Worker, DeadlockAbortsSend(w) PROVE CompletedMeansDone'
    BY <1>24 DEF DeadlockAbortsSend, GivesUp, WorkerDone
  <1>25. ASSUME NEW w \in Worker, DeadlockAbortsCancel(w) PROVE CompletedMeansDone'
    BY <1>25 DEF DeadlockAbortsCancel, AbortCancel
  <1>26. ASSUME NEW c \in Contact, NEW kind \in DOMAIN StatusOf, Webhook(c, kind) PROVE
     CompletedMeansDone'
    <2>1. With(recipient', {"pending"}) \subseteq With(recipient, {"pending"})
      BY <1>26 DEF Webhook, With, StatusOf
    <2>2. recorded \subseteq recorded' /\ UNCHANGED <<completed, reopened>>
      BY <1>26 DEF Webhook
    <2> QED
      BY <2>1, <2>2
  <1>27. ASSUME NEW c \in Contact, Unsubscribe(c) PROVE CompletedMeansDone'
    <2>1. With(recipient', {"pending"}) \subseteq With(recipient, {"pending"})
      BY <1>27 DEF Unsubscribe, With
    <2>2. recorded \subseteq recorded' /\ UNCHANGED <<completed, reopened>>
      BY <1>27 DEF Unsubscribe
    <2> QED
      BY <2>1, <2>2
  <1>28. ASSUME NEW c \in Contact, ContactChanges(c) PROVE CompletedMeansDone'
    BY <1>28 DEF ContactChanges
  <1>29. CASE UNCHANGED vars
    BY <1>29 DEF vars
  <1> HIDE DEF TypeOK, FreshDraft, CountsAreOld, NobodyPending, CompletedMeansDone
  <1> QED
    BY <1>1, <1>2, <1>3, <1>4, <1>5, <1>6, <1>7, <1>8, <1>9, <1>10, <1>11, <1>12, <1>13,
       <1>14, <1>15, <1>16, <1>17, <1>18, <1>19, <1>20, <1>21, <1>22, <1>23, <1>24,
       <1>25, <1>26, <1>27, <1>28, <1>29
       DEF Next, Queueing, EditForm, Cancel, GetCampaign, Answer, Refresh

-----------------------------------------------------------------------------
(* The theorems.                                                           *)

\* The inductive invariant holds when the system starts.
LEMMA InitInvariant == Init => IInv
  <1> SUFFICES ASSUME Init PROVE IInv
    OBVIOUS
  <1> USE CampaignAssumption DEF Init
  <1>1. TypeOK
    <2>1. /\ accepted \in [Contact -> 0..MaxCopies] /\ lost \in [Contact -> Nat]
          /\ round \in 0..MaxRounds /\ count \in [Worker -> Nat]
      OBVIOUS
    <2>2. /\ recipient \in [Contact -> RecipientStatus]
          /\ wpc \in [Worker -> WorkerPhase]
          /\ todo \in [Worker -> SUBSET Contact]
          /\ cur \in [Worker -> Contact \cup {NoContact}]
          /\ open \in [Worker -> BOOLEAN]
      BY DEF RecipientStatus, WorkerPhase
    <2> QED
      BY <2>1, <2>2 DEF TypeOK, CampaignStatus
  <1>2. LocksHeld /\ RecordsAgree
    BY DEF LocksHeld, RecordsAgree, Locking, Holding
  <1>3. OneRecordedCopy
    BY DEF OneRecordedCopy, InFlight
  <1>4. Cardinality(recorded) = 0
    BY FS_EmptySet
  <1>5. CountsAreOld
    BY <1>4 DEF CountsAreOld, SentCountIsHonest
  <1>6. FreshDraft /\ NobodyPending
    BY DEF FreshDraft, NobodyPending
  <1>7. CountsAgree
    BY CountNone DEF CountsAgree
  <1>8. CompletedMeansDone
    BY DEF CompletedMeansDone
  <1> QED
    BY <1>1, <1>2, <1>3, <1>5, <1>6, <1>7, <1>8 DEF IInv

\* The inductive invariant of campaign sending: who holds which row, what the
\* statuses, records and counters say of one another, and what a count that
\* was read but not yet written may be.
THEOREM CampaignInvariance == Spec => []IInv
  <1>1. IInv /\ [Next]_vars => IInv'
    BY TypeStep, LocksStep, RecordsStep, CopiesStep, CountsOldStep, FreshStep,
       PendingStep, AgreeStep, CompletedStep DEF IInv
  <1> QED
    BY InitInvariant, <1>1, PTL DEF Spec

\* Every variable keeps its type.
THEOREM CampaignTypeCorrect == Spec => []TypeOK
  <1>1. IInv => TypeOK
    BY DEF IInv
  <1> QED
    BY <1>1, CampaignInvariance, PTL

\* Of all copies of a recipient's email but those whose transaction was rolled
\* back, one is recorded or about to be: overlapping batches never send twice.
THEOREM OneCopyIsRecorded == Spec => []OneRecordedCopy
  <1>1. IInv => OneRecordedCopy
    BY DEF IInv
  <1> QED
    BY <1>1, CampaignInvariance, PTL

\* Unless a stale form wrote over them, the counters agree with the rows.
THEOREM CountersAgree == Spec => []CountsAgree
  <1>1. IInv => CountsAgree
    BY DEF IInv
  <1> QED
    BY <1>1, CampaignInvariance, PTL

\* sent_count never exceeds the number of recorded sends.
THEOREM SentCountHonest == Spec => []SentCountIsHonest
  <1>1. IInv => SentCountIsHonest
    BY DEF IInv, CountsAreOld
  <1> QED
    BY <1>1, CampaignInvariance, PTL

\* sent_at is set only when nobody is pending any more.
THEOREM CompletedIsDone == Spec => []CompletedMeansDone
  <1>1. IInv => CompletedMeansDone
    BY DEF IInv
  <1> QED
    BY <1>1, CampaignInvariance, PTL

\* No step SES takes an email in starts from a cancelled campaign.
LEMMA CancelStep ==
  TypeOK /\ LocksHeld /\ [Next]_vars => (status = "cancelled" => accepted' = accepted)
  <1> SUFFICES ASSUME TypeOK, LocksHeld, [Next]_vars PROVE (status = "cancelled" =>
     accepted' = accepted)
    OBVIOUS
  <1> USE CampaignAssumption DEF LocksHeld, Holding, Locking, campaignVars,
     recipientVars, taskVars, workerVars, sesVars
  <1>1. ASSUME NEW candidates \in SUBSET Contact, NEW size \in BatchSizes,
     QueueCampaign(candidates, size) PROVE (status = "cancelled" => accepted' =
     accepted)
    BY <1>1 DEF QueueCampaign
  <1>2. ASSUME NEW b \in hooks, EnqueueBatch(b) PROVE (status = "cancelled" => accepted'
     = accepted)
    BY <1>2 DEF EnqueueBatch
  <1>3. ASSUME LoseHooks PROVE (status = "cancelled" => accepted' = accepted)
    BY <1>3 DEF LoseHooks
  <1>4. ASSUME OpenForm PROVE (status = "cancelled" => accepted' = accepted)
    BY <1>4 DEF OpenForm
  <1>5. ASSUME SaveForm PROVE (status = "cancelled" => accepted' = accepted)
    BY <1>5 DEF SaveForm
  <1>6. ASSUME RejectForm PROVE (status = "cancelled" => accepted' = accepted)
    BY <1>6 DEF RejectForm
  <1>7. ASSUME CancelDraft PROVE (status = "cancelled" => accepted' = accepted)
    BY <1>7 DEF CancelDraft
  <1>8. ASSUME BeginCancel PROVE (status = "cancelled" => accepted' = accepted)
    BY <1>8 DEF BeginCancel
  <1>9. ASSUME CommitCancel PROVE (status = "cancelled" => accepted' = accepted)
    BY <1>9 DEF CommitCancel
  <1>10. ASSUME AbortCancel PROVE (status = "cancelled" => accepted' = accepted)
    BY <1>10 DEF AbortCancel
  <1>11. ASSUME NEW w \in Worker, NEW b \in batches, TakeBatch(w, b) PROVE (status =
     "cancelled" => accepted' = accepted)
    BY <1>11 DEF TakeBatch
  <1>12. ASSUME NEW w \in Worker, NEW c \in Contact, LockRow(w, c) PROVE (status =
     "cancelled" => accepted' = accepted)
    BY <1>12 DEF LockRow
  <1>13. ASSUME NEW w \in Worker, SkipSettled(w) PROVE (status = "cancelled" =>
     accepted' = accepted)
    BY <1>13 DEF SkipSettled, NextRecipient
  <1>14. ASSUME NEW w \in Worker, SkipCancelled(w) PROVE (status = "cancelled" =>
     accepted' = accepted)
    BY <1>14 DEF SkipCancelled, NextRecipient
  <1>15. ASSUME NEW w \in Worker, BeginSend(w) PROVE (status = "cancelled" => accepted'
     = accepted)
    BY <1>15 DEF BeginSend, WorkerTo
  <1>16. ASSUME NEW w \in Worker, SesAccepts(w) PROVE (status = "cancelled" => accepted'
     = accepted)
    BY <1>16 DEF SesAccepts, WorkerTo
  <1>17. ASSUME NEW w \in Worker, SesRefuses(w) PROVE (status = "cancelled" => accepted'
     = accepted)
    BY <1>17 DEF SesRefuses, NextRecipient
  <1>18. ASSUME NEW w \in Worker, SesUncertain(w) PROVE (status = "cancelled" =>
     accepted' = accepted)
    BY <1>18 DEF SesUncertain, WorkerDone, WorkerTo
  <1>19. ASSUME NEW w \in Worker, CommitSent(w) PROVE (status = "cancelled" => accepted'
     = accepted)
    BY <1>19 DEF CommitSent, NextRecipient
  <1>20. ASSUME NEW w \in Worker, CountSent(w) PROVE (status = "cancelled" => accepted'
     = accepted)
    BY <1>20 DEF CountSent
  <1>21. ASSUME NEW w \in Worker, CheckPending(w) PROVE (status = "cancelled" =>
     accepted' = accepted)
    BY <1>21 DEF CheckPending
  <1>22. ASSUME NEW w \in Worker, WriteCounts(w) PROVE (status = "cancelled" =>
     accepted' = accepted)
    BY <1>22 DEF WriteCounts, WorkerDone
  <1>23. ASSUME NEW w \in Worker, WorkerDies(w) PROVE (status = "cancelled" => accepted'
     = accepted)
    BY <1>23 DEF WorkerDies, WorkerDone
  <1>24. ASSUME NEW w \in Worker, DeadlockAbortsSend(w) PROVE (status = "cancelled" =>
     accepted' = accepted)
    BY <1>24 DEF DeadlockAbortsSend, GivesUp, WorkerDone
  <1>25. ASSUME NEW w \in Worker, DeadlockAbortsCancel(w) PROVE (status = "cancelled" =>
     accepted' = accepted)
    BY <1>25 DEF DeadlockAbortsCancel, AbortCancel
  <1>26. ASSUME NEW c \in Contact, NEW kind \in DOMAIN StatusOf, Webhook(c, kind) PROVE
     (status = "cancelled" => accepted' = accepted)
    BY <1>26 DEF Webhook, StatusOf
  <1>27. ASSUME NEW c \in Contact, Unsubscribe(c) PROVE (status = "cancelled" =>
     accepted' = accepted)
    BY <1>27 DEF Unsubscribe
  <1>28. ASSUME NEW c \in Contact, ContactChanges(c) PROVE (status = "cancelled" =>
     accepted' = accepted)
    BY <1>28 DEF ContactChanges
  <1>29. CASE UNCHANGED vars
    BY <1>29 DEF vars
  <1> HIDE DEF TypeOK, LocksHeld
  <1> QED
    BY <1>1, <1>2, <1>3, <1>4, <1>5, <1>6, <1>7, <1>8, <1>9, <1>10, <1>11, <1>12, <1>13,
       <1>14, <1>15, <1>16, <1>17, <1>18, <1>19, <1>20, <1>21, <1>22, <1>23, <1>24,
       <1>25, <1>26, <1>27, <1>28, <1>29
       DEF Next, Queueing, EditForm, Cancel, GetCampaign, Answer, Refresh

\* Once a campaign is cancelled no email leaves.
THEOREM CancelHolds == Spec => CancelStopsSending
  <1>1. IInv /\ [Next]_vars => [status = "cancelled" => accepted' = accepted]_vars
    BY CancelStep DEF IInv
  <1> QED
    BY <1>1, CampaignInvariance, PTL DEF Spec, CancelStopsSending

\* A step of RefusedForGood.
RefusedStays ==
  \A c \in Contact : recipient[c] = "skipped" =>
    recipient'[c] = "skipped" /\ accepted'[c] = accepted[c]

\* No step rewrites a skipped recipient or sends to it.
LEMMA RefusedStep == TypeOK /\ LocksHeld /\ RecordsAgree /\ [Next]_vars => RefusedStays
  <1> SUFFICES ASSUME TypeOK, LocksHeld, RecordsAgree, [Next]_vars PROVE RefusedStays
    OBVIOUS
  <1> USE CampaignAssumption DEF RefusedStays, TypeOK, RecipientStatus, LocksHeld,
     Holding, Locking, RecordsAgree, Unsettled, campaignVars, recipientVars, taskVars,
     workerVars, sesVars
  <1>1. ASSUME NEW candidates \in SUBSET Contact, NEW size \in BatchSizes,
     QueueCampaign(candidates, size) PROVE RefusedStays
    BY <1>1 DEF QueueCampaign, Snapshot
  <1>2. ASSUME NEW b \in hooks, EnqueueBatch(b) PROVE RefusedStays
    BY <1>2 DEF EnqueueBatch
  <1>3. ASSUME LoseHooks PROVE RefusedStays
    BY <1>3 DEF LoseHooks
  <1>4. ASSUME OpenForm PROVE RefusedStays
    BY <1>4 DEF OpenForm
  <1>5. ASSUME SaveForm PROVE RefusedStays
    BY <1>5 DEF SaveForm
  <1>6. ASSUME RejectForm PROVE RefusedStays
    BY <1>6 DEF RejectForm
  <1>7. ASSUME CancelDraft PROVE RefusedStays
    BY <1>7 DEF CancelDraft
  <1>8. ASSUME BeginCancel PROVE RefusedStays
    BY <1>8 DEF BeginCancel
  <1>9. ASSUME CommitCancel PROVE RefusedStays
    BY <1>9 DEF CommitCancel
  <1>10. ASSUME AbortCancel PROVE RefusedStays
    BY <1>10 DEF AbortCancel
  <1>11. ASSUME NEW w \in Worker, NEW b \in batches, TakeBatch(w, b) PROVE RefusedStays
    BY <1>11 DEF TakeBatch
  <1>12. ASSUME NEW w \in Worker, NEW c \in Contact, LockRow(w, c) PROVE RefusedStays
    BY <1>12 DEF LockRow
  <1>13. ASSUME NEW w \in Worker, SkipSettled(w) PROVE RefusedStays
    BY <1>13 DEF SkipSettled, NextRecipient
  <1>14. ASSUME NEW w \in Worker, SkipCancelled(w) PROVE RefusedStays
    BY <1>14 DEF SkipCancelled, NextRecipient
  <1>15. ASSUME NEW w \in Worker, BeginSend(w) PROVE RefusedStays
    BY <1>15 DEF BeginSend, WorkerTo
  <1>16. ASSUME NEW w \in Worker, SesAccepts(w) PROVE RefusedStays
    BY <1>16 DEF SesAccepts, WorkerTo
  <1>17. ASSUME NEW w \in Worker, SesRefuses(w) PROVE RefusedStays
    BY <1>17 DEF SesRefuses, NextRecipient
  <1>18. ASSUME NEW w \in Worker, SesUncertain(w) PROVE RefusedStays
    BY <1>18 DEF SesUncertain, WorkerDone, WorkerTo
  <1>19. ASSUME NEW w \in Worker, CommitSent(w) PROVE RefusedStays
    BY <1>19 DEF CommitSent, NextRecipient
  <1>20. ASSUME NEW w \in Worker, CountSent(w) PROVE RefusedStays
    BY <1>20 DEF CountSent
  <1>21. ASSUME NEW w \in Worker, CheckPending(w) PROVE RefusedStays
    BY <1>21 DEF CheckPending
  <1>22. ASSUME NEW w \in Worker, WriteCounts(w) PROVE RefusedStays
    BY <1>22 DEF WriteCounts, WorkerDone
  <1>23. ASSUME NEW w \in Worker, WorkerDies(w) PROVE RefusedStays
    BY <1>23 DEF WorkerDies, WorkerDone
  <1>24. ASSUME NEW w \in Worker, DeadlockAbortsSend(w) PROVE RefusedStays
    BY <1>24 DEF DeadlockAbortsSend, GivesUp, WorkerDone
  <1>25. ASSUME NEW w \in Worker, DeadlockAbortsCancel(w) PROVE RefusedStays
    BY <1>25 DEF DeadlockAbortsCancel, AbortCancel
  <1>26. ASSUME NEW c \in Contact, NEW kind \in DOMAIN StatusOf, Webhook(c, kind) PROVE
     RefusedStays
    BY <1>26 DEF Webhook, StatusOf
  <1>27. ASSUME NEW c \in Contact, Unsubscribe(c) PROVE RefusedStays
    BY <1>27 DEF Unsubscribe
  <1>28. ASSUME NEW c \in Contact, ContactChanges(c) PROVE RefusedStays
    BY <1>28 DEF ContactChanges
  <1>29. CASE UNCHANGED vars
    BY <1>29 DEF vars
  <1> HIDE DEF TypeOK, LocksHeld, RecordsAgree, RefusedStays
  <1> QED
    BY <1>1, <1>2, <1>3, <1>4, <1>5, <1>6, <1>7, <1>8, <1>9, <1>10, <1>11, <1>12, <1>13,
       <1>14, <1>15, <1>16, <1>17, <1>18, <1>19, <1>20, <1>21, <1>22, <1>23, <1>24,
       <1>25, <1>26, <1>27, <1>28, <1>29
       DEF Next, Queueing, EditForm, Cancel, GetCampaign, Answer, Refresh

\* A recipient refused at the snapshot stays refused and is never sent to.
THEOREM RefusedHolds == Spec => RefusedForGood
  <1>1. IInv /\ [Next]_vars => [RefusedStays]_vars
    BY RefusedStep DEF IInv
  <1> QED
    BY <1>1, CampaignInvariance, PTL DEF Spec, RefusedForGood, RefusedStays

-----------------------------------------------------------------------------
(* The promise to each recipient.                                          *)

Phases == [c \in Contact |-> PhaseOf(c)]
Copies == [c \in Contact |-> Departed(c)]

\* The copies that left are those that are recorded, and those that were lost.
Known(c) == lost[c] + (IF c \in recorded THEN 1 ELSE 0)
KnownDeparted == \A c \in Contact : Departed(c) = Known(c)

\* A recipient whose copy is on its way is not recorded (LocksHeld), and all
\* copies but that one are accounted for (OneRecordedCopy).
LEMMA DepartedIsKnown == IInv => KnownDeparted
  <1> SUFFICES ASSUME IInv, NEW c \in Contact PROVE Departed(c) = Known(c)
    BY DEF KnownDeparted
  <1>1. /\ lost[c] \in Nat
        /\ accepted[c] = lost[c] + (IF c \in recorded \/ InFlight(c) THEN 1 ELSE 0)
    BY DEF IInv, TypeOK, OneRecordedCopy
  <1>2. InFlight(c) => c \notin recorded
    BY DEF IInv, LocksHeld, Holding, InFlight, Unsettled
  <1> QED
    BY <1>1, <1>2 DEF Departed, Known

\* The steps that the promise does not see.
LEMMA UnseenStep ==
  ASSUME [Next]_vars
  PROVE  \/ UNCHANGED <<recipient, recorded, lost>>
         \/ \E candidates \in SUBSET Contact, size \in BatchSizes :
              QueueCampaign(candidates, size)
         \/ CommitCancel
         \/ \E w \in Worker : \/ SkipCancelled(w) \/ SesRefuses(w)
                              \/ CommitSent(w) \/ SesUncertain(w) \/ WorkerDies(w)
         \/ \E c \in Contact : \/ \E kind \in DOMAIN StatusOf : Webhook(c, kind)
                               \/ Unsubscribe(c)
  <1> DEFINE Unseen == UNCHANGED <<recipient, recorded, lost>>
  <1> USE DEF recipientVars, sesVars
  <1>1. ASSUME NEW b \in hooks, EnqueueBatch(b) PROVE Unseen
    BY <1>1 DEF EnqueueBatch
  <1>2. ASSUME LoseHooks PROVE Unseen
    BY <1>2 DEF LoseHooks
  <1>3. ASSUME EditForm PROVE Unseen
    BY <1>3 DEF EditForm, OpenForm, SaveForm, RejectForm
  <1>4. ASSUME CancelDraft \/ BeginCancel \/ AbortCancel PROVE Unseen
    BY <1>4 DEF CancelDraft, BeginCancel, AbortCancel
  <1>5. ASSUME NEW w \in Worker, NEW b \in batches, TakeBatch(w, b) PROVE Unseen
    BY <1>5 DEF TakeBatch
  <1>6. ASSUME NEW w \in Worker, NEW c \in Contact, LockRow(w, c) PROVE Unseen
    BY <1>6 DEF LockRow
  <1>7. ASSUME NEW w \in Worker, SkipSettled(w) \/ BeginSend(w) \/ SesAccepts(w) PROVE Unseen
    BY <1>7 DEF SkipSettled, BeginSend, SesAccepts
  <1>8. ASSUME NEW w \in Worker, Refresh(w) \/ WriteCounts(w) PROVE Unseen
    BY <1>8 DEF Refresh, CountSent, CheckPending, WriteCounts
  <1>9. ASSUME NEW w \in Worker, DeadlockAbortsSend(w) \/ DeadlockAbortsCancel(w) PROVE Unseen
    BY <1>9 DEF DeadlockAbortsSend, GivesUp, DeadlockAbortsCancel, AbortCancel
  <1>10. ASSUME NEW c \in Contact, ContactChanges(c) PROVE Unseen
    BY <1>10 DEF ContactChanges
  <1>11. CASE UNCHANGED vars
    BY <1>11 DEF vars
  <1> HIDE DEF Unseen
  <1>q. Unseen => UNCHANGED <<recipient, recorded, lost>>
    BY DEF Unseen
  <1> QED
    BY <1>1, <1>2, <1>3, <1>4, <1>5, <1>6, <1>7, <1>8, <1>9, <1>10, <1>11, <1>q
       DEF Next, Queueing, Cancel, GetCampaign, Answer

\* The fresh draft maps to the initial state of the promise.
LEMMA PromiseInit == Init => Promise!Init
  <1> SUFFICES ASSUME Init PROVE Promise!Init
    OBVIOUS
  <1>1. \A c \in Contact : PhaseOf(c) = "absent"
    BY DEF Init, PhaseOf
  <1>2. \A c \in Contact : ~ InFlight(c) /\ accepted[c] = 0
    BY DEF Init, InFlight
  <1>3. \A c \in Contact : Departed(c) = 0
    BY <1>2 DEF Departed
  <1> QED
    BY <1>1, <1>3 DEF Promise!Init

\* Every step of the campaign is a step of the promise or a stutter.
LEMMA PromiseStep ==
  ASSUME IInv, KnownDeparted, KnownDeparted', [Next]_vars
  PROVE  [Promise!Next]_<<Phases, Copies>>
  <1> DEFINE SamePhases == \A c \in Contact : PhaseOf(c)' = PhaseOf(c)
             SameCopies == \A c \in Contact : Departed(c)' = Departed(c)
  <1>1. TypeOK /\ LocksHeld /\ RecordsAgree
    BY DEF IInv
  <1>2. lost' = lost /\ recorded' = recorded => SameCopies
    BY DEF KnownDeparted, Known
  <1>3. SamePhases => Phases' = Phases
    BY DEF Phases
  <1>4. SameCopies => Copies' = Copies
    BY DEF Copies
  <1>5. \A c \in Contact : recipient[c] = "pending" => PhaseOf(c) = "open" /\ c \notin recorded
    BY <1>1 DEF RecordsAgree, PhaseOf
  <1>6. \A w \in Worker : wpc[w] \in Holding => cur[w] \in Contact /\ recipient[cur[w]] = "pending"
    BY <1>1 DEF LocksHeld, Locking, Unsettled
  <1>7. CASE UNCHANGED <<recipient, recorded, lost>>
    <2>1. SamePhases
      BY <1>7 DEF PhaseOf
    <2> QED
      BY <1>2, <1>3, <1>4, <1>7, <2>1
  <1>8. ASSUME NEW candidates \in SUBSET Contact, NEW size \in BatchSizes,
               QueueCampaign(candidates, size)
        PROVE  Promise!Accept
    <2> DEFINE new    == {c \in candidates : recipient[c] = "none"}
               opened == new \ barred
               refused == new \cap barred
    <2>1. /\ recipient' = Snapshot(candidates)
          /\ lost' = lost /\ recorded' = recorded
      BY <1>8 DEF QueueCampaign, sesVars
    <2>2. \A c \in new : c \in Contact /\ c \notin recorded /\ PhaseOf(c) = "absent"
      BY <1>1 DEF RecordsAgree, PhaseOf
    <2>3. \A c \in Contact : PhaseOf(c)' =
            IF c \in opened THEN "open" ELSE IF c \in refused THEN "refused" ELSE PhaseOf(c)
      BY <2>1, <2>2 DEF Snapshot, PhaseOf
    <2>4. /\ opened \in SUBSET Contact /\ refused \in SUBSET Contact
          /\ opened \cap refused = {}
          /\ \A c \in opened \cup refused : Phases[c] = "absent"
      BY <2>2 DEF Phases
    <2> HIDE DEF new, opened, refused
    <2>5. Phases' = [c \in Contact |->
            IF c \in opened THEN "open" ELSE IF c \in refused THEN "refused" ELSE Phases[c]]
      BY <2>3 DEF Phases
    <2>6. Copies' = Copies
      BY <1>2, <1>4, <2>1
    <2> QED
      BY <2>4, <2>5, <2>6 DEF Promise!Accept, Phases, Copies
  <1>9. ASSUME NEW given \in SUBSET Contact, NEW status1 \in {"skipped", "failed"},
               \A c \in given : recipient[c] = "pending",
               \A c \in Contact : recipient'[c] = IF c \in given THEN status1 ELSE recipient[c],
               lost' = lost, recorded' = recorded
        PROVE  Promise!Refuse(given)
    <2>1. \A c \in given : c \in Contact /\ Phases[c] = "open" /\ c \notin recorded
      BY <1>5, <1>9 DEF Phases
    <2>2. \A c \in Contact : PhaseOf(c)' = IF c \in given THEN "refused" ELSE PhaseOf(c)
      BY <1>9, <2>1 DEF PhaseOf
    <2>3. Phases' = [c \in Contact |-> IF c \in given THEN "refused" ELSE Phases[c]]
      BY <2>2 DEF Phases
    <2>4. Copies' = Copies
      BY <1>2, <1>4, <1>9
    <2> QED
      BY <2>1, <2>3, <2>4 DEF Promise!Refuse, Phases, Copies
  <1>10. ASSUME CommitCancel PROVE \E given \in SUBSET Contact : Promise!Refuse(given)
    <2>1. ToSkip \in SUBSET Contact /\ \A c \in ToSkip : recipient[c] = "pending"
      BY DEF ToSkip, With
    <2>2. /\ \A c \in Contact : recipient'[c] = IF c \in ToSkip THEN "skipped" ELSE recipient[c]
          /\ lost' = lost /\ recorded' = recorded
      BY <1>10 DEF CommitCancel, sesVars
    <2> QED
      BY <1>9, <2>1, <2>2
  <1>11. ASSUME NEW w \in Worker, SkipCancelled(w) \/ SesRefuses(w)
         PROVE  \E given \in SUBSET Contact : Promise!Refuse(given)
    <2>1. cur[w] \in Contact /\ recipient[cur[w]] = "pending"
      BY <1>1, <1>6, <1>11 DEF SkipCancelled, SesRefuses, Holding, Locking, Unsettled, LocksHeld
    <2>2. PICK s \in {"skipped", "failed"} : recipient' = [recipient EXCEPT ![cur[w]] = s]
      BY <1>11 DEF SkipCancelled, SesRefuses
    <2>3. lost' = lost /\ recorded' = recorded
      BY <1>11 DEF SkipCancelled, SesRefuses, recipientVars, sesVars
    <2>4. \A c \in Contact : recipient'[c] = IF c \in {cur[w]} THEN s ELSE recipient[c]
      BY <1>1, <2>1, <2>2 DEF TypeOK
    <2>5. {cur[w]} \in SUBSET Contact /\ \A c \in {cur[w]} : recipient[c] = "pending"
      BY <2>1
    <2> QED
      BY <1>9, <2>3, <2>4, <2>5
  <1>12. ASSUME NEW w \in Worker, CommitSent(w) PROVE \E c \in Contact : Promise!SendCopy(c)
    <2> DEFINE c == cur[w]
    <2>1. c \in Contact /\ recipient[c] = "pending"
      BY <1>6, <1>12 DEF CommitSent, Holding
    <2>2. PhaseOf(c) = "open" /\ c \notin recorded
      BY <1>5, <2>1
    <2>3. /\ recipient' = [recipient EXCEPT ![c] = "sent"]
          /\ recorded' = recorded \cup {c} /\ lost' = lost
      BY <1>12 DEF CommitSent, sesVars
    <2> HIDE DEF c
    <2>4. \A o \in Contact : recipient'[o] = IF o = c THEN "sent" ELSE recipient[o]
      BY <1>1, <2>1, <2>3 DEF TypeOK
    <2>5. \A o \in Contact : PhaseOf(o)' = IF o = c THEN "delivered" ELSE PhaseOf(o)
      BY <2>3, <2>4 DEF PhaseOf
    <2>6. \A o \in Contact : lost[o] \in Nat
      BY <1>1 DEF TypeOK
    <2>7. \A o \in Contact : Departed(o)' = IF o = c THEN Departed(o) + 1 ELSE Departed(o)
      BY <2>1, <2>2, <2>3, <2>6 DEF KnownDeparted, Known
    <2>8. /\ Phases' = [Phases EXCEPT ![c] = "delivered"]
          /\ Copies' = [Copies EXCEPT ![c] = @ + 1]
      BY <2>1, <2>5, <2>7 DEF Phases, Copies
    <2>9. Phases[c] = "open"
      BY <2>1, <2>2 DEF Phases
    <2> QED
      BY <2>1, <2>8, <2>9 DEF Promise!SendCopy, Phases, Copies
  <1>13. ASSUME NEW c \in Contact, recipient[c] = "pending",
                recipient' = recipient, recorded' = recorded,
                lost' = [lost EXCEPT ![c] = @ + 1]
         PROVE  Promise!SendCopy(c)
    <2>1. PhaseOf(c) = "open"
      BY <1>5, <1>13
    <2>2. SamePhases
      BY <1>13 DEF PhaseOf
    <2>3. \A o \in Contact : lost[o] \in Nat /\ lost'[o] = IF o = c THEN lost[o] + 1 ELSE lost[o]
      BY <1>1, <1>13 DEF TypeOK
    <2>4. \A o \in Contact : Departed(o)' = IF o = c THEN Departed(o) + 1 ELSE Departed(o)
      BY <1>13, <2>3 DEF KnownDeparted, Known
    <2>5. Copies' = [Copies EXCEPT ![c] = @ + 1]
      BY <2>4 DEF Copies
    <2>6. Phases[c] = "open" /\ Phases' = Phases
      BY <1>3, <2>1, <2>2 DEF Phases
    <2> QED
      BY <2>5, <2>6 DEF Promise!SendCopy, Phases, Copies
  <1>14. ASSUME NEW w \in Worker, SesUncertain(w) \/ WorkerDies(w)
         PROVE  \/ UNCHANGED <<recipient, recorded, lost>>
                \/ \E c \in Contact : Promise!SendCopy(c)
    <2>1. recipient' = recipient /\ recorded' = recorded
      BY <1>14 DEF SesUncertain, WorkerDies, recipientVars
    <2>2. CASE lost' = lost
      BY <2>1, <2>2
    <2>3. CASE lost' # lost
      <3>1. wpc[w] \in Holding /\ lost' = [lost EXCEPT ![cur[w]] = @ + 1]
        BY <1>14, <2>3 DEF SesUncertain, WorkerDies, sesVars, Holding
      <3> QED
        BY <1>6, <1>13, <2>1, <3>1
    <2> QED
      BY <2>2, <2>3
  <1>15. ASSUME NEW c \in Contact,
                Unsubscribe(c) \/ \E kind \in DOMAIN StatusOf : Webhook(c, kind)
         PROVE  UNCHANGED <<Phases, Copies>>
    <2>1. c \in recorded /\ recorded' = recorded /\ lost' = lost
      BY <1>15 DEF Webhook, Unsubscribe, sesVars
    <2>2. \A o \in Contact \ {c} : recipient'[o] = recipient[o]
      BY <1>1, <1>15 DEF Webhook, Unsubscribe, TypeOK
    <2>3. SamePhases
      BY <2>1, <2>2 DEF PhaseOf
    <2> QED
      BY <1>2, <1>3, <1>4, <2>1, <2>3
  <1> HIDE DEF SamePhases, SameCopies
  <1> QED
    BY UnseenStep, <1>7, <1>8, <1>10, <1>11, <1>12, <1>14, <1>15 DEF Promise!Next

\* A campaign keeps the promise of MessagePromise to each recipient.
THEOREM PromiseKept == Spec => KeepsPromise
  <1>1. IInv => KnownDeparted
    BY DepartedIsKnown
  <1>2. IInv /\ KnownDeparted /\ KnownDeparted' /\ [Next]_vars
          => [Promise!Next]_<<Phases, Copies>>
    BY PromiseStep
  <1> QED
    BY <1>1, <1>2, PromiseInit, CampaignInvariance, PTL
       DEF Spec, KeepsPromise, Promise!Spec, Phases, Copies

=============================================================================

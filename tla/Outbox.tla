------------------------------- MODULE Outbox -------------------------------
(***************************************************************************)
(* What the two outboxes of the code, CMP callbacks and Mailchimp syncs,   *)
(* have in common: rows that are pending until they are delivered or have  *)
(* failed for good, a due query that claims nothing, and dispatchers that  *)
(* work on the copies it returned.                                         *)
(***************************************************************************)
EXTENDS Naturals, FiniteSets

CONSTANTS Dispatcher,    \* processes running the dispatch command
          MaxAttempts,   \* max_attempts of a row (8 in the code)
          BatchSize      \* --batch-size

ASSUME OutboxAssumption == MaxAttempts \in Nat \ {0} /\ BatchSize \in Nat \ {0}

RowStatus == {"pending", "delivered", "failed"}

\* Mutant: gives a row up one try early.
StatusBeforeTry(n) == IF n + 1 >= MaxAttempts THEN "failed" ELSE "pending"

\* A row that was tried n times, the last time in vain.
StatusAfterTry(n) == IF n >= MaxAttempts THEN "failed" ELSE "pending"

\* The rows one run of the due query returns, in an order left open.
Batches(due) ==
    {B \in SUBSET due : B # {} /\ (B = due \/ Cardinality(B) = BatchSize)}

=============================================================================

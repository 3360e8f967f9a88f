--------------------------- MODULE RetryBudgetProofs ---------------------------
(***************************************************************************)
(* Theorems about RetryBudget, for any threshold, retry delay, backoff cap *)
(* and any number of edits and answers.                                    *)
(***************************************************************************)
EXTENDS RetryBudget, TLAPS

Typed ==
    /\ version \in Nat /\ attempts \in Nat /\ other_bucket_attempts \in Nat
    /\ others \in Nat /\ lost \in Nat
    /\ snapshot \in Snapshot
    /\ held \in BOOLEAN

\* The row the pump holds is a version the row had.
SnapshotNotAhead ==
    snapshot.version <= version

\* Its counters are the row's while the row waits unchanged: only the pump
\* writes them, and it holds one row at a time.
SnapshotFaithful ==
    held /\ current => /\ snapshot.attempts = attempts
                       /\ snapshot.other_bucket_attempts = other_bucket_attempts

\* The column counts the recorded unclassified failures of this version, and
\* the budget is not spent while the row waits.
BudgetCounts ==
    status = "pending" => /\ others = other_bucket_attempts + lost
                          /\ other_bucket_attempts < Threshold

\* A row that is not pending is not sent, and an answer that finds it so is one
\* the row's own end overtook: no call is in flight for this version.
NoAnswerAfterTheEnd ==
    status # "pending" => ~held \/ snapshot.version < version

\* The inductive invariant.
BudgetInv ==
    /\ Typed /\ SnapshotNotAhead /\ SnapshotFaithful /\ BudgetCounts /\ NoAnswerAfterTheEnd
    /\ ExhaustedOnlyByUnclassified

-----------------------------------------------------------------------------
\* It holds initially.
LEMMA BudgetInit == Init => BudgetInv
<1> SUFFICES ASSUME Init PROVE BudgetInv
  OBVIOUS
<1>1. ~held /\ held \in BOOLEAN
  BY Zenon DEF Init
<1>2. /\ status = "pending" /\ version = 1 /\ attempts = 0 /\ other_bucket_attempts = 0
      /\ snapshot = [version |-> 1, attempts |-> 0, other_bucket_attempts |-> 0]
      /\ others = 0 /\ lost = 0
  BY Zenon DEF Init
<1> QED
  BY <1>1, <1>2, RetryBudgetAssumption
  DEF BudgetInv, Typed, Snapshot, SnapshotNotAhead, SnapshotFaithful, BudgetCounts,
      NoAnswerAfterTheEnd, ExhaustedOnlyByUnclassified

\* An edit starts a version no call in flight knows.
LEMMA EditKeeps ==
    ASSUME BudgetInv, Edit
    PROVE  BudgetInv'
  BY RetryBudgetAssumption
  DEF BudgetInv, Edit, Typed, Snapshot, current, SnapshotNotAhead, SnapshotFaithful, BudgetCounts,
      NoAnswerAfterTheEnd, ExhaustedOnlyByUnclassified

\* What is sent is a pending row as it stands.
LEMMA SendKeeps ==
    ASSUME BudgetInv, Send
    PROVE  BudgetInv'
  BY DEF BudgetInv, Send, columns, history, Typed, Snapshot, current, SnapshotNotAhead,
         SnapshotFaithful, BudgetCounts, NoAnswerAfterTheEnd, ExhaustedOnlyByUnclassified

\* An answer of another kind leaves the budget as it is.
LEMMA NotUnclassifiedKeeps ==
    ASSUME BudgetInv, Succeeds \/ FailsForGood \/ AtCapacity \/ UnknownKind
    PROVE  BudgetInv'
<1>1. /\ version' = version /\ snapshot' = snapshot /\ held /\ ~held' /\ held' \in BOOLEAN
      /\ others' = others /\ lost' = lost
  BY DEF Succeeds, FailsForGood, AtCapacity, UnknownKind, Answer, NotUnclassified
<1>2. other_bucket_attempts' = other_bucket_attempts /\ attempts' \in {attempts, attempts + 1}
  BY DEF Succeeds, FailsForGood, AtCapacity, UnknownKind, outbox_mark_retry, outbox_mark_failed
<1>3. status' = status \/ (current /\ status' \in {"done", "permanent"})
  BY DEF Succeeds, FailsForGood, AtCapacity, UnknownKind, outbox_mark_retry, outbox_mark_failed
<1> QED
  BY <1>1, <1>2, <1>3
  DEF BudgetInv, Typed, Snapshot, current, SnapshotNotAhead, SnapshotFaithful, BudgetCounts,
      NoAnswerAfterTheEnd, ExhaustedOnlyByUnclassified

\* An unclassified failure is counted on the row and in the history alike, or
\* gives the row up with the last of its budget; for an overwritten version it
\* is counted in neither.
LEMMA FailsUnclassifiedKeeps ==
    ASSUME BudgetInv, FailsUnclassified
    PROVE  BudgetInv'
<1>1. /\ version' = version /\ snapshot' = snapshot /\ held /\ ~held' /\ held' \in BOOLEAN /\ lost' = lost
      /\ others' = IF version = snapshot.version THEN others + 1 ELSE others
  BY DEF FailsUnclassified, Answer, Unclassified
<1>2. CASE ~current
  <2>1. /\ status' = status /\ attempts' = attempts
        /\ other_bucket_attempts' = other_bucket_attempts
    BY <1>2 DEF FailsUnclassified, outbox_mark_failed, outbox_mark_retry
  <2>2. others' = others
    BY <1>1, <1>2 DEF current, BudgetInv, NoAnswerAfterTheEnd, Typed, Snapshot
  <2> QED
    BY <1>1, <2>1, <2>2
    DEF BudgetInv, Typed, current, SnapshotNotAhead, SnapshotFaithful, BudgetCounts,
        NoAnswerAfterTheEnd, ExhaustedOnlyByUnclassified
<1>3. CASE current
  <2>1. /\ status = "pending" /\ version = snapshot.version /\ others' = others + 1
        /\ snapshot.other_bucket_attempts = other_bucket_attempts
        /\ attempts' = attempts + 1
    BY <1>1, <1>3
    DEF current, BudgetInv, SnapshotFaithful, FailsUnclassified, outbox_mark_failed,
        outbox_mark_retry
  <2>2. CASE snapshot.other_bucket_attempts + 1 >= Threshold
    <3>1. status' = "exhausted" /\ other_bucket_attempts' = other_bucket_attempts
      BY <1>3, <2>2 DEF FailsUnclassified, outbox_mark_failed
    <3> QED
      BY <1>1, <2>1, <2>2, <3>1, RetryBudgetAssumption
      DEF BudgetInv, Typed, current, SnapshotNotAhead, SnapshotFaithful, BudgetCounts,
          NoAnswerAfterTheEnd, ExhaustedOnlyByUnclassified
  <2>3. CASE ~(snapshot.other_bucket_attempts + 1 >= Threshold)
    <3>1. status' = status /\ other_bucket_attempts' = other_bucket_attempts + 1
      BY <1>3, <2>3 DEF FailsUnclassified, outbox_mark_retry
    <3> QED
      BY <1>1, <2>1, <2>3, <3>1, RetryBudgetAssumption
      DEF BudgetInv, Typed, current, SnapshotNotAhead, SnapshotFaithful, BudgetCounts,
          NoAnswerAfterTheEnd, ExhaustedOnlyByUnclassified
  <2> QED BY <2>2, <2>3
<1> QED BY <1>2, <1>3

\* A forgotten answer is one more failure and one more lost.
LEMMA AnswerForgottenKeeps ==
    ASSUME BudgetInv, AnswerForgotten
    PROVE  BudgetInv'
<1>1. /\ version' = version /\ snapshot' = snapshot /\ ~held' /\ held' \in BOOLEAN
      /\ status' = status /\ attempts' = attempts
      /\ other_bucket_attempts' = other_bucket_attempts
  BY DEF AnswerForgotten, Answer, columns
<1>2. \/ others' = others + 1 /\ lost' = lost + 1
      \/ others' = others /\ lost' = lost
  BY DEF AnswerForgotten, Unclassified
<1> QED
  BY <1>1, <1>2
  DEF BudgetInv, Typed, current, SnapshotNotAhead, SnapshotFaithful, BudgetCounts,
      NoAnswerAfterTheEnd, ExhaustedOnlyByUnclassified

\* Every step keeps the invariant.
LEMMA BudgetInvStep == BudgetInv /\ [Next]_vars => BudgetInv'
<1> SUFFICES ASSUME BudgetInv, [Next]_vars PROVE BudgetInv'
  OBVIOUS
<1>1. CASE UNCHANGED vars
  BY <1>1
  DEF vars, columns, history, BudgetInv, Typed, current, SnapshotNotAhead, SnapshotFaithful,
      BudgetCounts, NoAnswerAfterTheEnd, ExhaustedOnlyByUnclassified
<1>2. CASE TimePasses
  BY <1>2
  DEF TimePasses, history, BudgetInv, Typed, current, SnapshotNotAhead, SnapshotFaithful,
      BudgetCounts, NoAnswerAfterTheEnd, ExhaustedOnlyByUnclassified
<1> QED
  BY <1>1, <1>2, EditKeeps, SendKeeps, NotUnclassifiedKeeps, FailsUnclassifiedKeeps,
     AnswerForgottenKeeps DEF Next

\* The inductive invariant of the retry bookkeeping.
THEOREM BudgetInvariant == Spec => []BudgetInv
  BY BudgetInit, BudgetInvStep, PTL DEF Spec

\* ExhaustedOnlyByUnclassified, for any threshold and any number of edits,
\* answers, lost write-backs and retries of other kinds.
THEOREM BudgetIsUnclassifiedOnly == Spec => []ExhaustedOnlyByUnclassified
<1>1. BudgetInv => ExhaustedOnlyByUnclassified
  BY DEF BudgetInv
<1> QED BY <1>1, BudgetInvariant, PTL

\* RetryDelayFitsAttempts, for any cap: apply_one computes the delay from the
\* attempts it read, which are the row's own if the write-back applies.
THEOREM DelayFitsAttempts == Spec => RetryDelayFitsAttempts
<1> DEFINE Fits == AtCapacity \/ FailsUnclassified
                       => wait' = wait \/ wait' = 0 \/ wait' = backoff_after(attempts')
<1>1. BudgetInv /\ [Next]_vars => [Fits]_vars
  <2> SUFFICES ASSUME BudgetInv, AtCapacity \/ FailsUnclassified, wait' # wait, wait' # 0
               PROVE  wait' = backoff_after(attempts')
    OBVIOUS
  <2>1. held /\ current /\ wait' = backoff_after(snapshot.attempts + 1) /\ attempts' = attempts + 1
    BY DEF AtCapacity, FailsUnclassified, Answer, outbox_mark_retry, outbox_mark_failed
  <2>2. snapshot.attempts = attempts
    BY <2>1 DEF BudgetInv, SnapshotFaithful
  <2> QED BY <2>1, <2>2
<1> QED BY <1>1, BudgetInvariant, PTL DEF Spec, RetryDelayFitsAttempts
===============================================================================

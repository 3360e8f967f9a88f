------------------------------ MODULE RetryBudget ------------------------------
(***************************************************************************)
(* The retry bookkeeping of one outbox row: attempts, other_bucket_attempts*)
(* and next_attempt_at, as apply_one computes them from the OutboxRow it   *)
(* read and the guarded UPDATEs of store/repo.rs write them, while edits   *)
(* restart the row under a new version.  Time is counted in seconds.       *)
(***************************************************************************)
EXTENDS Backoff

CONSTANTS
    Threshold,    \* OTHER_BUCKET_EXHAUSTION_THRESHOLD
    UnknownRetry, \* UNKNOWN_KIND_RETRY_SECS
    MaxEdits,     \* bound: edits of the row's Routine
    MaxAnswers    \* bound: kernel answers

ASSUME RetryBudgetAssumption ==
    /\ Threshold \in Nat \ {0} /\ UnknownRetry \in Nat
    /\ MaxEdits \in Nat /\ MaxAnswers \in Nat

VARIABLES
    status, version, attempts, other_bucket_attempts, \* columns of the row
    wait,     \* next_attempt_at, in seconds from now (0: due)
    snapshot, \* the OutboxRow the pump holds
    held,     \* whether it holds one
    answers, edits, \* how much of the bounds is used
    others,   \* history: unclassified failures of this version, recorded or not
    streak,   \* history: of these, the ones since the last answer of another kind
    lost      \* history: answers for this version whose write-back failed

columns == <<status, version, attempts, other_bucket_attempts, wait>>
history == <<others, streak, lost>>
vars == <<columns, snapshot, held, answers, edits, history>>

Snapshot == [version : Nat, attempts : Nat, other_bucket_attempts : Nat]

Init ==
    /\ status = "pending" /\ version = 1 /\ attempts = 0 /\ other_bucket_attempts = 0
    /\ wait = 0
    /\ snapshot = [version |-> 1, attempts |-> 0, other_bucket_attempts |-> 0]
    /\ held = FALSE
    /\ answers = 0 /\ edits = 0 /\ others = 0 /\ streak = 0 /\ lost = 0

\* upsert_outbox collapses an edit onto the live row, whose counters restart.
Edit ==
    /\ status # "done"
    /\ edits < MaxEdits
    /\ edits' = edits + 1
    /\ status' = "pending" /\ version' = version + 1
    /\ attempts' = 0 /\ other_bucket_attempts' = 0 /\ wait' = 0
    /\ others' = 0 /\ streak' = 0 /\ lost' = 0
    /\ UNCHANGED <<snapshot, held, answers>>

\* outbox_due_pending, and apply_one's outbox_row_is_current.
Send ==
    /\ ~held
    /\ status = "pending" /\ wait = 0
    /\ held' = TRUE
    /\ snapshot' = [version |-> version, attempts |-> attempts,
                    other_bucket_attempts |-> other_bucket_attempts]
    /\ UNCHANGED <<columns, answers, edits, history>>

Answer ==
    /\ held
    /\ held' = FALSE
    /\ answers < MaxAnswers
    /\ answers' = answers + 1
    /\ UNCHANGED <<version, snapshot, edits>>

\* Mutant: the version is not compared.
pending == status = "pending"

current == status = "pending" /\ version = snapshot.version

outbox_mark_retry(secs, bump_other_bucket) ==
    /\ UNCHANGED status
    /\ attempts' = IF current THEN attempts + 1 ELSE attempts
    /\ other_bucket_attempts' = IF current /\ bump_other_bucket
                                THEN other_bucket_attempts + 1 ELSE other_bucket_attempts
    /\ wait' = IF current THEN secs ELSE wait

outbox_mark_failed(failure_kind) ==
    /\ status' = IF current THEN failure_kind ELSE status
    /\ attempts' = IF current THEN attempts + 1 ELSE attempts
    /\ wait' = IF current THEN 0 ELSE wait
    /\ UNCHANGED other_bucket_attempts

NotUnclassified ==
    /\ streak' = IF version = snapshot.version THEN 0 ELSE streak
    /\ UNCHANGED <<others, lost>>

Unclassified ==
    /\ others' = IF version = snapshot.version THEN others + 1 ELSE others
    /\ streak' = IF version = snapshot.version THEN streak + 1 ELSE streak

Succeeds ==
    /\ Answer
    /\ status' = IF current THEN "done" ELSE status
    /\ UNCHANGED <<attempts, other_bucket_attempts, wait>>
    /\ NotUnclassified

FailsForGood ==
    /\ Answer
    /\ outbox_mark_failed("permanent")
    /\ NotUnclassified

\* Mutant: a capacity answer spends the unclassified budget.
AtCapacityBumping ==
    /\ Answer
    /\ outbox_mark_retry(backoff_after(snapshot.attempts + 1), TRUE)
    /\ NotUnclassified

\* rate_limited, busy, not_ready or draining.
AtCapacity ==
    /\ Answer
    /\ outbox_mark_retry(backoff_after(snapshot.attempts + 1), FALSE)
    /\ NotUnclassified

\* The row's kind is unknown to this build; the kernel is not asked.
UnknownKind ==
    /\ Answer
    /\ outbox_mark_retry(UnknownRetry, FALSE)
    /\ NotUnclassified

\* timeout, not_sent, request_not_in_flight, other.
FailsUnclassified ==
    /\ Answer
    /\ IF snapshot.other_bucket_attempts + 1 >= Threshold
       THEN outbox_mark_failed("exhausted")
       ELSE outbox_mark_retry(backoff_after(snapshot.attempts + 1), TRUE)
    /\ Unclassified
    /\ UNCHANGED lost

\* The same answer, but the write-back fails or the process dies before it:
\* the row is found again as it was.
AnswerForgotten ==
    /\ Answer
    /\ UNCHANGED <<columns>>
    /\ Unclassified
    /\ lost' = IF version = snapshot.version THEN lost + 1 ELSE lost

TimePasses ==
    /\ wait > 0
    /\ wait' = wait - 1
    /\ UNCHANGED <<status, version, attempts, other_bucket_attempts, snapshot, held,
                   answers, edits, history>>

Next ==
    \/ Edit \/ Send
    \/ Succeeds \/ FailsForGood \/ AtCapacity \/ UnknownKind \/ FailsUnclassified
    \/ AnswerForgotten
    \/ TimePasses

Spec == Init /\ [][Next]_vars

-----------------------------------------------------------------------------
(* Properties *)

\* A row is given up as exhausted only after Threshold unclassified failures of
\* the very version it holds, each of them recorded: failures of an overwritten
\* version, and any number of rate_limited, busy, not_ready, draining or
\* unknown-kind retries, bring it no nearer.
ExhaustedOnlyByUnclassified ==
    status = "exhausted" => others - lost = Threshold

\* The delay a retry sets is the one its recorded attempts call for, though it
\* is computed from the attempts read before the call: an edit while the call
\* was in flight leaves no version with the backoff of the one before it.
RetryDelayFitsAttempts ==
    [][AtCapacity \/ FailsUnclassified
        => wait' = wait \/ wait' = 0 \/ wait' = backoff_after(attempts')]_vars

\* "how many times, IN A ROW, this row has failed with an UNCLASSIFIED error":
\* what the docs of OutboxRow and apply_one say the budget counts.
ExhaustedMeansInARow ==
    status = "exhausted" => streak >= Threshold
===============================================================================

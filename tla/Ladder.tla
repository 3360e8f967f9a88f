-------------------------------- MODULE Ladder --------------------------------
(***************************************************************************)
(* The engine ladder of ai/ladder.rs: one item of a run climbs down its    *)
(* plan, from the rules that decide outright over the models to the rule   *)
(* of last resort.  A step of run_item is a step here; a model call is two *)
(* steps, since anything may happen before its answer comes.               *)
(***************************************************************************)
EXTENDS AiPort

CONSTANT MaxModelCalls  \* MAX_MODEL_CALLS_PER_RUN


VARIABLES
    run,   \* the run under way: its phase, its plan, its items and what it read
    st,    \* RunState
    item,  \* run_item: the step it is at, or the outcome it has come to
    calls  \* the AiCallRecords the run has handed to the sink, in order

ladder == <<run, st, item, calls>>

Engines == {"executive", "local"}

-----------------------------------------------------------------------------
(* ai/ports.rs: what the kernel's refusals mean for a run *)

Aborting == {"connection_lost", "cancelled", "generation_ending"}
Deferring == {"busy", "rate_limited", "not_ready"}
Degrading == {"unavailable.no_provider", "unavailable.request_rejected", "unavailable.backend_config",
              "unavailable.response_too_large", "timeout", "forbidden", "bad_request", "other"}

ModelFailure == Aborting \cup Deferring \cup Degrading

\* Mutant: an empty token bucket only costs this rung.
action_rate_limited_degrades(f) ==
    IF f \in Aborting THEN "abort" ELSE IF f \in Deferring \ {"rate_limited"} THEN "defer" ELSE "degrade"

action(f) == IF f \in Aborting THEN "abort" ELSE IF f \in Deferring THEN "defer" ELSE "degrade"

ASSUME LadderAssumption ==
    MaxModelCalls \in Nat /\ \A w \in Worlds : w.failures \subseteq ModelFailure

opens_circuit(f) == f \in {"unavailable.no_provider", "unavailable.backend_config", "forbidden"}

-----------------------------------------------------------------------------
(* ai/ladder.rs *)

\* The rungs of a run: the switch is read once, when the run starts.
plan(cap, settings) ==
    (IF cap = "classify" THEN <<"decisive">> ELSE <<>>)
    \o (IF world.model /\ world.remote /\ settings THEN <<"executive">> ELSE <<>>)
    \o (IF world.model THEN <<"local">> ELSE <<>>)
    \o <<"fallback">>

RunState == [calls_left |-> MaxModelCalls, late |-> FALSE, skip |-> {}, models_off |-> FALSE, aborted |-> FALSE]

\* items is what the run will report, in the order its targets were settled;
\* asked is what it was to settle; last is what is left of the run before.
NoRun == [phase |-> "idle", steps |-> <<>>, todo |-> <<>>, read |-> None, asked |-> {}, items |-> <<>>,
          last |-> None]

\* AiRunRecord: a run's entry in the registry.
AiRunRecord(state, items) == [state |-> state, items |-> items]

AiRunItem(target, result, reason) == [target |-> target, result |-> result, reason |-> reason]

\* What a run reports of a decision, by the answer to its submission, and of an
\* item that came to none.
item_result_str(outcome) ==
    CASE outcome = "ok" -> "proposed"
      [] outcome \in {"rejected_by_precheck", "submit_store_error"} -> "rejected"
      [] outcome \in {"nothing", "deferred", "aborted"} -> outcome

\* A fresh item, at the first rung.
AtTop == [phase |-> "step", at |-> 1, failed_from |-> None, deterministic |-> FALSE,
          value |-> None, row |-> None]

\* The item is settled as told: on to the next one of the run.
NextItem(told) ==
    /\ run' = [run EXCEPT !.todo = Tail(@), !.items = @ \o told]
    /\ item' = AtTop

LadderInit == run = NoRun /\ st = RunState /\ item = AtTop /\ calls = <<>>

tripwire(tier, settings) == tier = "remote" /\ ~settings

Climbing == run.phase = "items" /\ run.todo # <<>> /\ item.phase = "step" /\ ~st.aborted

Rung(steps) == Climbing /\ item.at <= Len(run.steps) /\ run.steps[item.at] \in steps

Row(engine, from, tier, kind) ==
    [item |-> Head(run.todo), engine |-> engine, fallback_from |-> from, tier |-> tier, kind |-> kind,
     proposal |-> None, is_first |-> TRUE]

\* The row of a decision once its submission is answered: linked to the proposal
\* it came to, in the same transaction, or turned into a failure.  Of the rows of
\* one decision the first carries what the call cost, the others none of it.
insert_call_row(answer, is_first) ==
    Append(calls, [item.row EXCEPT !.kind = answer, !.is_first = is_first,
                                   !.proposal = IF answer = "ok" THEN Len(proposals) + 1 ELSE None])

\* The attempt is recorded and the next rung is tried.
Down(row, from, deterministic) ==
    /\ calls' = Append(calls, row)
    /\ item' = [item EXCEPT !.phase = "step", !.at = @ + 1, !.failed_from = from, !.deterministic = deterministic]

Produced(value, row) ==
    /\ item' = [item EXCEPT !.phase = "produced", !.value = value, !.row = row]
    /\ UNCHANGED calls

Ended(outcome) == item' = [item EXCEPT !.phase = outcome]

ReflexDecisive(value) ==
    /\ Rung({"decisive"})
    /\ IF value # None
       THEN Produced(value, Row("reflex", None, None, "ok"))
       ELSE Down(Row("reflex", None, None, "undecided"), item.failed_from, item.deterministic)
    /\ UNCHANGED <<run, st>>

ReflexFallback(value) ==
    /\ Rung({"fallback"})
    /\ IF value # None
       THEN Produced(value, Row("reflex", item.failed_from, None, "ok"))
       ELSE Down(Row("reflex", item.failed_from, None, "no_match"), item.failed_from, item.deterministic)
    /\ UNCHANGED <<run, st>>

\* Mutant: a rung passed over leaves no trace in the rows below it.
circuit_open_untold ==
    /\ Rung(Engines)
    /\ run.steps[item.at] \in st.skip
    /\ item' = [item EXCEPT !.at = @ + 1]
    /\ UNCHANGED <<run, st, calls>>

\* The engine's circuit opened earlier in this run: it is not asked again.
circuit_open ==
    /\ Rung(Engines)
    /\ run.steps[item.at] \in st.skip
    /\ item' = [item EXCEPT !.at = @ + 1, !.failed_from = run.steps[item.at]]
    /\ UNCHANGED <<run, st, calls>>

Spent == st.models_off \/ st.calls_left = 0 \/ st.late

\* No budget, no time or no capacity: the item is left for a later run.
defer_item ==
    /\ Rung(Engines \ st.skip)
    /\ Spent
    /\ st' = [st EXCEPT !.models_off = TRUE]
    /\ Ended("deferred")
    /\ UNCHANGED <<run, calls>>

complete ==
    /\ Rung(Engines \ st.skip)
    /\ ~Spent
    /\ st' = [st EXCEPT !.calls_left = @ - 1]
    /\ item' = [item EXCEPT !.phase = "waiting"]
    /\ UNCHANGED <<run, calls>>

Waiting == run.phase = "items" /\ item.phase = "waiting"

Asked == run.steps[item.at]

\* A reply of that tier came.  A remote one is read only if the switch, read
\* again now, is on; value is what parse makes of it, None for bad_output.
reply(tier, value) ==
    /\ Waiting
    /\ IF tripwire(tier, executive)
       THEN Down(Row(Asked, item.failed_from, tier, "privacy_tripwire"), Asked, item.deterministic)
       ELSE IF value # None
       THEN Produced(value, Row(Asked, item.failed_from, tier, "ok"))
       ELSE Down(Row(Asked, item.failed_from, tier, "bad_output"), Asked, TRUE)
    /\ UNCHANGED <<run, st>>

\* The call failed: recorded, then the verdict on the failure.
model_failure(f) ==
    /\ Waiting
    /\ LET row == Row(Asked, item.failed_from, None, f)
       IN  \/ /\ action(f) = "abort"
              /\ calls' = Append(calls, row)
              /\ st' = [st EXCEPT !.aborted = TRUE]
              /\ Ended("aborted")
           \/ /\ action(f) = "defer"
              /\ calls' = Append(calls, row)
              /\ st' = [st EXCEPT !.models_off = TRUE]
              /\ Ended("deferred")
           \/ /\ action(f) = "degrade"
              /\ st' = [st EXCEPT !.skip = @ \cup (IF opens_circuit(f) THEN {Asked} ELSE {})]
              /\ Down(row, Asked, item.deterministic)
    /\ UNCHANGED run

\* Every rung was tried and none produced a value.
exhausted ==
    /\ Climbing
    /\ item.at > Len(run.steps)
    /\ Ended("nothing")
    /\ UNCHANGED <<run, st, calls>>

\* A later item of a run that was aborted.
aborted_item ==
    /\ run.phase = "items" /\ run.todo # <<>> /\ item.phase = "step" /\ st.aborted
    /\ Ended("aborted")
    /\ UNCHANGED <<run, st, calls>>

\* RUN_DEADLINE_SECS have passed.
deadline ==
    /\ run.phase = "items" /\ ~st.late
    /\ world.deadline
    /\ st' = [st EXCEPT !.late = TRUE]
    /\ UNCHANGED <<run, item, calls>>

\* BusyGuard::finish.  The rows stay in the table; the model keeps those of the
\* run under way and, in the worlds that poll, of the one before.
LeaveSlot(state, items) ==
    /\ run' = IF world.polls THEN [NoRun EXCEPT !.last = [record |-> AiRunRecord(state, items), calls |-> calls]]
              ELSE NoRun
    /\ st' = RunState /\ item' = AtTop /\ calls' = <<>>

\* What a classify run had skipped before it set out.
skipped_items ==
    IF world.cap = "classify" THEN SelectSeq(run.items, LAMBDA i : i.result = "skipped") ELSE <<>>

\* The hard deadline drops the run where it stands, or the process stops: only
\* what was skipped before it set out is reported.
cancel_run ==
    /\ run.phase # "idle"
    /\ LeaveSlot("aborted", skipped_items)

final_state == IF \E i \in DOMAIN run.items : run.items[i].result = "aborted" THEN "aborted" ELSE "done"

\* The last item is done and the run leaves its slot.
run_ends ==
    /\ run.phase = "items" /\ run.todo = <<>>
    /\ LeaveSlot(final_state, run.items)

LadderNext ==
    \/ circuit_open \/ defer_item \/ complete \/ exhausted \/ aborted_item \/ deadline \/ cancel_run \/ run_ends
    \/ \E f \in world.failures : model_failure(f)
=============================================================================

------------------------------- MODULE Classify -------------------------------
(***************************************************************************)
(* POST /ai/classify: which tasks a run takes up, what it makes of each,   *)
(* and when it notes down that a parked task was looked at in vain.        *)
(*                                                                         *)
(* Of an answer the model keeps whether it names a Direction, says none,   *)
(* or is not sure; which Direction it names makes no difference.           *)
(***************************************************************************)
EXTENDS Ladder, SequencesExt

CONSTANT MaxTaskIds  \* MAX_CLASSIFY_TASK_IDS

ASSUME ClassifyAssumption == MaxTaskIds \in Nat \ {0}

VARIABLE unseen \* of each task in Triage: the Directions created since it came there
                \* that no evaluation it had was offered (history)

classify == <<store, ladder, unseen>>

ClassifyInit == unseen = [t \in 1..Len(world.tasks) |-> {}]

IsClassify == world.cap = "classify"

-----------------------------------------------------------------------------
(* http/ai_classify.rs: targets *)

\* Tasks with a pending proposal, of whatever maker, that classify might make now.
already_pending(targets) ==
    {t \in targets : \E i \in Pending({"classify", "direct"}) :
                        /\ proposals[i].kind = "assign" /\ proposals[i].what = {t}
                        /\ dry_run([proposals[i] EXCEPT !.source = "classify"])}

Keep(kept, x, S) == IF x \in S THEN Append(kept, x) ELSE kept

\* The elements of s that are in S, in the order of s.
Only(s, S) == FoldLeft(LAMBDA kept, x : Keep(kept, x, S), <<>>, s)

\* The newest rejection of a task: list_rejected_ops is oldest first.
LatestRejected(t) ==
    {p.at : p \in {q \in list_rejected_ops("classify") : q.what = {t}}}

\* A recommendation the user rejected stays away until the task is edited or a
\* Direction appears, both later than the proposal.
suppressed_rejected(targets) ==
    {t \in targets : LatestRejected(t) # {} /\
        LET at == Max(LatestRejected(t))
        IN  ~task_modified_since(t, at) /\ max_eligible_direction_created_at <= at}

dedup_targets(targets) == targets \ (already_pending(targets) \cup suppressed_rejected(targets))

\* A task as the run has read it: it goes by this copy whatever happens next.
Copies(ids) == [i \in DOMAIN ids |-> [task |-> ids[i], parked |-> tasks[ids[i]].direction = Triage]]

\* Explicit ids are taken as they are given or refused as a whole: none, too many,
\* one twice, one that is not in the inbox.
select_targets(ids) ==
    /\ Len(ids) \in 1..MaxTaskIds
    /\ IsInjective(ids)
    /\ Range(ids) \subseteq inbox

\* Without ids: the oldest of the inbox that nothing covers, page by page.
auto_select_targets ==
    LET kept == Only([t \in DOMAIN tasks |-> t], dedup_targets(inbox))
    IN  SubSeq(kept, 1, Min({Len(kept), MaxTaskIds}))

\* The request takes the one slot for classify runs (AiRuns).  Explicit ids are
\* read and checked before it does; the inbox is read by the run itself.
trigger_classify(ids) ==
    /\ IsClassify
    /\ run.phase = "idle"
    /\ Len(proposals) < world.proposals
    /\ select_targets(ids)
    /\ run' = [NoRun EXCEPT !.phase = "targets", !.todo = Copies(ids), !.asked = Range(ids)]
    /\ UNCHANGED <<store, st, item, calls, unseen>>

trigger_classify_auto ==
    /\ IsClassify
    /\ run.phase = "idle"
    /\ Len(proposals) < world.proposals
    /\ run' = [NoRun EXCEPT !.phase = "auto"]
    /\ UNCHANGED <<store, st, item, calls, unseen>>

run_selects ==
    /\ run.phase = "auto" /\ IsClassify
    /\ run' = [run EXCEPT !.phase = "targets", !.todo = Copies(auto_select_targets),
                          !.asked = Range(auto_select_targets)]
    /\ UNCHANGED <<store, st, item, calls, unseen>>

\* Mutant: the report leaves out what was skipped.
build_classify_run_items_tried(skipped) == <<>>

\* The head of the report: the targets not even tried, and why.
build_classify_run_items(skipped) ==
    [i \in DOMAIN skipped |->
        AiRunItem(skipped[i].task, "skipped",
                  IF skipped[i].task \in already_pending(run.asked) THEN "dedup"
                  ELSE "suppressed_rejected")]

\* Targets of either kind are deduplicated (again) before the run sets out.
run_dedups ==
    /\ run.phase = "targets" /\ IsClassify
    /\ LET kept == dedup_targets(run.asked)
           among(ts) == Only(run.todo, {c \in Range(run.todo) : c.task \in ts})
       IN  run' = [run EXCEPT !.phase = "selected",
                              !.todo = among(kept),
                              !.items = build_classify_run_items(among(run.asked \ kept))]
    /\ UNCHANGED <<store, st, item, calls, unseen>>

\* run_classify notes the second it starts in, ...
run_starts ==
    /\ run.phase = "selected" /\ IsClassify
    /\ run' = [run EXCEPT !.phase = "started", !.read = [started |-> clock, candidates |-> {}]]
    /\ UNCHANGED <<store, st, item, calls, unseen>>

\* ... and then reads the switch and the candidates, once for the whole run.
run_reads ==
    /\ run.phase = "started" /\ IsClassify
    /\ run' = [run EXCEPT !.phase = "items", !.steps = plan("classify", executive),
                          !.read.candidates = direction_candidates]
    /\ UNCHANGED <<store, st, item, calls, unseen>>

-----------------------------------------------------------------------------
(* ai/classify.rs: one task *)

Task == Head(run.todo).task

\* ClassifyItem: how the task at hand is reported.
ClassifyItem(outcome, reason) == <<AiRunItem(Task, item_result_str(outcome), reason)>>

\* No candidate at all: the ladder is not entered.
no_candidates ==
    /\ IsClassify /\ Climbing
    /\ run.read.candidates = {}
    /\ NextItem(ClassifyItem("nothing", "undetermined"))
    /\ UNCHANGED <<store, st, calls, unseen>>

\* Where tasks of the same title sit: in one Direction, or in none or several.
title_history == {None, Filed}

\* R1: every task of the same title sits in one Direction.
r1_reflex == IF directions = <<>> THEN {None} ELSE title_history

\* R2: one candidate's words overlap the title the most.
r2_reflex == {None, Filed}

\* The answers a request allows: one of the candidates it lists, a sure none, or
\* either without confidence.
classify_schema == {Triage, "low_confidence"} \cup (IF run.read.candidates = {} THEN {} ELSE {Filed})

\* None is bad_output.
parse_classify_reply == {None} \cup classify_schema

Answers == IsClassify /\ Climbing /\ run.read.candidates # {}

\* The evaluation is stamped with the second the run started.  Mutant: with the
\* second it is written.
evaluated_at_now == clock

evaluated_at == run.read.started

\* Noted down only for a task that was read as parked in Triage.
record_classify_eval(looked) ==
    LET eval == looked /\ Head(run.todo).parked
    IN  /\ tasks' = IF eval THEN [tasks EXCEPT ![Task].evaluated = evaluated_at] ELSE tasks
        /\ unseen' = IF eval THEN [unseen EXCEPT ![Task] = @ \ run.read.candidates] ELSE unseen

\* A Direction, or a sure none: proposed, or rejected by the dry run, or lost
\* to a store error; the call row is written with it either way.
submit_direction_assignment(answer) ==
    /\ IsClassify /\ item.phase = "produced" /\ item.value # "low_confidence"
    /\ submit(Draft("classify", "assign", {Task}, item.value), answer)
    /\ calls' = insert_call_row(answer, TRUE)
    /\ record_classify_eval(answer = "rejected_by_precheck")
    /\ NextItem(ClassifyItem(answer, None))
    /\ UNCHANGED <<world, clock, executive, directions, weeks, gaps, st>>

unsure ==
    /\ IsClassify /\ item.phase = "produced" /\ item.value = "low_confidence"
    /\ calls' = Append(calls, item.row)
    /\ record_classify_eval(TRUE)
    /\ NextItem(ClassifyItem("nothing", "low_confidence"))
    /\ UNCHANGED <<world, clock, executive, directions, weeks, gaps, proposals, st>>

\* Nothing, deferred or aborted; a reply that was read and made no sense counts
\* as having looked.
no_decision ==
    /\ IsClassify /\ item.phase \in {"nothing", "deferred", "aborted"}
    /\ record_classify_eval(item.phase = "nothing" /\ item.deterministic)
    /\ NextItem(ClassifyItem(item.phase, IF item.phase = "nothing" THEN "undetermined" ELSE None))
    /\ UNCHANGED <<world, clock, executive, directions, weeks, gaps, proposals, st, calls>>

\* The history of what a parked task has missed.
Watch ==
    unseen' = [t \in DOMAIN tasks' |->
        IF tasks'[t].direction # Triage THEN {}
        ELSE unseen[t] \cup (DOMAIN directions' \ DOMAIN directions)]

ClassifyNext ==
    \/ \E ids \in world.requests : trigger_classify(ids)
    \/ trigger_classify_auto \/ run_selects \/ run_dedups \/ run_starts \/ run_reads
    \/ no_candidates
    \/ \E v \in r1_reflex : Answers /\ ReflexDecisive(v) /\ UNCHANGED <<store, unseen>>
    \/ \E v \in r2_reflex : Answers /\ ReflexFallback(v) /\ UNCHANGED <<store, unseen>>
    \/ \E answer \in {"ok", "rejected_by_precheck", "submit_store_error"} :
          submit_direction_assignment(answer)
    \/ unsure \/ no_decision
=============================================================================

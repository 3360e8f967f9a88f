-------------------------------- MODULE Propose --------------------------------
(***************************************************************************)
(* POST /ai/propose: carrying tasks over from the week before, reordering  *)
(* this week's, and new tasks for neglected Directions.  One decision of   *)
(* the ladder becomes up to three proposals, submitted one after another.  *)
(***************************************************************************)
EXTENDS Ladder, SequencesExt

IsPropose == world.cap = "propose"

-----------------------------------------------------------------------------
(* http/ai_propose.rs: what earlier proposals leave to propose *)

Valid(kind) == {i \in precheck(Pending({"propose"})) : proposals[i].kind = kind}

\* Rejected proposals that no Direction created since has put in question.
StillRejected(kind) ==
    {p \in list_rejected_ops("propose") : p.kind = kind /\ max_eligible_direction_created_at <= p.at}

NonTerminal(ts) == {t \in ts : ~task_is_terminal(tasks[t].status)}

\* Whether to leave the order alone: a reordering is pending for exactly the tasks
\* the week now has, or one of them was rejected and is what the rule comes to again.
skip_reorder ==
    LET now == NonTerminal(week_tasks("this"))
    IN  IF \E i \in Valid("reorder") : proposals[i].what = now THEN {TRUE}
        ELSE IF \E p \in StillRejected("reorder") : p.what = now THEN BOOLEAN
        ELSE {FALSE}

excluded_create == gaps \cap UNION ({proposals[i].what : i \in Valid("create")}
                                    \cup {p.what : p \in StillRejected("create")})

\* Mutant: only what was rejected is left out.
excluded_carry_rejected == UNION {p.what : p \in StillRejected("carry")}

excluded_carry == UNION ({proposals[i].what : i \in Valid("carry")}
                         \cup {p.what : p \in StillRejected("carry")})

\* What a run leaves out: tasks to carry, the reordering, Directions to create
\* for, and creating altogether.
ProposeDedup(carry, reorder, directions_covered, create) ==
    [carry |-> carry, reorder |-> reorder, directions |-> directions_covered, create |-> create]

dedup_propose ==
    {ProposeDedup(excluded_carry, skip, excluded_create,
                  gaps # {} /\ gaps \subseteq excluded_create) : skip \in skip_reorder}

\* The three sub-proposals of a run, as its report names them.
ProposeKind == <<"carry", "reorder", "create">>

\* Only a week that is open can be proposed for.
select_week == weeks["this"]

trigger_propose ==
    /\ IsPropose
    /\ run.phase = "idle"
    /\ Len(proposals) + 3 <= world.proposals
    /\ select_week
    /\ run' = [NoRun EXCEPT !.phase = "targets", !.todo = <<"week">>, !.asked = Range(ProposeKind)]
    /\ UNCHANGED <<store, st, item, calls>>

dedup_run ==
    /\ IsPropose /\ run.phase = "targets"
    /\ \E dedup \in dedup_propose :
          run' = [run EXCEPT !.phase = "selected", !.read = [dedup |-> dedup]]
    /\ UNCHANGED <<store, st, item, calls>>

-----------------------------------------------------------------------------
(* ai/propose.rs *)

carry_reflex(ts) == {t \in ts : tasks[t].status = "planned"}

gap_directions == gaps

\* ProposeItem: how one of the kinds is reported, a skipped one as covered already.
ProposeItem(kind, result) ==
    AiRunItem(kind, result, IF result = "skipped" THEN "dedup" ELSE None)

Report(results) == [i \in DOMAIN ProposeKind |-> ProposeItem(ProposeKind[i], results[ProposeKind[i]])]

\* What is reported of a kind that was not tried.
NotTried(dedup) ==
    [carry |-> "nothing",
     reorder |-> IF dedup.reorder THEN "skipped" ELSE "nothing",
     create |-> IF dedup.create THEN "skipped" ELSE "nothing"]

\* The run reads everything again, after its dedup, and goes by that.  With
\* nothing left to try the ladder is not entered.
run_propose ==
    /\ IsPropose /\ run.phase = "selected"
    /\ LET dedup == run.read.dedup
           carry == carry_reflex(previous_open_week) \ dedup.carry
           results == NotTried(dedup)
       IN  run' = IF carry = {} /\ dedup.reorder /\ dedup.create
                  THEN [run EXCEPT !.phase = "items", !.todo = <<>>, !.items = Report(results)]
                  ELSE [run EXCEPT !.phase = "items", !.steps = plan("propose", executive),
                                   !.read = [dedup |-> dedup, carry |-> carry,
                                             week |-> NonTerminal(week_tasks("this")),
                                             gaps |-> gap_directions \ dedup.directions,
                                             results |-> results]]
    /\ UNCHANGED <<store, st, item, calls>>

\* What to carry, whether to reorder, what to create.
Decision(carry, order, create) == [carry |-> carry, order |-> order, create |-> create]

\* A list of tasks as a request offers it: a model names them by key, and no others.
keyed_tasks(ts) == SUBSET ts

\* An order that differs from the one the week has needs two tasks.
NewOrder == IF Cardinality(run.read.week) > 1 THEN BOOLEAN ELSE {FALSE}

\* The answers a request allows.
propose_schema ==
    {Decision(c, o, g) : c \in keyed_tasks(run.read.carry), o \in NewOrder, g \in SUBSET run.read.gaps}

parse_propose_reply == {None} \cup propose_schema

\* The rules carry everything, sort the week, and create nothing.
reorder_reflex == {Decision(run.read.carry, o, {}) : o \in NewOrder}

-----------------------------------------------------------------------------
(* propose_decide: three submissions, each a transaction of its own *)

DraftOf(kind) ==
    CASE kind = "carry" -> Draft("propose", "carry", item.value.carry, None)
      [] kind = "reorder" -> Draft("propose", "reorder", run.read.week, None)
      [] kind = "create" -> Draft("propose", "create", item.value.create, None)

Attempts ==
    (IF item.value.carry # {} THEN <<"carry">> ELSE <<>>)
    \o (IF item.value.order /\ ~run.read.dedup.reorder THEN <<"reorder">> ELSE <<>>)
    \o (IF item.value.create # {} /\ ~run.read.dedup.create THEN <<"create">> ELSE <<>>)

\* The decision is made: the attempts it calls for, or none and a bare call row.
propose_decide ==
    /\ IsPropose /\ item.phase = "produced"
    /\ IF Attempts = <<>>
       THEN calls' = Append(calls, item.row) /\ NextItem(Report(run.read.results))
       ELSE /\ item' = [item EXCEPT !.phase = "submitting", !.at = 1]
            /\ UNCHANGED <<run, calls>>
    /\ UNCHANGED <<store, st>>

\* Every attempt writes a call row of its own; a failed one does not stop the next.
submit_one(answer) ==
    /\ IsPropose /\ item.phase = "submitting"
    /\ submit(DraftOf(Attempts[item.at]), answer)
    /\ calls' = insert_call_row(answer, item.at = 1)
    /\ LET results == [run.read.results EXCEPT ![Attempts[item.at]] = item_result_str(answer)]
       IN  IF item.at = Len(Attempts)
           THEN NextItem(Report(results))
           ELSE item' = [item EXCEPT !.at = @ + 1] /\ run' = [run EXCEPT !.read.results = results]
    /\ UNCHANGED <<world, clock, executive, directions, tasks, weeks, gaps, st>>

\* No decision: nothing, or every kind is deferred or aborted, a skipped one too.
propose_nothing ==
    /\ IsPropose /\ item.phase \in {"nothing", "deferred", "aborted"}
    /\ NextItem(Report(IF item.phase = "nothing" THEN run.read.results
                       ELSE [k \in Range(ProposeKind) |-> item_result_str(item.phase)]))
    /\ UNCHANGED <<store, st, calls>>

ProposeNext ==
    \/ trigger_propose \/ dedup_run \/ run_propose \/ propose_decide \/ propose_nothing
    \/ IsPropose /\ Rung({"fallback"}) /\ \E v \in reorder_reflex : ReflexFallback(v) /\ UNCHANGED store
    \/ \E answer \in {"ok", "rejected_by_precheck", "submit_store_error"} : submit_one(answer)
=============================================================================

-------------------------------- MODULE AiPort --------------------------------
(***************************************************************************)
(* What the AI capabilities read from and write to the store: the tasks,   *)
(* Directions, weeks and settings they look at, the proposals they submit, *)
(* and the rejections that silence them.  Every timestamp is a whole       *)
(* second, the value of clock when the row was written.                    *)
(*                                                                         *)
(* The program's two weeks are the one a propose run is for ("this") and   *)
(* the nearest earlier one ("prev").  A proposal is kept by its kind, the  *)
(* tasks or Directions it names, and who made it.                          *)
(***************************************************************************)
EXTENDS Naturals, Sequences, FiniteSets, FiniteSetsExt

CONSTANTS
    None,    \* an absent column
    Triage,  \* the reserved Direction
    Filed,   \* any other Direction
    Worlds   \* the bounds and the surroundings a behaviour may run in

ASSUME AiPortAssumption ==
    /\ None # Triage /\ None # Filed /\ Triage # Filed
    /\ None \notin Nat
    /\ \A w \in Worlds :
          /\ w.cap \in {"classify", "propose"}
          /\ w.tasks \in Seq({None, "prev", "this"})
          /\ w.born \in Nat
          /\ w.requests \subseteq Seq(Nat)
          /\ IsFiniteSet(w.gaps)

VARIABLES
    world,      \* the bounds and surroundings of this behaviour; never changes
    clock,      \* the current second
    executive,  \* sin90_settings: ai.executive_enabled
    directions, \* created_at of every Direction but Triage, in creation order
    tasks,      \* sin90_tasks, with the sin90_classify_evals row of each
    weeks,      \* whether the week is open, of "prev" and "this"
    gaps,       \* Directions with a share of the Rhythm and no task in "this"
    proposals   \* sin90_proposals made of one kind of operation

store == <<world, clock, executive, directions, tasks, weeks, gaps, proposals>>

NewTask(week, status) ==
    [week |-> week, status |-> status, direction |-> None, via |-> None,
     entered |-> None, evaluated |-> None, edited |-> clock]

AiPortInit ==
    /\ world \in Worlds
    /\ clock = 1
    /\ executive = world.remote
    /\ directions = [i \in 1..world.born |-> 0]
    /\ tasks = [i \in 1..Len(world.tasks) |-> NewTask(world.tasks[i], "planned")]
    /\ weeks = [w \in {"prev", "this"} |-> TRUE]
    /\ gaps = world.gaps
    /\ proposals = <<>>

\* A second passes.
Tick ==
    /\ clock < world.last
    /\ clock' = clock + 1
    /\ UNCHANGED <<world, executive, directions, tasks, weeks, gaps, proposals>>

-----------------------------------------------------------------------------
(* What others do to the store meanwhile *)

create_direction ==
    /\ Len(directions) < world.directions
    /\ directions' = Append(directions, clock)
    /\ UNCHANGED <<world, clock, executive, tasks, weeks, gaps, proposals>>

put_ai_executive_enabled(enabled) == executive' = enabled

\* The user flips the switch; restating it changes nothing.
put_ai_settings ==
    /\ world.switched
    /\ put_ai_executive_enabled(~executive)
    /\ UNCHANGED <<world, clock, directions, tasks, weeks, gaps, proposals>>

\* A task is finished: an event of the task that counts as its user's edit.
finish_task(t) ==
    /\ world.edits
    /\ tasks[t].status = "planned"
    /\ tasks' = [tasks EXCEPT ![t].status = "done", ![t].edited = clock]
    /\ UNCHANGED <<world, clock, executive, directions, weeks, gaps, proposals>>

close_week(w) ==
    /\ world.edits
    /\ weeks[w]
    /\ weeks' = [weeks EXCEPT ![w] = FALSE]
    /\ UNCHANGED <<world, clock, executive, directions, tasks, gaps, proposals>>

\* The Rhythm is adjusted, or a task is planned for one of its Directions.
shift_gaps(now) ==
    /\ world.edits
    /\ gaps' = now
    /\ UNCHANGED <<world, clock, executive, directions, tasks, weeks, proposals>>

-----------------------------------------------------------------------------
(* store/ai_port.rs: reads *)

max_eligible_direction_created_at == Max({0} \cup Range(directions))

\* A task classify parked is looked at again once a Direction is at least as
\* new as its last evaluation and as its entry into Triage.
triage_retry_gate(t) ==
    /\ t.direction = Triage /\ t.via = "classify"
    /\ max_eligible_direction_created_at >= Max({0, t.evaluated, t.entered} \ {None})

task_is_terminal(s) == s \in {"done", "carried_over"}

inbox_task(t) ==
    /\ ~task_is_terminal(tasks[t].status)
    /\ tasks[t].direction = None \/ triage_retry_gate(tasks[t])

inbox == {t \in DOMAIN tasks : inbox_task(t)}

direction_candidates == DOMAIN directions

week_tasks(w) == {t \in DOMAIN tasks : tasks[t].week = w}

\* Only the nearest earlier week, and only while it is open.
previous_open_week == IF weeks["prev"] THEN week_tasks("prev") ELSE {}

Pending(cap) ==
    {i \in DOMAIN proposals : proposals[i].status = "pending" /\ proposals[i].source \in cap}

list_rejected_ops(cap) ==
    {proposals[i] : i \in {j \in DOMAIN proposals :
                              proposals[j].status = "rejected" /\ proposals[j].source = cap}}

task_modified_since(t, at) == tasks[t].edited > at

-----------------------------------------------------------------------------
(* store/ai_port.rs: the sink *)

MayAssign(t, to, source) ==
    /\ ~task_is_terminal(tasks[t].status)
    /\ \/ tasks[t].direction = None
       \/ /\ tasks[t].direction = Triage /\ to # Triage
          /\ source = "direct" \/ tasks[t].via = "classify"

\* The whole of validate and apply, tried out and rolled back.
dry_run(p) ==
    CASE p.kind = "assign" -> \A t \in p.what : MayAssign(t, p.to, p.source)
      [] p.kind = "carry" -> weeks["this"] /\ \A t \in p.what :
                                tasks[t].status = "planned" /\ weeks[tasks[t].week]
      [] p.kind = "reorder" -> weeks["this"] /\ \A t \in p.what : tasks[t].week = "this"
      [] p.kind = "create" -> weeks["this"]

\* The drafts that would still apply if they were accepted now.
precheck(drafts) == {i \in drafts : dry_run(proposals[i])}

Draft(source, kind, what, to) ==
    [source |-> source, kind |-> kind, what |-> what, to |-> to, at |-> clock, status |-> "pending"]

\* The proposals table after a submit: the draft joins it if its dry run holds
\* and the store answers; an Invalid or a Store error leaves it alone.
submit(p, answer) ==
    /\ answer \in {"ok", "rejected_by_precheck", "submit_store_error"}
    /\ answer = "ok" => dry_run(p)
    /\ answer = "rejected_by_precheck" => ~dry_run(p)
    /\ proposals' = IF answer = "ok" THEN Append(proposals, p) ELSE proposals

-----------------------------------------------------------------------------
(* A user submits, accepts and rejects (http/mod.rs, over the gate) *)

submit_direct(t, to) ==
    /\ world.direct
    /\ Len(proposals) < world.proposals
    /\ proposals' = Append(proposals, Draft("direct", "assign", {t}, to))
    /\ dry_run(Draft("direct", "assign", {t}, to))
    /\ UNCHANGED <<world, clock, executive, directions, tasks, weeks, gaps>>

\* What accepting p leaves of the tasks: an assignment into Triage is stamped
\* with its maker and the second of the accept, one out of it clears both; a
\* carried task closes and its successor joins this week.
Applied(p) ==
    CASE p.kind = "assign" ->
            [t \in DOMAIN tasks |->
                IF t \notin p.what THEN tasks[t]
                ELSE [tasks[t] EXCEPT !.direction = p.to,
                                      !.via = IF p.to = Triage THEN p.source ELSE None,
                                      !.entered = IF p.to = Triage THEN clock ELSE None]]
      [] p.kind = "carry" ->
            [t \in DOMAIN tasks |->
                IF t \notin p.what THEN tasks[t]
                ELSE [tasks[t] EXCEPT !.status = "carried_over", !.edited = clock]]
            \o [i \in 1..Cardinality(p.what) |-> NewTask("this", "planned")]
      [] p.kind = "create" ->
            tasks \o [i \in 1..Cardinality(p.what) |-> NewTask("this", "planned")]
      [] OTHER -> tasks

apply_proposal(i) ==
    /\ proposals[i].status = "pending"
    /\ dry_run(proposals[i])
    /\ tasks' = Applied(proposals[i])
    /\ gaps' = IF proposals[i].kind = "create" THEN gaps \ proposals[i].what ELSE gaps
    /\ proposals' = [proposals EXCEPT ![i].status = "applied"]
    /\ UNCHANGED <<world, clock, executive, directions, weeks>>

reject_proposal(i) ==
    /\ proposals[i].status = "pending"
    /\ proposals' = [proposals EXCEPT ![i].status = "rejected"]
    /\ UNCHANGED <<world, clock, executive, directions, tasks, weeks, gaps>>

StoreNext ==
    \/ Tick \/ create_direction \/ put_ai_settings
    \/ \E t \in DOMAIN tasks : finish_task(t)
    \/ \E w \in DOMAIN weeks : close_week(w)
    \/ \E now \in SUBSET world.gaps : shift_gaps(now)
    \/ \E t \in DOMAIN tasks, to \in {Triage, Filed} : submit_direct(t, to)
    \/ \E i \in DOMAIN proposals : apply_proposal(i) \/ reject_proposal(i)
=============================================================================

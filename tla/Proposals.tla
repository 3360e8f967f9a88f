------------------------------- MODULE Proposals -------------------------------
(***************************************************************************)
(* The proposal gate: submit, dry run, accept and reject of batches of    *)
(* the ten operations of Sin90Op.                                          *)
(*                                                                         *)
(* apply_proposal holds the write lock from the claim to the commit, so    *)
(* its transaction is a sequence of steps no other writer comes between:   *)
(* tx says which batch is being applied and how far it has come, and what  *)
(* the tables were when it began.  A dry run is the same sequence, ended   *)
(* by an unconditional rollback.  A failing operation, and a crash, put    *)
(* the saved tables back.                                                  *)
(***************************************************************************)
EXTENDS Planning

CONSTANTS ProposalIds

Capabilities == {"classify", "summarize", "propose"}
Sources == Capabilities \cup {"direct"}

\* The ten operations a batch may be made of.  An id is any number a client can
\* name, a row of that number or none.
Sin90Op ==
    [op : {"CreateArea"}, base : Seq(Nat)]
    \cup [op : {"CreateDirection"}]
    \cup [op : {"CreateTask"}, direction : Nat \cup {None, Triage}, parent : Nat \cup {None}]
    \cup [op : {"TransitionTask"}, task : Nat, to : TaskStatus]
    \cup [op : {"CreateTasks"}, week : WeekIds, tasks : Seq(Nat \cup {None, Triage})]
    \cup [op : {"ReorderTasks"}, week : WeekIds, order : Seq(Nat)]
    \cup [op : {"AdjustRhythm"}, rhythm : Nat, alloc : Seq(Alloc)]
    \cup [op : {"CarryOverTask"}, task : Nat, to : WeekIds]
    \cup [op : {"AssignTaskDirection"}, task : Nat, direction : Nat \cup {Triage}]
    \cup [op : {"DraftReviewBody"}, review : ReviewIds, base : Bodies \cup {Blank},
           body : Bodies \cup {Blank}]

\* Requests are typed: what does not parse never reaches the store.
ASSUME BatchesAssumption ==
    \A w \in Worlds :
        /\ w.slugs \subseteq Seq(Nat)
        /\ w.allocs \subseteq Seq(Alloc)
        /\ \A b \in w.batches : b.source \in Sources /\ b.ops \in Seq(Sin90Op)

VARIABLES
    proposals,  \* sin90_proposals, and the sin90_ai_calls row linked to it
    rejections, \* sin90_proposal_rejections, in insertion order
    tx          \* the open write transaction of a batch, or Idle

gate == <<proposals, rejections, tx>>

ProposalStatus == {"pending", "applying", "applied", "rejected"}

\* The lifecycle core/transitions.rs lists.  No writer consults it: the statements
\* of the store compare and set the status themselves.
proposal_transition_allowed(from, to) ==
    <<from, to>> \in {<<"pending", "applying">>, <<"pending", "rejected">>,
                      <<"applying", "applied">>, <<"applying", "rejected">>}

proposal_is_terminal(status) == status \in {"applied", "rejected"}

Idle == [mode |-> "idle"]
Absent == [status |-> "absent", ops |-> <<>>, source |-> "direct"]

ProposalsTypeOK ==
    /\ PlanningTypeOK
    /\ \A p \in ProposalIds :
          /\ proposals[p].status \in ProposalStatus \cup {"absent"}
          /\ proposals[p].source \in Sources
          /\ proposals[p].status # "absent" => proposals[p].ops # <<>>
    /\ rejections \in Seq([proposal : ProposalIds, source : Sources])
    /\ tx = Idle \/ (/\ tx.mode \in {"accept", "dry"}
                     /\ tx.proposal \in ProposalIds
                     /\ tx.next \in 1..Len(tx.ops) + 1)

ProposalsInit ==
    /\ PlanningInit
    /\ proposals = [p \in ProposalIds |-> Absent]
    /\ rejections = <<>>
    /\ tx = Idle

-----------------------------------------------------------------------------
(* validate: every operation is checked against the tables as the earlier   *)
(* operations of the batch leave them.  The working view overlays task      *)
(* statuses, task directions and Review bodies, nothing else.               *)

OpsOf(kinds, ops) == {ops[i] : i \in {j \in DOMAIN ops : ops[j].op \in kinds}}

load_task(ids) == [t \in ids \cap DOMAIN tasks |-> tasks[t].status]

load_task_parent(ids) == [t \in ids \cap DOMAIN tasks |-> tasks[t].parent]

load_task_direction(ids) == [t \in ids \cap DOMAIN tasks |-> tasks[t].direction]

load_task_triage_via_classify(ids) ==
    {t \in ids \cap DOMAIN tasks : tasks[t].direction = Triage /\ tasks[t].via = "classify"}

load_week(ids) == [w \in {x \in ids : weeks[x] # "absent"} |-> weeks[w]]

load_direction_status(ids) == [d \in {x \in ids : DirectionExists(x)} |-> direction_status(d)]

load_review_snap(ids) == [v \in {x \in ids : bodies[x].status # "absent"} |-> bodies[v]]

load_rhythm(ids) == [r \in ids \cap DOMAIN rhythms |-> rhythms[r].status = "retired"]

\* What the store looks up for a batch before it is validated: the rows its
\* operations name, as far as they exist, and of each what its kind asks for.
build_snapshot(ops) ==
    LET assigned == OpsOf({"AssignTaskDirection"}, ops)
        carried == OpsOf({"CarryOverTask"}, ops)
        moved == OpsOf({"TransitionTask"}, ops)
    IN  [tasks |-> load_task({op.task : op \in assigned \cup carried \cup moved}),
         task_parents |-> load_task_parent({op.parent : op \in OpsOf({"CreateTask"}, ops)} \ {None}),
         weeks |-> load_week({op.week : op \in OpsOf({"CreateTasks", "ReorderTasks"}, ops)}
                             \cup {op.to : op \in carried}),
         rhythms_retired |-> load_rhythm({op.rhythm : op \in OpsOf({"AdjustRhythm"}, ops)}),
         direction_statuses |-> load_direction_status({op.direction : op \in assigned}),
         task_directions |-> load_task_direction({op.task : op \in assigned}),
         reviews |-> load_review_snap({op.review : op \in OpsOf({"DraftReviewBody"}, ops)}),
         triage_via_classify |-> load_task_triage_via_classify({op.task : op \in assigned})]

\* The snapshot, and over it what the earlier operations of the batch have set.
Working(snap) == [ok |-> TRUE, ctx |-> snap, status |-> snap.tasks, direction |-> snap.task_directions,
                  body |-> [v \in DOMAIN snap.reviews |-> snap.reviews[v].body]]

Refused(w) == [w EXCEPT !.ok = FALSE]

task_status(w, t, P(_)) == t \in DOMAIN w.status /\ P(w.status[t])

require_open_week(w, id) == id \in DOMAIN w.ctx.weeks /\ week_is_open(w.ctx.weeks[id])

validate_CreateTask(w, op) ==
    IF \/ op.parent = None
       \/ op.parent \in DOMAIN w.ctx.task_parents /\ w.ctx.task_parents[op.parent] = None
    THEN w ELSE Refused(w)

\* Mutant: the overlay forgets the transition.
validate_TransitionTask_no_overlay(w, op) ==
    IF task_status(w, op.task, LAMBDA from : task_transition_allowed(from, op.to)) THEN w ELSE Refused(w)

validate_TransitionTask(w, op) ==
    IF task_status(w, op.task, LAMBDA from : task_transition_allowed(from, op.to))
    THEN [w EXCEPT !.status[op.task] = op.to]
    ELSE Refused(w)

validate_CreateTasks(w, op) ==
    IF op.tasks # <<>> /\ require_open_week(w, op.week) THEN w ELSE Refused(w)

reject_dupes(ids) == \A i, j \in DOMAIN ids : ids[i] = ids[j] => i = j

validate_ReorderTasks(w, op) ==
    IF require_open_week(w, op.week) /\ op.order # <<>> /\ reject_dupes(op.order)
    THEN w ELSE Refused(w)

validate_AdjustRhythm(w, op) ==
    IF /\ op.rhythm \in DOMAIN w.ctx.rhythms_retired
       /\ ~w.ctx.rhythms_retired[op.rhythm]
       /\ check_alloc(op.alloc)
    THEN w ELSE Refused(w)

validate_CarryOverTask(w, op) ==
    IF /\ task_status(w, op.task, LAMBDA from : task_transition_allowed(from, "carried_over"))
       /\ require_open_week(w, op.to)
    THEN [w EXCEPT !.status[op.task] = "carried_over"]
    ELSE Refused(w)

\* Mutant: whoever parked it, a task in Triage is up for grabs.
assignable_by_anyone(w, op, source) ==
    w.direction[op.task] = None \/ (w.direction[op.task] = Triage /\ op.direction # Triage)

\* A3: a task is assigned out of the inbox, or out of Triage by the user, or
\* out of Triage by classify when classify itself parked it there.
assignable(w, op, source) ==
    \/ w.direction[op.task] = None
    \/ /\ w.direction[op.task] = Triage
       /\ op.direction # Triage
       /\ source = "direct" \/ op.task \in w.ctx.triage_via_classify

validate_AssignTaskDirection(w, op, source) ==
    IF /\ op.task \in DOMAIN w.direction                                   \* A1
       /\ task_status(w, op.task, LAMBDA s : ~task_is_terminal(s))         \* A2
       /\ assignable(w, op, source)                                        \* A3
       /\ op.direction \in DOMAIN w.ctx.direction_statuses                 \* A4
       /\ ~direction_is_terminal(w.ctx.direction_statuses[op.direction])   \* A5
    THEN [w EXCEPT !.direction[op.task] = op.direction]
    ELSE Refused(w)

\* D1 to D7: the Review is a draft whose body still is the one the new text was
\* written against, and the text changes it.
validate_DraftReviewBody(w, op) ==
    IF /\ op.body # Blank
       /\ op.review \in DOMAIN w.ctx.reviews
       /\ w.ctx.reviews[op.review].status = "draft"
       /\ w.body[op.review] = op.base
       /\ op.body # op.base
    THEN [w EXCEPT !.body[op.review] = op.body]
    ELSE Refused(w)

validate_op(w, op, source) ==
    IF ~w.ok THEN w
    ELSE CASE op.op \in {"CreateArea", "CreateDirection"} -> w
           [] op.op = "CreateTask" -> validate_CreateTask(w, op)
           [] op.op = "TransitionTask" -> validate_TransitionTask(w, op)
           [] op.op = "CreateTasks" -> validate_CreateTasks(w, op)
           [] op.op = "ReorderTasks" -> validate_ReorderTasks(w, op)
           [] op.op = "AdjustRhythm" -> validate_AdjustRhythm(w, op)
           [] op.op = "CarryOverTask" -> validate_CarryOverTask(w, op)
           [] op.op = "AssignTaskDirection" -> validate_AssignTaskDirection(w, op, source)
           [] op.op = "DraftReviewBody" -> validate_DraftReviewBody(w, op)

validate(ops, source) ==
    /\ ops # <<>>
    /\ FoldLeft(LAMBDA w, op : validate_op(w, op, source), Working(build_snapshot(ops)), ops).ok
-----------------------------------------------------------------------------
(* Submitting.  A client can only name rows that exist, or rows that never   *)
(* will (id 0): ids are minted at random when a row is inserted.              *)

TaskRefs(op) ==
    CASE op.op \in {"TransitionTask", "CarryOverTask", "AssignTaskDirection"} -> {op.task}
      [] op.op = "ReorderTasks" -> Range(op.order)
      [] op.op = "CreateTask" -> {op.parent} \ {None}
      [] OTHER -> {}

DirectionRefs(op) ==
    CASE op.op \in {"CreateTask", "AssignTaskDirection"} -> {op.direction} \ {None, Triage}
      [] op.op = "CreateTasks" -> Range(op.tasks) \ {None, Triage}
      [] op.op = "AdjustRhythm" -> {op.alloc[i].direction : i \in DOMAIN op.alloc} \ {Triage}
      [] OTHER -> {}

Nameable(ops) ==
    \A i \in DOMAIN ops : /\ TaskRefs(ops[i]) \subseteq 0..Len(tasks)
                          /\ DirectionRefs(ops[i]) \subseteq 0..Len(directions)

\* The rows a batch inserts stay within the bounds of the world.
Inserts(kinds, ops) ==
    FoldLeft(LAMBDA n, op : IF op.op \notin kinds THEN n
                            ELSE IF op.op = "CreateTasks" THEN n + Len(op.tasks) ELSE n + 1,
             0, ops)

Fits(ops) ==
    /\ Len(tasks) + Inserts({"CreateTask", "CreateTasks", "CarryOverTask"}, ops) <= world.tasks
    /\ Len(areas) + Inserts({"CreateArea"}, ops) <= world.areas
    /\ Len(directions) + Inserts({"CreateDirection"}, ops) <= world.directions

allowed_ops(cap, ops) ==
    /\ ops # <<>>
    /\ \A i \in DOMAIN ops :
          ops[i].op \in CASE cap = "classify" -> {"AssignTaskDirection"}
                          [] cap = "summarize" -> {"DraftReviewBody"}
                          [] cap = "propose" -> {"CarryOverTask", "ReorderTasks", "CreateTasks"}

Pending(ops, source) == [status |-> "pending", ops |-> ops, source |-> source]

\* A fresh id is validated and stored.  The same id with the same operations
\* is a no-op; with other operations it is refused.
submit_proposal(p, ops) ==
    /\ tx = Idle
    /\ Nameable(ops)
    /\ IF proposals[p].status # "absent"
       THEN /\ proposals[p].ops = ops
            /\ UNCHANGED proposals
       ELSE /\ validate(ops, "direct")
            /\ proposals' = [proposals EXCEPT ![p] = Pending(ops, "direct")]
    /\ UNCHANGED <<areas, directions, weeks, tasks, rhythms, bodies, rejections, tx>>

currentTables == [areas |-> areas, directions |-> directions, tasks |-> tasks,
                    rhythms |-> rhythms, bodies |-> bodies]

Begin(mode, p, ops, source) ==
    tx' = [mode |-> mode, proposal |-> p, ops |-> ops, source |-> source, next |-> 1,
           saved |-> currentTables]

\* An AI capability hands in a batch under an id it has just minted: the ops
\* its capability allows, validated, then tried out.
submit(cap, p, ops) ==
    /\ tx = Idle
    /\ proposals[p].status = "absent"
    /\ Nameable(ops)
    /\ Fits(ops)
    /\ allowed_ops(cap, ops)
    /\ validate(ops, cap)
    /\ Begin("dry", p, ops, cap)
    /\ UNCHANGED <<areas, directions, weeks, tasks, rhythms, bodies, proposals, rejections>>

\* Accepting claims the row and validates the batch again, against the tables
\* as they are now.  An id that is not pending changes nothing.
apply_proposal(p) ==
    /\ tx = Idle
    /\ proposals[p].status = "pending"
    /\ Fits(proposals[p].ops)
    /\ validate(proposals[p].ops, proposals[p].source)
    /\ proposals' = [proposals EXCEPT ![p].status = "applying"]
    /\ Begin("accept", p, proposals[p].ops, proposals[p].source)
    /\ UNCHANGED <<areas, directions, weeks, tasks, rhythms, bodies, rejections>>

\* Mutant: the compare-and-set forgets which status it compares with.
reject_proposal_any(p) ==
    /\ tx = Idle
    /\ proposals[p].status # "absent"
    /\ Len(rejections) < 3
    /\ proposals' = [proposals EXCEPT ![p].status = "rejected"]
    /\ rejections' = Append(rejections, [proposal |-> p, source |-> proposals[p].source])
    /\ UNCHANGED <<areas, directions, weeks, tasks, rhythms, bodies, tx>>

reject_proposal(p) ==
    /\ tx = Idle
    /\ proposals[p].status = "pending"
    /\ proposals' = [proposals EXCEPT ![p].status = "rejected"]
    /\ rejections' = Append(rejections, [proposal |-> p, source |-> proposals[p].source])
    /\ UNCHANGED <<areas, directions, weeks, tasks, rhythms, bodies, tx>>
-----------------------------------------------------------------------------
(* apply_op: one step per operation, one action per arm.  What an arm checks  *)
(* for itself is its guard; failing it ends the transaction (RollBack).       *)

may_CreateTask(op) ==
    DirectionKeyHolds(op.direction) /\ (op.parent = None \/ TaskExists(op.parent))

may_TransitionTask(op) ==
    require_task_week_open(op.task) /\ task_transition_allowed(tasks[op.task].status, op.to)

may_CreateTasks(op) == \A i \in DOMAIN op.tasks : DirectionKeyHolds(op.tasks[i])

may_ReorderTasks(op) ==
    \A i \in DOMAIN op.order : TaskExists(op.order[i]) /\ tasks[op.order[i]].week = op.week

may_AdjustRhythm(op) ==
    /\ require_directions_exist(op.alloc)
    /\ rhythm_transition_allowed(rhythms[op.rhythm].status, "adjusted")

may_CarryOverTask(op) ==
    /\ require_task_week_open(op.task)
    /\ tasks[op.task].week # op.to
    /\ task_transition_allowed(tasks[op.task].status, "carried_over")

may_AssignTaskDirection(op) ==
    /\ require_task_week_open(op.task)
    /\ tasks[op.task].direction \in {None, Triage}

may_DraftReviewBody(op) == bodies[op.review].status = "draft"

CanApply(op) ==
    CASE op.op = "CreateTask" -> may_CreateTask(op)
      [] op.op = "TransitionTask" -> may_TransitionTask(op)
      [] op.op = "CreateTasks" -> may_CreateTasks(op)
      [] op.op = "ReorderTasks" -> may_ReorderTasks(op)
      [] op.op = "AdjustRhythm" -> may_AdjustRhythm(op)
      [] op.op = "CarryOverTask" -> may_CarryOverTask(op)
      [] op.op = "AssignTaskDirection" -> may_AssignTaskDirection(op)
      [] op.op = "DraftReviewBody" -> may_DraftReviewBody(op)
      [] OTHER -> TRUE

Applying == tx # Idle /\ tx.next <= Len(tx.ops)

\* The operation the open transaction has come to.
Current(kind) == Applying /\ tx.ops[tx.next].op = kind

Advance ==
    /\ tx' = [tx EXCEPT !.next = @ + 1]
    /\ UNCHANGED <<weeks, proposals, rejections>>

apply_CreateArea ==
    /\ Current("CreateArea")
    /\ LET op == tx.ops[tx.next]
       IN  areas' = Append(areas, [slug |-> allocate_area_slug(op.base), status |-> "active"])
    /\ Advance
    /\ UNCHANGED <<directions, tasks, rhythms, bodies>>

apply_CreateDirection ==
    /\ Current("CreateDirection")
    /\ directions' = Append(directions, [area |-> None])
    /\ Advance
    /\ UNCHANGED <<areas, tasks, rhythms, bodies>>

apply_CreateTask ==
    /\ Current("CreateTask")
    /\ LET op == tx.ops[tx.next]
       IN  /\ may_CreateTask(op)
           /\ tasks' = Append(tasks, NewTask("backlog", op.direction, None, op.parent,
                                             triage_stamp(op.direction), None))
    /\ Advance
    /\ UNCHANGED <<areas, directions, rhythms, bodies>>

apply_TransitionTask ==
    /\ Current("TransitionTask")
    /\ LET op == tx.ops[tx.next]
       IN  /\ may_TransitionTask(op)
           /\ tasks' = [tasks EXCEPT ![op.task].status = op.to]
    /\ Advance
    /\ UNCHANGED <<areas, directions, rhythms, bodies>>

apply_CreateTasks ==
    /\ Current("CreateTasks")
    /\ LET op == tx.ops[tx.next]
       IN  /\ may_CreateTasks(op)
           /\ tasks' = tasks \o [i \in DOMAIN op.tasks |->
                                    NewTask("planned", op.tasks[i], op.week, None,
                                            triage_stamp(op.tasks[i]), None)]
    /\ Advance
    /\ UNCHANGED <<areas, directions, rhythms, bodies>>

\* Only the sort keys change, which are left out.
apply_ReorderTasks ==
    /\ Current("ReorderTasks")
    /\ may_ReorderTasks(tx.ops[tx.next])
    /\ Advance
    /\ UNCHANGED <<areas, directions, tasks, rhythms, bodies>>

apply_AdjustRhythm ==
    /\ Current("AdjustRhythm")
    /\ LET op == tx.ops[tx.next]
       IN  /\ may_AdjustRhythm(op)
           /\ rhythms' = [rhythms EXCEPT ![op.rhythm] = [status |-> "adjusted", alloc |-> op.alloc]]
    /\ Advance
    /\ UNCHANGED <<areas, directions, tasks, bodies>>

\* The source closes and a planned successor opens in the target week, with the
\* Direction, the parent and the provenance of its source.
apply_CarryOverTask ==
    /\ Current("CarryOverTask")
    /\ LET op == tx.ops[tx.next]
           src == tasks[op.task]
       IN  /\ may_CarryOverTask(op)
           /\ tasks' = Append([tasks EXCEPT ![op.task].status = "carried_over"],
                              NewTask("planned", src.direction, op.to, src.parent, src.via,
                                      op.task))
    /\ Advance
    /\ UNCHANGED <<areas, directions, rhythms, bodies>>

\* Mutant: moving out of Triage leaves the stamp.
triage_via_for_kept(direction, source) == source

\* Into Triage stamps who parked the task; out of it clears the stamp.
triage_via_for(direction, source) == IF direction = Triage THEN source ELSE None

apply_AssignTaskDirection ==
    /\ Current("AssignTaskDirection")
    /\ LET op == tx.ops[tx.next]
       IN  /\ may_AssignTaskDirection(op)
           /\ tasks' = [tasks EXCEPT ![op.task].direction = op.direction,
                                     ![op.task].via = triage_via_for(op.direction, tx.source)]
    /\ Advance
    /\ UNCHANGED <<areas, directions, rhythms, bodies>>

apply_DraftReviewBody ==
    /\ Current("DraftReviewBody")
    /\ LET op == tx.ops[tx.next]
       IN  /\ may_DraftReviewBody(op)
           /\ bodies' = [bodies EXCEPT ![op.review].body = op.body]
    /\ Advance
    /\ UNCHANGED <<areas, directions, tasks, rhythms>>

apply_op ==
    \/ apply_CreateArea \/ apply_CreateDirection \/ apply_CreateTask
    \/ apply_TransitionTask \/ apply_CreateTasks \/ apply_ReorderTasks
    \/ apply_AdjustRhythm \/ apply_CarryOverTask \/ apply_AssignTaskDirection
    \/ apply_DraftReviewBody

Restore ==
    /\ areas' = tx.saved.areas
    /\ directions' = tx.saved.directions
    /\ tasks' = tx.saved.tasks
    /\ rhythms' = tx.saved.rhythms
    /\ bodies' = tx.saved.bodies
    /\ tx' = Idle
    /\ UNCHANGED <<weeks, rejections>>

\* Dropping the transaction also undoes the claim of an accept.
Unclaim ==
    proposals' = IF tx.mode = "accept"
                 THEN [proposals EXCEPT ![tx.proposal].status = "pending"]
                 ELSE proposals

\* An arm of apply_op returns an error.
RollBack == Applying /\ ~CanApply(tx.ops[tx.next]) /\ Restore /\ Unclaim

\* The process dies with the transaction open.
Crash == tx # Idle /\ Restore /\ Unclaim

CommitAccept ==
    /\ tx # Idle /\ tx.mode = "accept" /\ tx.next > Len(tx.ops)
    /\ proposals' = [proposals EXCEPT ![tx.proposal].status = "applied"]
    /\ tx' = Idle
    /\ UNCHANGED <<areas, directions, weeks, tasks, rhythms, bodies, rejections>>

\* ROLLBACK TO the savepoint, then the proposal and its call row are inserted.
CommitDryRun ==
    /\ tx # Idle /\ tx.mode = "dry" /\ tx.next > Len(tx.ops)
    /\ Restore
    /\ proposals' = [proposals EXCEPT ![tx.proposal] = Pending(tx.ops, tx.source)]
=============================================================================

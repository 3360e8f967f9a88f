------------------------------- MODULE Planning -------------------------------
(***************************************************************************)
(* The planning tables of the store (Areas, Directions, Weeks, Tasks,      *)
(* Rhythms and Review bodies), their status machines, and the writes the   *)
(* human routes make to them directly, each one BEGIN IMMEDIATE            *)
(* transaction.  What a Proposal may do to them is module Proposals.       *)
(*                                                                         *)
(* A minted id is the position its row is appended at.  Titles, windows,   *)
(* energies, estimates and timestamps are left out; of a title only the    *)
(* slug an Area derives from it is kept, a tuple of numbers for its parts. *)
(***************************************************************************)
EXTENDS Naturals, Sequences, FiniteSets, SequencesExt

CONSTANTS
    WeekIds,    \* ISO weeks
    ReviewIds,  \* Reviews, by (kind, period)
    Bodies,     \* Review bodies that are not blank; a body stands for its digest
    Blank,      \* the empty body of a fresh Review
    None,       \* an absent column
    Triage,     \* the reserved Direction every database starts with
    Worlds      \* the bounds a behaviour may run in: records of row counts, of the
                \* weeks and Reviews in use, and of the batches clients may submit

ASSUME PlanningAssumption ==
    /\ None # Triage
    /\ None \notin Nat \cup WeekIds \cup {"direct", "classify"}
    /\ Triage \notin Nat
    /\ Blank \notin Bodies

VARIABLES
    areas,      \* sin90_areas: slug and status
    directions, \* sin90_directions, without Triage: the area of each
    weeks,      \* sin90_weeks: status of each ISO week
    tasks,      \* sin90_tasks
    rhythms,    \* sin90_rhythms: status and allocations
    bodies,     \* sin90_reviews: status and body of each Review
    world       \* the bounds of this behaviour; never changes

tables == <<areas, directions, tasks, rhythms, bodies>>

AreaStatus == {"active", "archived"}
WeekStatus == {"absent", "planning", "active", "reviewing", "closed"}
TaskStatus == {"backlog", "planned", "in_progress", "done", "dropped", "carried_over"}
RhythmStatus == {"active", "adjusted", "retired"}
ReviewStatus == {"absent", "draft", "finalized"}

\* direction_id as the program can hold it: a Direction that exists.
DirectionExists(d) == d = Triage \/ d \in DOMAIN directions
TaskExists(t) == t \in DOMAIN tasks

TaskRow == [status : TaskStatus, direction : Nat \cup {None, Triage}, week : WeekIds \cup {None},
            parent : Nat \cup {None}, via : {None, "direct", "classify"}, from : Nat \cup {None}]

Alloc == [direction : Nat \cup {Triage}, pct : Nat]

AreaRow == [slug : Seq(Nat), status : AreaStatus]
DirectionRow == [area : Nat \cup {None}]
RhythmRow == [status : RhythmStatus, alloc : Seq(Alloc)]
ReviewRow == [status : ReviewStatus, body : Bodies \cup {Blank}]

PlanningTypeOK ==
    /\ areas \in Seq(AreaRow)
    /\ directions \in Seq(DirectionRow)
    /\ weeks \in [WeekIds -> WeekStatus]
    /\ tasks \in Seq(TaskRow)
    /\ rhythms \in Seq(RhythmRow)
    /\ bodies \in [ReviewIds -> ReviewRow]

PlanningInit ==
    /\ areas = <<>>
    /\ directions = <<>>
    /\ weeks = [w \in WeekIds |-> "absent"]
    /\ tasks = <<>>
    /\ rhythms = <<>>
    /\ bodies = [v \in ReviewIds |-> [status |-> "absent", body |-> Blank]]
    /\ world \in Worlds

-----------------------------------------------------------------------------
(* core/transitions.rs *)

area_transition_allowed(from, to) ==
    <<from, to>> \in {<<"active", "archived">>, <<"archived", "active">>}

task_transition_allowed(from, to) ==
    <<from, to>> \in {"backlog"} \X {"planned", "dropped"}
           \cup {"planned"} \X {"in_progress", "dropped", "carried_over"}
           \cup {"in_progress"} \X {"done", "dropped", "carried_over"}

task_is_terminal(s) == s \in {"done", "dropped", "carried_over"}

week_transition_allowed(from, to) ==
    <<from, to>> \in {<<"planning", "active">>, <<"active", "reviewing">>,
                      <<"reviewing", "closed">>}

week_is_open(s) == s \in {"planning", "active"}

rhythm_transition_allowed(from, to) ==
    <<from, to>> \in {"active", "adjusted"} \X {"adjusted", "retired"}

review_transition_allowed(from, to) == <<from, to>> = <<"draft", "finalized">>

direction_is_terminal(s) == s \in {"achieved", "abandoned"}

\* No route moves a Direction: one is a draft for ever, the seeded Triage is
\* active.
direction_status(d) == IF d = Triage THEN "active" ELSE "draft"

-----------------------------------------------------------------------------
(* Helpers the direct writes and the operations share *)

\* The base slug, then the base with -2, -3, ...: the first one free.
allocate_area_slug(base) ==
    LET taken == {areas[a].slug : a \in DOMAIN areas}
        tries == <<base>> \o [n \in 1..Len(areas) |-> Append(base, n + 1)]
    IN  tries[CHOOSE n \in DOMAIN tries :
                 /\ tries[n] \notin taken
                 /\ \A m \in 1..n-1 : tries[m] \in taken]

\* Non-empty, every share in 1..100, no Direction twice, at most 100 in all.
check_alloc(alloc) ==
    /\ alloc # <<>>
    /\ \A i \in DOMAIN alloc : alloc[i].pct \in 1..100
    /\ \A i, j \in DOMAIN alloc : alloc[i].direction = alloc[j].direction => i = j
    /\ FoldLeft(LAMBDA sum, a : sum + a.pct, 0, alloc) <= 100

require_directions_exist(alloc) == \A i \in DOMAIN alloc : DirectionExists(alloc[i].direction)

\* Mutant: the week of the task is not looked at.
require_task_week_open_never(t) == TRUE

\* A task outside any week may always change; one in a week only while that
\* week is open.
require_task_week_open(t) == tasks[t].week # None => week_is_open(weeks[tasks[t].week])

\* A row filed straight into Triage is stamped as the user's own filing.
triage_stamp(d) == IF d = Triage THEN "direct" ELSE None

\* FOREIGN KEY of sin90_tasks.direction_id.
DirectionKeyHolds(d) == d = None \/ DirectionExists(d)

\* Mutant: the grandparent is not looked at.
parent_allowed_any(p) == p = None \/ TaskExists(p)

\* Nesting is one level deep: a parent exists and has no parent itself.
parent_allowed(p) == p = None \/ (TaskExists(p) /\ tasks[p].parent = None)

-----------------------------------------------------------------------------
(* Direct writes of the human routes (and capture, which either key may use) *)

create_area(base) ==
    /\ Len(areas) < world.areas
    /\ areas' = Append(areas, [slug |-> allocate_area_slug(base), status |-> "active"])
    /\ UNCHANGED <<directions, weeks, tasks, rhythms, bodies>>

transition_area(a, to) ==
    /\ area_transition_allowed(areas[a].status, to)
    /\ areas' = [areas EXCEPT ![a].status = to]
    /\ UNCHANGED <<directions, weeks, tasks, rhythms, bodies>>

create_direction(area) ==
    /\ Len(directions) < world.directions
    /\ area = None \/ area \in DOMAIN areas
    /\ directions' = Append(directions, [area |-> area])
    /\ UNCHANGED <<areas, weeks, tasks, rhythms, bodies>>

create_rhythm(alloc) ==
    /\ Len(rhythms) < world.rhythms
    /\ check_alloc(alloc)
    /\ require_directions_exist(alloc)
    /\ rhythms' = Append(rhythms, [status |-> "active", alloc |-> alloc])
    /\ UNCHANGED <<areas, directions, weeks, tasks, bodies>>

\* One Week per ISO week: a second one is a conflict.
create_week(w) ==
    /\ w \in world.weeks
    /\ weeks[w] = "absent"
    /\ weeks' = [weeks EXCEPT ![w] = "planning"]
    /\ UNCHANGED tables

transition_week(w, to) ==
    /\ week_transition_allowed(weeks[w], to)
    /\ weeks' = [weeks EXCEPT ![w] = to]
    /\ UNCHANGED tables

NewTask(status, direction, week, parent, via, from) ==
    [status |-> status, direction |-> direction, week |-> week, parent |-> parent,
     via |-> via, from |-> from]

create_task(d, p) ==
    /\ Len(tasks) < world.direct
    /\ parent_allowed(p)
    /\ DirectionKeyHolds(d)
    /\ tasks' = Append(tasks, NewTask("backlog", d, None, p, triage_stamp(d), None))
    /\ UNCHANGED <<areas, directions, weeks, rhythms, bodies>>

transition_task(t, to) ==
    /\ require_task_week_open(t)
    /\ task_transition_allowed(tasks[t].status, to)
    /\ tasks' = [tasks EXCEPT ![t].status = to]
    /\ UNCHANGED <<areas, directions, weeks, rhythms, bodies>>

create_review(v) ==
    /\ v \in world.reviews
    /\ bodies[v].status = "absent"
    /\ bodies' = [bodies EXCEPT ![v] = [status |-> "draft", body |-> Blank]]
    /\ UNCHANGED <<areas, directions, weeks, tasks, rhythms>>

\* The body the user types; restating it changes nothing.
update_review_body(v, body) ==
    /\ bodies[v].status = "draft"
    /\ bodies' = [bodies EXCEPT ![v].body = body]
    /\ UNCHANGED <<areas, directions, weeks, tasks, rhythms>>

finalize_review(v) ==
    /\ review_transition_allowed(bodies[v].status, "finalized")
    /\ bodies' = [bodies EXCEPT ![v].status = "finalized"]
    /\ UNCHANGED <<areas, directions, weeks, tasks, rhythms>>
=============================================================================

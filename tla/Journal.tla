-------------------------------- MODULE Journal --------------------------------
(***************************************************************************)
(* What is derived from the append-only event log: attention (replayed, and *)
(* materialised by day), the weekly draft and its automatic Review, and the *)
(* summarize run that may rewrite that Review.  Schedule blocks, fires of   *)
(* Routines delivered by the kernel, and the user's own edits feed it.      *)
(*                                                                         *)
(* Time is a count of ticks that does not pass at every event: the program *)
(* stamps whole seconds.  An event keeps the columns and the payload fields *)
(* some replay reads.                                                       *)
(***************************************************************************)
EXTENDS Calendar, Narrative

CONSTANTS
    Routines,       \* Routine ids
    ReviewRoutines, \* those of kind review
    FireIds,        \* X-A24-Fire-Id of the deliveries the kernel makes
    Texts,          \* what the user may type into a Review
    Minutes,        \* planned minutes of a block
    None,
    Worlds          \* of a behaviour: first day, ticks of a day, zone, last tick, rows,
                    \* fires, drafts

ASSUME JournalAssumption ==
    /\ Minutes \subseteq Nat
    /\ ReviewRoutines \subseteq Routines
    /\ None \notin Nat \cup (Int \X Int) \cup [routine : Routines, received_at : Nat]
    /\ \A w \in Worlds : w.start \in Int /\ w.per_day \in Nat \ {0} /\ w.last \in Nat
    /\ \A w \in Worlds : w.title \in Seq(STRING)

VARIABLES
    now,        \* the clock
    events,     \* sin90_events; seq is the position
    directions, \* sin90_directions: area_id
    tasks,      \* sin90_tasks: week_id, direction_id, status, created_at
    blocks,     \* sin90_schedule_blocks
    routines,   \* sin90_routines: status
    fires,      \* sin90_routine_fires: fire_id -> routine and received_at
    reviews,    \* sin90_reviews of kind weekly, by period
    daily,      \* sin90_attention_daily: (day, direction) -> minutes
    watermark,  \* sin90_attention_watermark
    rebuilding, \* attention_rebuild between its two transactions
    drafts,     \* proposals of summarize, each one DraftReviewBody, in order
    rejections, \* sin90_proposal_rejections: which of them, in order
    run,        \* the summarize run
    weeks,      \* the weeks its days fall into: [start, end); never changes
    world       \* the bounds of this behaviour; never changes

log == <<events, daily, watermark, rebuilding>>
plan == <<directions, tasks, blocks>>
reflect == <<reviews, drafts, rejections, run>>
scope == <<weeks, world>>
vars == <<now, log, plan, routines, fires, reflect, scope>>

day_of(at) == world.start + at \div world.per_day
Weeks == DOMAIN weeks

iso_week_of(at) == iso_week_of_day(day_of(at))

InWeek(e, bounds) == bounds.start <= day_of(e.at) /\ day_of(e.at) < bounds.end

Event(entity, id, kind, to, payload) ==
    [entity |-> entity, id |-> id, kind |-> kind, to |-> to, at |-> now, payload |-> payload]

append_event(entity, id, kind, to, payload) ==
    Append(events, Event(entity, id, kind, to, payload))

\* Bound of the log: a step that writes has room for the events it writes.
Room == Len(events) < world.events

Idle == [pc |-> "idle"]
Blank == [by |-> "nobody"]
NoReview == [status |-> "absent", body |-> Blank]

Completed(e) == e.entity = "block" /\ e.kind = "transitioned" /\ e.to = "completed"

CompletedIn(es, bounds) == {i \in DOMAIN es : Completed(es[i]) /\ InWeek(es[i], bounds)}

\* The minutes of some completions of es.
MinutesAt(es, seqs) == SumFunction([i \in seqs |-> es[i].payload.minutes])

\* Completions of es grouped by key, each group with its minutes.
MinutesBy(es, seqs, key(_)) ==
    [k \in {key(es[i]) : i \in seqs} |-> MinutesAt(es, {i \in seqs : key(es[i]) = k})]

Init ==
    /\ world \in Worlds
    /\ now = 0
    /\ events = <<>>
    /\ directions = <<>> /\ tasks = <<>> /\ blocks = <<>>
    /\ routines = [r \in Routines |-> "active"]
    /\ fires = [f \in FireIds |-> None]
    /\ weeks = [w \in {iso_week_of(at) : at \in 0..world.last} |-> iso_week_bounds(w)]
    /\ reviews = [w \in DOMAIN weeks |-> NoReview]
    /\ daily = <<>>
    /\ watermark = 0
    /\ rebuilding = FALSE
    /\ drafts = <<>> /\ rejections = <<>>
    /\ run = Idle

Tick ==
    /\ now < world.last
    /\ now' = now + 1
    /\ UNCHANGED <<log, plan, routines, fires, reflect, scope>>

-----------------------------------------------------------------------------
(* Blocks *)

create_direction(area) ==
    /\ Len(directions) < world.directions
    /\ directions' = Append(directions, area)
    /\ events' = append_event("direction", Len(directions) + 1, "created", "draft",
                              [area |-> area])
    /\ UNCHANGED <<now, daily, watermark, rebuilding, tasks, blocks, routines, fires, reflect,
                   scope>>

InsertTask(w, d, status, payload) ==
    /\ Len(tasks) < world.tasks
    /\ tasks' = Append(tasks, [week |-> w, direction |-> d, status |-> status,
                               created_at |-> now])
    /\ events' = append_event("task", Len(tasks) + 1, "created", status, payload)
    /\ UNCHANGED <<now, daily, watermark, rebuilding, directions, blocks, routines, fires,
                   reflect, scope>>

create_task(d) == InsertTask(None, d, "backlog", [direction |-> d])

\* A task gets its week when an accepted CreateTasks makes it, and never changes it.
apply_create_tasks(w, d) ==
    InsertTask(w, d, "planned", [week |-> w, direction |-> d])

task_transition_allowed(from, to) ==
    <<from, to>> \in {"backlog"} \X {"planned", "dropped"}
           \cup {"planned"} \X {"in_progress", "dropped", "carried_over"}
           \cup {"in_progress"} \X {"done", "dropped", "carried_over"}

task_is_terminal(status) == status \in {"done", "dropped", "carried_over"}

transition_task(t, to) ==
    /\ task_transition_allowed(tasks[t].status, to)
    /\ tasks' = [tasks EXCEPT ![t].status = to]
    /\ events' = append_event("task", t, "transitioned", to, <<>>)
    /\ UNCHANGED <<now, daily, watermark, rebuilding, directions, blocks, routines, fires,
                   reflect, scope>>

\* The accepted assignment of a task still in the inbox.
apply_assign_task_direction(t, d) ==
    /\ tasks[t].direction = None
    /\ ~task_is_terminal(tasks[t].status)
    /\ tasks' = [tasks EXCEPT ![t].direction = d]
    /\ events' = append_event("task", t, "direction_assigned", None, [direction |-> d])
    /\ UNCHANGED <<now, daily, watermark, rebuilding, directions, blocks, routines, fires,
                   reflect, scope>>

ScheduleBlockStatus == {"planned", "started", "completed", "skipped"}

ScheduleBlock(d, t, minutes) ==
    [direction |-> d, task |-> t, minutes |-> minutes, status |-> "planned"]

create_block(d, t, minutes) ==
    /\ Len(blocks) < world.blocks
    /\ d = None \/ d \in DOMAIN directions
    /\ t = None \/ t \in DOMAIN tasks
    /\ blocks' = Append(blocks, ScheduleBlock(d, t, minutes))
    /\ events' = append_event("block", Len(blocks) + 1, "created", "planned", <<>>)
    /\ UNCHANGED <<now, daily, watermark, rebuilding, directions, tasks, routines, fires,
                   reflect, scope>>

schedule_block_transition_allowed(from, to) ==
    <<from, to>> \in {"planned"} \X {"started", "skipped"}
           \cup {"started"} \X {"completed", "skipped"}

\* The event says by itself what a replay needs: direction, minutes, and the
\* week the block's task is in.
transition_block(b, to) ==
    /\ schedule_block_transition_allowed(blocks[b].status, to)
    /\ blocks' = [blocks EXCEPT ![b].status = to]
    /\ LET t == blocks[b].task
       IN  events' = append_event("block", b, "transitioned", to,
                        [direction |-> blocks[b].direction, minutes |-> blocks[b].minutes,
                         week |-> IF t = None THEN None ELSE tasks[t].week])
    /\ UNCHANGED <<now, daily, watermark, rebuilding, directions, tasks, routines, fires,
                   reflect, scope>>
-----------------------------------------------------------------------------
(* Attention *)

attention_on(es, w) == MinutesBy(es, CompletedIn(es, weeks[w]), LAMBDA e : e.payload.direction)

\* Planned minutes join the live rows; actual minutes replay the payloads.
planned_min(w) ==
    LET in_week == {b \in DOMAIN blocks : blocks[b].task # None /\ tasks[blocks[b].task].week = w}
    IN  SumFunction([b \in in_week |-> blocks[b].minutes])
actual_min(w) ==
    MinutesAt(events, {i \in DOMAIN events : Completed(events[i]) /\ events[i].payload.week = w})
week_attention(w) ==
    [planned |-> planned_min(w), actual |-> actual_min(w),
     deviation |-> actual_min(w) - planned_min(w)]

Bucket(e) == <<day_of(e.at), e.payload.direction>>

\* The upsert of one completion: add to its bucket, or open it.
AddRow(view, e) ==
    IF ~Completed(e) THEN view
    ELSE [k \in DOMAIN view \cup {Bucket(e)} |->
             (IF k \in DOMAIN view THEN view[k] ELSE 0)
             + (IF k = Bucket(e) THEN e.payload.minutes ELSE 0)]

\* Mutant: the last applied event again.
NotYetApplied_inclusive ==
    SubSeq(events, IF watermark = 0 THEN 1 ELSE watermark, Len(events))

NotYetApplied == SubSeq(events, watermark + 1, Len(events))

Fold(view, es) == FoldLeft(AddRow, view, es)

attention_apply_new_events ==
    /\ world.attention
    /\ Len(events) > watermark
    /\ daily' = Fold(daily, NotYetApplied)
    /\ watermark' = Len(events)
    /\ rebuilding' = FALSE
    /\ UNCHANGED <<now, events, plan, routines, fires, reflect, scope>>

\* A rebuild clears the view in one transaction and applies in a second:
\* anything, another apply included, may come between them.
attention_rebuild ==
    /\ world.attention
    /\ ~rebuilding
    /\ daily' = <<>>
    /\ watermark' = 0
    /\ rebuilding' = TRUE
    /\ UNCHANGED <<now, events, plan, routines, fires, reflect, scope>>

-----------------------------------------------------------------------------
(* The weekly draft and the fires of Routines *)

direction_area_snapshot_on(es) ==
    LET created == {i \in DOMAIN es : es[i].entity = "direction" /\ es[i].kind = "created"}
    IN  [d \in {es[i].id : i \in created} |->
            es[CHOOSE i \in created : es[i].id = d].payload.area]

by_area(es, w) ==
    LET area_of == direction_area_snapshot_on(es)
    IN  MinutesBy(es, CompletedIn(es, weeks[w]),
            LAMBDA e : IF e.payload.direction \in DOMAIN area_of
                       THEN area_of[e.payload.direction] ELSE None)

tasks_done(es, w) ==
    LET bounds == weeks[w]
    IN  Cardinality({i \in DOMAIN es : /\ es[i].entity = "task" /\ es[i].kind = "transitioned"
                                       /\ es[i].to = "done" /\ InWeek(es[i], bounds)})

RoutinesFired(es, w) ==
    LET bounds == weeks[w]
        fired == {i \in DOMAIN es : /\ es[i].entity = "routine" /\ es[i].kind = "fired"
                                    /\ InWeek(es[i], bounds)}
    IN  [r \in {es[i].id : i \in fired} |-> Cardinality({i \in fired : es[i].id = r})]

weekly_draft_on(es, w) ==
    [week |-> w, by_area |-> by_area(es, w), by_direction |-> attention_on(es, w),
     tasks_done |-> tasks_done(es, w), routines |-> RoutinesFired(es, w)]

\* Two renderings of the same numbers: the automatic Review's, and the facts
\* block of summarize, which may carry a narrative behind it.
render_weekly_draft_markdown(draft) == [by |-> "routine", draft |-> draft]
render_facts(draft) == [by |-> "facts", draft |-> draft]
compose_body(draft, narrative) ==
    IF narrative = None THEN render_facts(draft)
    ELSE [by |-> "narrative", draft |-> draft, paras |-> narrative]

RoutineStatus == {"active", "paused", "retired"}

routine_transition_allowed(from, to) ==
    <<from, to>> \in {<<"active", "paused">>, <<"paused", "active">>,
                      <<"active", "retired">>, <<"paused", "retired">>}

transition_routine(r, to) ==
    /\ r \in world.moved
    /\ routine_transition_allowed(routines[r], to)
    /\ routines' = [routines EXCEPT ![r] = to]
    /\ events' = append_event("routine", r, to, to, <<>>)
    /\ UNCHANGED <<now, daily, watermark, rebuilding, plan, fires, reflect, scope>>

\* Mutant: fire_id not looked at.
is_new_fire_always(f) == TRUE

is_new_fire(f) == fires[f] = None

\* How a delivery is answered; only a recorded one changes anything.
RoutineFireOutcome(f, r) ==
    IF routines[r] = "retired" THEN "routine_retired"
    ELSE IF is_new_fire(f) THEN "recorded" ELSE "duplicate"

\* Mutant: the draft is rendered before the event.
RenderedFrom_before(fired) == events

\* The log that the body is rendered from: it holds this fire's own event.
RenderedFrom(fired) == fired

\* A Review of the week, draft or finalized, is left alone.
insert_weekly_review_draft_if_absent(fired, w) ==
    IF reviews[w].status = "absent"
    THEN /\ events' = Append(fired, Event("review", w, "created", "draft", <<>>))
         /\ reviews' = [reviews EXCEPT ![w] =
                           [status |-> "draft",
                            body |-> render_weekly_draft_markdown(
                                         weekly_draft_on(RenderedFrom(fired), w))]]
    ELSE events' = fired /\ UNCHANGED reviews

record_routine_fire(f, r, scheduled_for) ==
    LET fired == append_event("routine", r, "fired", None, [fire |-> f])
    IN  /\ RoutineFireOutcome(f, r) = "recorded"
        /\ fires' = [fires EXCEPT ![f] = [routine |-> r, received_at |-> now]]
        /\ IF r \in ReviewRoutines
           THEN insert_weekly_review_draft_if_absent(fired, iso_week_of(scheduled_for))
           ELSE events' = fired /\ UNCHANGED reviews
        /\ UNCHANGED <<now, daily, watermark, rebuilding, plan, routines, drafts, rejections,
                       run, scope>>

\* One delivery of the kernel, for a slot that has come, received now: the first,
\* a repeated one or a late one.  Every outcome is answered 2xx.
scheduler_fired(f, r, scheduled_for) ==
    /\ scheduled_for <= now
    /\ Cardinality({g \in FireIds : fires[g] # None}) < world.fires
    /\ record_routine_fire(f, r, scheduled_for)
-----------------------------------------------------------------------------
(* The user's Review *)

create_review(w) ==
    /\ world.edits
    /\ validate_review_period("weekly", w)
    /\ reviews[w].status = "absent"
    /\ reviews' = [reviews EXCEPT ![w] = [status |-> "draft", body |-> Blank]]
    /\ events' = append_event("review", w, "created", "draft", <<>>)
    /\ UNCHANGED <<now, daily, watermark, rebuilding, plan, routines, fires, drafts, rejections,
                   run, scope>>

update_review_body(w, body) ==
    /\ world.edits
    /\ reviews[w].status = "draft"
    /\ body # reviews[w].body
    /\ reviews' = [reviews EXCEPT ![w].body = body]
    /\ events' = append_event("review", w, "updated", None, <<>>)
    /\ UNCHANGED <<now, daily, watermark, rebuilding, plan, routines, fires, drafts, rejections,
                   run, scope>>

finalize_review(w) ==
    /\ world.edits
    /\ reviews[w].status = "draft"
    /\ reviews' = [reviews EXCEPT ![w].status = "finalized"]
    /\ events' = append_event("review", w, "finalized", "finalized", <<>>)
    /\ UNCHANGED <<now, daily, watermark, rebuilding, plan, routines, fires, drafts, rejections,
                   run, scope>>

-----------------------------------------------------------------------------
(* Summarize *)

select_review(w) == reviews[w].status = "draft"

\* The target is checked, then the slot is claimed: the run keeps the Review it
\* read here.
trigger_summarize(w) ==
    /\ Len(drafts) < world.drafts
    /\ select_review(w)
    /\ run = Idle
    /\ run' = [pc |-> "dedup", week |-> w, base |-> reviews[w].body]
    /\ UNCHANGED <<now, log, plan, routines, fires, reviews, drafts, rejections, scope>>

\* What the dry run of a DraftReviewBody asks, now and when it is accepted.
StillApplies(d) ==
    /\ reviews[d.week].status = "draft"
    /\ reviews[d.week].body = d.base
    /\ d.body # d.base

week_activity_since(w, since) ==
    LET bounds == weeks[w]
    IN  \E i \in DOMAIN events :
            events[i].entity \in {"task", "routine"} /\ InWeek(events[i], bounds)
            /\ events[i].at > since

Covered(w) ==
    \E i \in DOMAIN drafts :
        drafts[i].status = "pending" /\ drafts[i].week = w /\ StillApplies(drafts[i])

\* The latest rejection decides: body unchanged since, and a quiet week.
Suppressed(w) ==
    LET rejected == SelectSeq(rejections, LAMBDA i : drafts[i].week = w)
    IN  /\ rejected # <<>>
        /\ LET d == drafts[Last(rejected)]
           IN  reviews[w].body = d.base /\ ~week_activity_since(w, d.at)

dedup_summarize ==
    /\ run.pc = "dedup"
    /\ run' = IF Covered(run.week) \/ Suppressed(run.week)
              THEN Idle ELSE [run EXCEPT !.pc = "read"]
    /\ UNCHANGED <<now, log, plan, routines, fires, reviews, drafts, rejections, scope>>

Candidates(draft) == {render_facts(draft), render_weekly_draft_markdown(draft)}

\* Mutant: any body may be rewritten.
is_program_only_any(body, candidates) == TRUE

is_program_only(body, candidates) == body = Blank \/ body \in candidates

\* The numbers are read here, the body was read at the trigger.
read_weekly_draft ==
    /\ run.pc = "read"
    /\ LET draft == weekly_draft_on(events, run.week)
       IN  run' = IF is_program_only(run.base, Candidates(draft))
                  THEN [pc |-> "decide", week |-> run.week, base |-> run.base, draft |-> draft,
                        reply |-> <<>>]
                  ELSE Idle
    /\ UNCHANGED <<now, log, plan, routines, fires, reviews, drafts, rejections, scope>>

model_writes(c) ==
    /\ run.pc = "decide"
    /\ Len(run.reply) < world.reply
    /\ run' = [run EXCEPT !.reply = Append(@, c)]
    /\ UNCHANGED <<now, log, plan, routines, fires, reviews, drafts, rejections, scope>>

parse_summarize_reply(reply) ==
    IF Accepted(reply) THEN fill_narrative(reply, world.title) ELSE None

\* Reflex always has an answer, the facts alone; a reply that passes adds a
\* narrative.
run_summarize ==
    /\ run.pc = "decide"
    /\ run' = Idle
    /\ LET d == [week |-> run.week, base |-> run.base, at |-> now, status |-> "pending",
                 body |-> compose_body(run.draft, parse_summarize_reply(run.reply))]
       IN  IF StillApplies(d)
           THEN /\ drafts' = Append(drafts, d)
                /\ events' = append_event("proposal", Len(drafts) + 1, "submitted", None, <<>>)
           ELSE UNCHANGED <<drafts, events>>
    /\ UNCHANGED <<now, daily, watermark, rebuilding, plan, routines, fires, reviews, rejections,
                   scope>>

\* Capacity, an abort, the hard deadline or a failed read: nothing is written.
run_ends ==
    /\ run.pc \in {"read", "decide"}
    /\ run' = Idle
    /\ UNCHANGED <<now, log, plan, routines, fires, reviews, drafts, rejections, scope>>

apply_draft(i) ==
    /\ drafts[i].status = "pending"
    /\ StillApplies(drafts[i])
    /\ drafts' = [drafts EXCEPT ![i].status = "accepted"]
    /\ reviews' = [reviews EXCEPT ![drafts[i].week].body = drafts[i].body]
    /\ events' = append_event("review", drafts[i].week, "updated", None, <<>>)
    /\ UNCHANGED <<now, daily, watermark, rebuilding, plan, routines, fires, rejections, run,
                   scope>>

reject_draft(i) ==
    /\ drafts[i].status = "pending"
    /\ drafts' = [drafts EXCEPT ![i].status = "rejected"]
    /\ rejections' = Append(rejections, i)
    /\ events' = append_event("proposal", i, "rejected", None, <<>>)
    /\ UNCHANGED <<now, daily, watermark, rebuilding, plan, routines, fires, reviews, run, scope>>

-----------------------------------------------------------------------------
Ids(s) == {None} \cup DOMAIN s
Filings == IF world.filing THEN Ids(directions) ELSE {None}

Writes ==
  /\ Room
  /\ \/ \E a \in world.areas : create_direction(a)
     \/ \E d \in Filings : create_task(d) \/ \E w \in Weeks : apply_create_tasks(w, d)
     \/ \E t \in DOMAIN tasks, to \in world.moves : transition_task(t, to)
     \/ \E t \in DOMAIN tasks, d \in Filings \ {None} : apply_assign_task_direction(t, d)
     \/ \E d \in Ids(directions), t \in Ids(tasks), m \in Minutes : create_block(d, t, m)
     \/ \E b \in DOMAIN blocks, to \in ScheduleBlockStatus : transition_block(b, to)
     \/ \E r \in Routines, to \in RoutineStatus : transition_routine(r, to)

Human ==
  /\ Room
  /\ \/ \E w \in Weeks : create_review(w) \/ finalize_review(w)
     \/ \E w \in Weeks, body \in Texts \cup {Blank} : update_review_body(w, body)
     \/ \E i \in DOMAIN drafts : apply_draft(i) \/ reject_draft(i)

Summarize ==
    \/ \E w \in Weeks : trigger_summarize(w)
    \/ dedup_summarize \/ read_weekly_draft \/ run_summarize \/ run_ends
    \/ \E c \in world.chars : model_writes(c)

Fires == Room /\ \E f \in FireIds, r \in Routines, s \in 0..now : scheduler_fired(f, r, s)

Next ==
    \/ Tick
    \/ Writes \/ Fires \/ Human \/ Summarize
    \/ attention_apply_new_events \/ attention_rebuild

Spec == Init /\ [][Next]_vars

-----------------------------------------------------------------------------
(* Properties *)

\* Every day the clock reaches, in years around a century, a leap day and a year
\* of 53 weeks, is dated, ordered and put into a week as the calendar has it:
\* util.rs computes all of this by hand, and the replays, the weekly draft and
\* the week labels a client may type rely on it.
CalendarRight ==
    [][now' # now /\ events = <<>> => CalendarRightOn(day_of(now'))]_vars

CompletedOf(P(_)) ==
    SumFunction([b \in {c \in DOMAIN blocks : blocks[c].status = "completed" /\ P(blocks[c])} |->
                    blocks[b].minutes])

DaysAgree == daily = Fold(<<>>, SubSeq(events, 1, watermark))

WeeksAgree ==
    \A w \in Weeks :
        week_attention(w).actual = CompletedOf(LAMBDA b : b.task # None /\ tasks[b.task].week = w)

AreasAgree ==
    \A a \in world.areas :
        CompletedOf(LAMBDA b : a = IF b.direction = None THEN None ELSE directions[b.direction])
        = SumFunction([w \in Weeks |-> LET m == by_area(events, w)
                                       IN  IF a \in DOMAIN m THEN m[a] ELSE 0])

\* Three accounts of the same minutes agree: the materialised days are the fold
\* of the events the watermark covers, whatever an apply, a rebuild between its
\* two transactions and new completions do to each other; a week's actual
\* minutes, replayed from payloads, are those of its completed blocks; and the
\* areas of the weekly drafts add up to the directions' rows.
AttentionAgrees == DaysAgree /\ WeeksAgree /\ AreasAgree

FiredAt(i) == events[i].entity = "routine" /\ events[i].kind = "fired"

\* The kernel delivers at least once, the log records once: each recorded
\* fire_id has exactly one fired event, of the Routine its row names, and no
\* Routine fires after its retirement.
FiredOnce ==
    /\ \A f \in FireIds :
          LET mine == {i \in DOMAIN events : FiredAt(i) /\ events[i].payload.fire = f}
          IN  IF fires[f] = None THEN mine = {}
              ELSE Cardinality(mine) = 1 /\ \A i \in mine : events[i].id = fires[f].routine
    /\ \A i, j \in DOMAIN events :
          FiredAt(j) /\ events[i].entity = "routine" /\ events[i].kind = "retired"
          /\ events[i].id = events[j].id => j < i

\* A Review that a fire creates is, at that moment, one summarize recognises as
\* its program's own: the numbers in it are the ones the next read computes.
AutoDraftIsRewritable ==
    [][\A w \in Weeks :
         reviews[w].status = "absent" /\ reviews'[w].status = "draft"
         => is_program_only(reviews'[w].body, Candidates(weekly_draft_on(events', w)))]_vars

\* What a person wrote, or accepted as a narrative, is replaced by that person
\* only: a step that accepts a draft or receives a fire replaces nothing but a
\* blank body or a program's rendering.  A finalized body never changes.
HumanTextKept ==
    [][\A w \in Weeks : reviews'[w].body # reviews[w].body =>
         /\ reviews[w].status # "finalized"
         /\ \/ reviews[w].body.by \in {"nobody", "routine", "facts"}
            \/ drafts' = drafts /\ fires' = fires]_vars

\* Whatever a model writes and whatever the user's titles hold, a narrative
\* that reaches a Proposal states no figure the program did not put there.
NarrativeIsHonest ==
    \A i \in DOMAIN drafts :
        drafts[i].body.by = "narrative" =>
            \A k \in DOMAIN drafts[i].body.paras : HonestParagraph(drafts[i].body.paras[k])
=============================================================================

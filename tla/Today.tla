--------------------------------- MODULE Today ---------------------------------
(***************************************************************************)
(* The reads a client builds its screens from: GET /tasks, GET /today and  *)
(* the pages of GET /events.  Each is one read transaction, an operator on *)
(* the state of Journal.  A timestamp is whole seconds, so rows may tie;   *)
(* ties come in the order of insertion, as SQLite's sort leaves them.       *)
(***************************************************************************)
EXTENDS Journal

CONSTANT MustDo     \* how many tasks today's list holds: 3 in the source

ASSUME TodayAssumption ==
    /\ MustDo \in Nat \ {0}
    /\ \A w \in Worlds : w.zone \in Int
    /\ None \notin ScheduleBlockStatus \cup RoutineStatus
    /\ None \notin {"draft", "finalized", "backlog", "in_progress", "done", "dropped", "carried_over"}

\* The local midnight before now, on the clock the events are stamped with.
local_day_start_utc == now - ((now + world.zone) % world.per_day)

\* The ids of a table's rows that P holds of, newest first.
NewestFirst(rows, P(_)) == InOrder({i \in DOMAIN rows : P(i)}, >)

list_tasks(P(_)) == NewestFirst(tasks, P)
list_blocks == NewestFirst(blocks, LAMBDA b : TRUE)
list_directions == NewestFirst(directions, LAMBDA d : TRUE)
list_routines(status) == {r \in Routines : routines[r] = status}
list_reviews == {w \in Weeks : reviews[w].status # "absent"}

InArea(t, a) == tasks[t].direction # None /\ directions[tasks[t].direction] = a

Filed(t) == tasks[t].direction # None

Oldest(S) == InOrder(S, <)

Precedence(status) ==
    CASE status = "in_progress" -> 0 [] status = "planned" -> 1 [] status = "backlog" -> 2

must_do ==
    LET open == {t \in DOMAIN tasks : Filed(t) /\ ~task_is_terminal(tasks[t].status)}
        before(s, t) == \/ Precedence(tasks[s].status) < Precedence(tasks[t].status)
                        \/ Precedence(tasks[s].status) = Precedence(tasks[t].status) /\ s < t
        ranked == InOrder(open, before)
    IN  SubSeq(ranked, 1, Min({MustDo, Len(ranked)}))

\* A task carried over without a Direction is still listed.
inbox == Oldest({t \in DOMAIN tasks : ~Filed(t) /\ tasks[t].status \notin {"done", "dropped"}})

\* Mutant: the day the task was made, not the one it was started on.
Started_created(t) == tasks[t].created_at

\* When the task last went in progress.
Started(t) ==
    LET entered == {events[i].at : i \in {j \in DOMAIN events :
                        events[j].entity = "task" /\ events[j].id = t
                        /\ events[j].to = "in_progress"}}
    IN  IF entered = {} THEN tasks[t].created_at ELSE Max(entered)

carry_over_candidates ==
    Oldest({t \in DOMAIN tasks : /\ Filed(t) /\ tasks[t].status = "in_progress"
                                 /\ Started(t) < local_day_start_utc})

fired_routines ==
    {fires[f].routine : f \in {g \in FireIds : fires[g] # None
                                               /\ fires[g].received_at >= local_day_start_utc}}

deep_block ==
    LET planned == {b \in DOMAIN blocks : blocks[b].status = "planned"}
    IN  IF planned = {} THEN None ELSE Min(planned)

today_view ==
    [must_do |-> must_do, deep_block |-> deep_block, inbox |-> inbox,
     carry_over_candidates |-> carry_over_candidates, fired_routines |-> fired_routines]

clamp(n, low, high) == Max({low, Min({n, high})})

\* The seqs of one page; the cap on a page, 500 in the source, is the whole log here.
list_events(entity, since, limit) ==
    LET matching == Oldest({i \in DOMAIN events : entity \in {None, events[i].entity} /\ i > since})
    IN  SubSeq(matching, 1, Min({clamp(limit, 1, Len(events)), Len(matching)}))

-----------------------------------------------------------------------------
\* A client that asks page after page, each from the last seq it holds.
Followed(entity, limit) ==
    FoldLeft(LAMBDA seen, i : seen \o list_events(entity, IF seen = <<>> THEN 0 ELSE Last(seen),
                                                  limit),
             <<>>, [i \in DOMAIN events |-> i])

\* The last event of those with that entity and id that P holds of; 0 if none.
Latest(seqs, entity, id, P(_)) ==
    Max({0} \cup {i \in Range(seqs) : /\ events[i].entity = entity /\ events[i].id = id
                                      /\ P(events[i])})

\* Whether the user's midnight passed after at.
SinceMidnight(at) == \E t \in (at + 1)..now : (t + world.zone) % world.per_day = 0

\* A client that knows nothing but the log, read in pages of one event, knows
\* what the rows say: the tasks, blocks, Directions and Reviews there are, their
\* statuses and the Direction of each task, and so what every list and filter
\* returns.  GET /today shows no more and no less than that replay implies: an
\* open task is in the inbox, in today's list, or outranked by a full list of
\* tasks at least as far along; a task is offered for carrying over exactly when
\* it has been in progress since before the user's own midnight; a Routine is
\* shown as fired exactly on the user's day.
LogIsTheRecord ==
    LET seqs == Followed(None, 1)
        known(entity) == {events[i].id : i \in {j \in Range(seqs) : events[j].entity = entity}}
        status(entity, id) == events[Latest(seqs, entity, id, LAMBDA e : e.to # None)].to
        filed(t) == events[Latest(seqs, "task", t, LAMBDA e :
                              e.kind \in {"created", "direction_assigned"})].payload.direction
        since(t) == events[Latest(seqs, "task", t, LAMBDA e : e.to = "in_progress")].at
        moved(r) == Latest(seqs, "routine", r, LAMBDA e : e.to # None)
        area_of == direction_area_snapshot_on(events)
        view == today_view
    IN  /\ known("task") = DOMAIN tasks
        /\ \A s \in {status("task", t) : t \in DOMAIN tasks} :
              Range(list_tasks(LAMBDA t : tasks[t].status = s))
              = {t \in known("task") : status("task", t) = s}
        /\ \A a \in world.areas :
              Range(list_tasks(LAMBDA t : InArea(t, a)))
              = {t \in known("task") : filed(t) # None /\ area_of[filed(t)] = a}
        /\ known("direction") = Range(list_directions)
        /\ known("block") = Range(list_blocks)
        /\ \A b \in DOMAIN blocks : blocks[b].status = status("block", b)
        /\ known("review") = list_reviews
        /\ \A w \in list_reviews : reviews[w].status = status("review", w)
        /\ \A r \in Routines :
              r \in list_routines(IF moved(r) = 0 THEN "active" ELSE events[moved(r)].to)
        /\ \A t \in {u \in known("task") : ~task_is_terminal(status("task", u))} :
              IF filed(t) = None THEN t \in Range(view.inbox)
              ELSE \/ t \in Range(view.must_do)
                   \/ /\ Len(view.must_do) = MustDo
                      /\ \A u \in Range(view.must_do) :
                            Precedence(status("task", u)) <= Precedence(status("task", t))
        /\ Range(view.carry_over_candidates)
           = {t \in known("task") : /\ filed(t) # None /\ status("task", t) = "in_progress"
                                    /\ SinceMidnight(since(t))}
        /\ view.fired_routines
           = {events[i].id : i \in {j \in Range(seqs) :
                 events[j].kind = "fired" /\ ~SinceMidnight(events[j].at)}}
=============================================================================

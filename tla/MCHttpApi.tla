------------------------------- MODULE MCHttpApi -------------------------------
(* Instances of HttpApi.  Each world is small in a way of its own, so that the *)
(* state space is the sum of theirs and not their product.                     *)
EXTENDS HttpApi, TLC

CONSTANTS w1, w2, v1, b1, b2

Assign(t, d) == [op |-> "AssignTaskDirection", task |-> t, direction |-> d]
Move(t, to) == [op |-> "TransitionTask", task |-> t, to |-> to]
Carry(t, w) == [op |-> "CarryOverTask", task |-> t, to |-> w]
Plan(w, ds) == [op |-> "CreateTasks", week |-> w, tasks |-> ds]
Order(w, ts) == [op |-> "ReorderTasks", week |-> w, order |-> ts]
Add(d, p) == [op |-> "CreateTask", direction |-> d, parent |-> p]
Draft(base, body) == [op |-> "DraftReviewBody", review |-> v1, base |-> base, body |-> body]
Adjust(r, alloc) == [op |-> "AdjustRhythm", rhythm |-> r, alloc |-> alloc]
NewArea(base) == [op |-> "CreateArea", base |-> base]
NewDirection == [op |-> "CreateDirection"]

By(source, batches) == {[source |-> source, ops |-> ops] : ops \in batches}

Nothing == [areas |-> 0, directions |-> 0, rhythms |-> 0, tasks |-> 0, direct |-> 0, moved |-> {}, weeks |-> {},
            reviews |-> {}, slugs |-> {}, allocs |-> {}, batches |-> {}, starts |-> FALSE]

\* Inbox, Triage and one Direction: who may move a task out of where.
TriageWorld ==
    [Nothing EXCEPT !.tasks = 2, !.direct = 1, !.moved = {1}, !.directions = 1,
        !.batches = By("direct", {<<Assign(1, 1)>>, <<Assign(1, Triage), Assign(1, 1)>>,
                                  <<Assign(1, 0)>>, <<Add(Triage, None)>>, <<>>})
               \cup By("classify", {<<Assign(1, Triage)>>, <<Assign(1, 1)>>,
                                    <<Assign(1, Triage), Assign(1, 1)>>, <<Add(None, None)>>})]

\* Two weeks, and tasks planned, moved, reordered and carried between them.
WeekWorld ==
    [Nothing EXCEPT !.tasks = 3, !.moved = {1}, !.weeks = {w1, w2},
        !.batches = By("direct", {<<Move(1, "in_progress"), Carry(1, w2)>>,
                                  <<Move(1, "in_progress"), Move(1, "in_progress")>>,
                                  <<Assign(1, Triage), Carry(1, w2), Assign(1, Triage)>>})
               \cup By("propose", {<<Plan(w1, <<None>>)>>, <<Plan(w1, <<Triage, None>>)>>,
                                   <<Carry(1, w2), Order(w1, <<1>>)>>, <<Carry(1, w1)>>,
                                   <<Order(w1, <<2, 1>>)>>})]

\* Projects: tasks with sub-tasks, through both doors.
NestWorld ==
    [Nothing EXCEPT !.tasks = 3, !.direct = 3,
        !.batches = By("direct", {<<Add(None, 1), Add(None, 2)>>, <<Add(0, None)>>,
                                  <<Add(None, 1)>>, <<Move(1, "planned"), Move(1, "dropped")>>})]

\* One Review and drafts of its body written against different bases.
ReviewWorld ==
    [Nothing EXCEPT !.reviews = {v1}, !.areas = 1, !.slugs = {<<0>>}, !.moved = {1},
        !.batches = By("summarize", {<<Draft(Blank, b1)>>, <<Draft(b1, b2)>>, <<Draft(b1, b1)>>})
               \cup By("direct", {<<Draft(Blank, b1), Draft(b1, b2)>>,
                                  <<Draft(Blank, b1), Draft(Blank, b2)>>})]

Half(d) == [direction |-> d, pct |-> 60]

\* Areas and their slugs, with the seed pack.
AreaWorld ==
    [Nothing EXCEPT !.areas = 3, !.directions = 1, !.slugs = {<<0>>, <<0, 2>>},
        !.batches = By("direct", {<<NewArea(<<0>>), NewArea(<<0>>)>>, <<NewDirection>>})]

\* A Direction and a Rhythm whose allocation names it.
RhythmWorld ==
    [Nothing EXCEPT !.areas = 1, !.directions = 1, !.rhythms = 1, !.slugs = {<<0>>},
        !.allocs = {<<Half(Triage)>>, <<Half(1), Half(Triage)>>},
        !.batches = By("direct", {<<NewDirection>>,
                                  <<Adjust(1, <<Half(1)>>)>>, <<Adjust(1, <<Half(0)>>)>>,
                                  <<Adjust(1, <<Half(1), Half(Triage)>>)>>})]

\* Two processes start from nothing, stop and start again, and notes are taken.
StartWorld == [Nothing EXCEPT !.starts = TRUE, !.direct = 1, !.tasks = 1]

MCWorlds == {StartWorld, TriageWorld, WeekWorld, NestWorld, ReviewWorld, AreaWorld,
             RhythmWorld}

Symmetry == Permutations(ProposalIds)
=============================================================================

------------------------------- MODULE MCJournal -------------------------------
(* Instances of Journal: worlds for the minutes, the fires, the week's Review  *)
(* and the narrative, and worlds in which only the clock moves.                 *)
EXTENDS Today, TLC

CONSTANT a1

Typed == {[by |-> "human"]}

\* 2025-12-27, a Saturday: 2026-W01 begins on the Monday after.
Saturday == days_from_civil(<<2025, 12, 27>>)

Nothing == [start |-> Saturday, per_day |-> 1, zone |-> 0, last |-> 0, events |-> 0, attention |-> FALSE, areas |-> {}, directions |-> 0, tasks |-> 0, moves |-> {}, filing |-> FALSE, blocks |-> 0,
            fires |-> 0, moved |-> {}, edits |-> FALSE, drafts |-> 0,
            chars |-> {}, reply |-> 0, title |-> <<>>]

\* Blocks, Directions and the daily view over two days; and the same with a task,
\* whose week a block counts for, within one day.
MinutesWorld ==
    [Nothing EXCEPT !.last = 1, !.events = 6, !.attention = TRUE, !.areas = {a1, None}, !.directions = 1,
                    !.blocks = 2]
TaskMinutesWorld == [MinutesWorld EXCEPT !.last = 0, !.tasks = 1]

\* Two Routines, their statuses and late or repeated fires; and fires around the
\* task that the week's draft counts.
FiresWorld == [Nothing EXCEPT !.last = 2, !.events = 5, !.fires = 2, !.moved = Routines]
DoneWorld == [Nothing EXCEPT !.last = 1, !.events = 5, !.fires = 2, !.tasks = 1,
                             !.moves = {"in_progress", "done"}]

\* The Review, edited by the user and redrafted twice; and once while a task moves.
ReviewWorld == [Nothing EXCEPT !.last = 1, !.events = 6, !.fires = 1, !.edits = TRUE, !.drafts = 2,
                             !.chars = {"letter"}, !.reply = 1]
MovingReviewWorld == [ReviewWorld EXCEPT !.events = 5, !.tasks = 1, !.moves = {"in_progress"},
                                         !.drafts = 1]

\* Two ticks a day, in a zone where the user's midnight is UTC's noon.
TodayWorld ==
    [Nothing EXCEPT !.per_day = 2, !.zone = 1, !.last = 2, !.events = 5, !.fires = 1,
                    !.areas = {a1}, !.directions = 1, !.tasks = 2, !.filing = TRUE,
                    !.moves = {"planned", "in_progress", "carried_over", "done"}]

\* From 28 December of the year before: a common year of 53 weeks, a leap year of
\* 53 weeks, and the two kinds of century.
CalendarWorlds ==
    {[Nothing EXCEPT !.start = days_from_civil(<<y - 1, 12, 28>>), !.last = 372] :
        y \in {1900, 2000, 2020, 2026}}

\* Any reply of a model of four characters, and a title of the user's that
\* looks like the program's own text.
TextWorld == [Nothing EXCEPT !.events = 3, !.fires = 1, !.drafts = 1, !.chars = Typeable, !.reply = 4,
                             !.title = <<"marker", "unit", "newline", "quote", "digit", "angle", "format", "bullet">>]

MCWorlds == CalendarWorlds \cup {MinutesWorld, TaskMinutesWorld, TodayWorld, FiresWorld, DoneWorld,
                                 ReviewWorld, MovingReviewWorld, TextWorld}

\* The kernel's delivery ids are interchangeable.
FireSymmetry == Permutations(FireIds)
=============================================================================

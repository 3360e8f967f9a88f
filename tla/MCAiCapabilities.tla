--------------------------- MODULE MCAiCapabilities ---------------------------
(* Instances of AiCapabilities: each world is about one of its hazards. *)
EXTENDS AiCapabilities, TLC

CONSTANT g1

Quiet == [cap |-> "classify", model |-> TRUE, remote |-> FALSE, switched |-> FALSE, failures |-> {},
          deadline |-> FALSE, tasks |-> <<None>>, born |-> 0, directions |-> 0, last |-> 1, gaps |-> {},
          edits |-> FALSE, direct |-> FALSE, proposals |-> 1, polls |-> FALSE, requests |-> {<<1>>}]

\* Two items and every verdict on a failure.
LadderWorld ==
    [Quiet EXCEPT !.remote = TRUE, !.switched = TRUE, !.deadline = TRUE, !.born = 1, !.directions = 1,
                  !.failures = {"timeout", "forbidden", "rate_limited", "connection_lost"},
                  !.tasks = <<None, None>>, !.requests = {<<>>, <<2, 1>>, <<1, 1>>, <<1, 2, 1>>}]

\* The same without a model: the rules alone.
RulesWorld == [Quiet EXCEPT !.model = FALSE, !.born = 1, !.directions = 1, !.proposals = 2, !.edits = TRUE,
                           !.direct = TRUE, !.polls = TRUE]

\* One task, in and out of Triage, and Directions created around it.
GateWorld ==
    [Quiet EXCEPT !.failures = {"timeout"}, !.directions = 3, !.last = 4, !.proposals = 3]

\* Two weeks, with three of their tasks, under edits.
WeekWorld ==
    [Quiet EXCEPT !.cap = "propose", !.failures = {"timeout"}, !.tasks = <<"prev", "this", "this">>,
                  !.gaps = {g1}, !.edits = TRUE, !.proposals = 4]

\* Rejected suggestions, and a Direction that puts them in question.
RejectWorld ==
    [Quiet EXCEPT !.cap = "propose", !.failures = {"busy", "cancelled"}, !.tasks = <<"prev", "this">>,
                  !.gaps = {g1}, !.directions = 1, !.last = 2, !.proposals = 6]

MCWorlds == {LadderWorld, RulesWorld, GateWorld, WeekWorld, RejectWorld}
=============================================================================

----------------------------- MODULE AiCapabilities -----------------------------
(***************************************************************************)
(* Classify and propose runs over the ladder, beside users who create      *)
(* Directions, edit tasks, close weeks, turn the remote engine off and on, *)
(* and accept and reject what is proposed.                                 *)
(***************************************************************************)
EXTENDS Classify, Propose

VARIABLE poll \* GET /ai/runs/{id} of the newest run: the record it read, then its answer

vars == <<world, clock, executive, directions, tasks, weeks, gaps, proposals, run, st, item, calls, unseen, poll>>

NoPoll == [record |-> None, calls |-> None]

Init == AiPortInit /\ LadderInit /\ ClassifyInit /\ poll = NoPoll

\* What parse makes of a reply, for the capability that asked.
Parsed == IF IsClassify THEN parse_classify_reply ELSE parse_propose_reply

Tiers == IF world.remote THEN {"local", "remote"} ELSE {"local"}

Reply == Waiting /\ \E tier \in Tiers, v \in Parsed : reply(tier, v)

-----------------------------------------------------------------------------
(* get_ai_run: first the registry, then the call rows *)

Newest ==
    IF run.last # None THEN run.last
    ELSE [record |-> AiRunRecord("running", <<>>), calls |-> calls]

\* A call row as it is shown.
AiCallSummary(r) == [engine |-> r.engine, kind |-> r.kind, proposal |-> r.proposal]

list_ai_calls_for_run == [i \in DOMAIN Newest.calls |-> AiCallSummary(Newest.calls[i])]

poll_reads ==
    /\ world.polls /\ run # NoRun
    /\ poll.record = None \/ poll.calls # None
    /\ poll' = [record |-> Newest.record, calls |-> None]

poll_answers ==
    /\ poll.record # None /\ poll.calls = None
    /\ poll' = [poll EXCEPT !.calls = list_ai_calls_for_run]

\* The read of the rows fails: the answer is given without them.
poll_degrades ==
    /\ poll.record # None /\ poll.calls = None
    /\ poll' = [poll EXCEPT !.calls = <<>>]

NewRun == run.phase = "idle" /\ run'.phase # "idle"

-----------------------------------------------------------------------------
Work ==
    \/ StoreNext /\ Watch /\ UNCHANGED ladder
    \/ (LadderNext \/ Reply) /\ UNCHANGED <<store, unseen>>
    \/ ClassifyNext
    \/ ProposeNext /\ UNCHANGED unseen

Next ==
    \/ Work /\ poll' = IF NewRun THEN NoPoll ELSE poll
    \/ (poll_reads \/ poll_answers \/ poll_degrades) /\ UNCHANGED <<store, ladder, unseen>>

Spec == Init /\ [][Next]_vars

-----------------------------------------------------------------------------
(* Properties *)

IsModelRow(r) == r.engine \in Engines

\* The call came to nothing a proposal could be made of.
Failed(r) == r.kind \notin {"ok", "rejected_by_precheck", "submit_store_error"}

\* A model was asked and no row of the answer is written yet.
InFlight ==
    \/ item.phase = "waiting"
    \/ item.phase \in {"produced", "submitting"} /\ IsModelRow(item.row)
       /\ (item.phase = "submitting" => item.at = 1)

\* Within a run, whatever its items: after a failure that ends the generation
\* nothing more is asked or decided; after one that says the kernel is full no
\* model is asked again and the item gets no answer from the rules either; an
\* engine that cannot serve is asked once; and every call charged to the run is
\* in its log exactly once, by the time its answer is acted on.
VerdictsHeld ==
    /\ \A i, j \in DOMAIN calls : i < j =>
          /\ calls[i].kind \notin Aborting
          /\ calls[i].kind \in Deferring => ~IsModelRow(calls[j]) /\ calls[j].item # calls[i].item
          /\ opens_circuit(calls[i].kind) => calls[j].engine # calls[i].engine
    /\ MaxModelCalls = st.calls_left
          + Cardinality({i \in DOMAIN calls : IsModelRow(calls[i]) /\ calls[i].is_first})
          + (IF InFlight THEN 1 ELSE 0)

\* The models in the plan above the rung a row was written at.
Above(r) ==
    {k \in DOMAIN run.steps : /\ run.steps[k] \in Engines \ {r.engine}
                              /\ r.engine = "reflex" \/ run.steps[k] = "executive"}

\* The call log explains itself: a row names the last model above it in the plan
\* as the one it stands in for (the rule that decides outright stands in for
\* none), and that model is on record as having failed, for the same item or in
\* a way that took it out of the run.
AuditExplains ==
    run.phase = "items" => \A i \in DOMAIN calls :
        LET r == calls[i]
            above == Above(r)
        IN  \/ /\ r.engine = "reflex" /\ r.fallback_from = None
               /\ run.steps[1] = "decisive" /\ r.kind # "no_match"
               /\ \A j \in 1..i-1 : calls[j].item = r.item => calls[j].kind # "undecided"
            \/ /\ above = {} /\ r.fallback_from = None
            \/ /\ above # {} /\ r.fallback_from = run.steps[Max(above)]
               /\ \E j \in 1..i-1 :
                     /\ calls[j].engine = r.fallback_from /\ Failed(calls[j])
                     /\ calls[j].item = r.item \/ opens_circuit(calls[j].kind)

\* A task classify has parked misses no Direction: one created after the task
\* came to Triage, which no evaluation of it has been offered, keeps it in the
\* inbox, in whatever second of whatever run it was created.
NoDirectionMissed ==
    \A t \in DOMAIN tasks :
        /\ tasks[t].direction = Triage /\ tasks[t].via = "classify"
        /\ ~task_is_terminal(tasks[t].status)
        /\ unseen[t] # {}
        => inbox_task(t)

\* No task is proposed twice: at most one pending proposal of the runs about to
\* assign it, and one about to carry it, would still apply.
OneLiveProposal ==
    \A i, j \in precheck(Pending({"classify", "propose"})) :
        /\ i # j
        /\ proposals[i].kind = proposals[j].kind
        /\ proposals[i].kind \in {"assign", "carry"}
        => proposals[i].what \cap proposals[j].what = {}

\* The item of a report that is about the proposal.
Tells(i, p) == IF IsClassify THEN p.what = {i.target} ELSE p.kind = i.target

Proposed(items) == Cardinality({i \in DOMAIN items : items[i].result = "proposed"})

Linked(rows) == {i \in DOMAIN rows : rows[i].proposal # None}

\* A run's last report is the truth about it: every target it was asked to
\* settle is there once, "proposed" is said of as many as there are call rows
\* linked to a proposal, each of which exists, and no item after an aborted one
\* came to anything.  Whoever polls and is told the run is done is shown a row
\* for each of them, whatever commits between the two reads of the answer, if
\* the second one does not fail.
ReportHonest ==
    [][/\ run_ends =>
            /\ Len(run.items) = Cardinality(run.asked)
            /\ {run.items[i].target : i \in DOMAIN run.items} = run.asked
            /\ Proposed(run.items) = Cardinality(Linked(calls))
            /\ IsInjective([i \in Linked(calls) |-> calls[i].proposal])
            /\ \A i \in Linked(calls) :
                  LET p == proposals[calls[i].proposal]
                  IN  /\ p.source = world.cap
                      /\ \E j \in DOMAIN run.items : run.items[j].result = "proposed" /\ Tells(run.items[j], p)
            /\ \A i, j \in DOMAIN run.items :
                  i < j /\ run.items[i].result = "aborted" => run.items[j].result = "aborted"
       /\ poll_answers /\ poll.record.state = "done" =>
            Proposed(poll.record.items) = Cardinality(Linked(poll'.calls))]_vars
=============================================================================

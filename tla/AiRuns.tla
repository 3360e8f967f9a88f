-------------------------------- MODULE AiRuns --------------------------------
(***************************************************************************)
(* The background runs of the AI capabilities: the registry behind one     *)
(* mutex (RunRegistry), the guard that frees a capability's slot however   *)
(* its task ends (BusyGuard), the semaphore all capabilities' model calls  *)
(* share (SemaphoredModelCaller) and the two deadlines of a run.  What a   *)
(* run decides between its model calls is left out here.                   *)
(*                                                                         *)
(* Only waiting takes time: between its calls a run is prompt.  A run id   *)
(* is its place in the order in which ids are minted.                      *)
(***************************************************************************)
EXTENDS Naturals, Sequences, FiniteSets

CONSTANTS
    Caps,                 \* the capabilities: classify, summarize, propose
    MAX_TRACKED_RUNS,
    MODEL_MAX_IN_FLIGHT,  \* MODEL_MAX_IN_FLIGHT_PER_MODULE
    MODEL_CALL_TIMEOUT,
    RUN_DEADLINE,         \* RUN_DEADLINE_SECS
    MARGIN,               \* the 30 s of RUN_HARD_DEADLINE
    MAX_MODEL_CALLS,      \* MAX_MODEL_CALLS_PER_RUN
    MaxRuns               \* bound: runs triggered

ASSUME AiRunsAssumption ==
    /\ MAX_TRACKED_RUNS \in Nat /\ MODEL_MAX_IN_FLIGHT \in Nat \ {0}
    /\ MODEL_CALL_TIMEOUT \in Nat \ {0} /\ RUN_DEADLINE \in Nat \ {0}
    /\ Caps # {} /\ MARGIN \in Nat /\ MAX_MODEL_CALLS \in Nat /\ MaxRuns \in Nat

VARIABLES
    order, runs, busy, \* RunRegistry
    permits, waiters,  \* the semaphore: free permits, tasks queued for one
    minted,            \* how many run ids were minted
    cap,               \* each run's capability
    pc,                \* none, dedup, between, queued, calling or ended
    age,               \* time since the run entered with_hard_deadline
    callAge,           \* time since the run's call was sent
    callsLeft,         \* RunState::calls_left
    waited             \* history: how long the run's last call was queued

registry == <<order, runs, busy>>
semaphore == <<permits, waiters>>
vars == <<registry, semaphore, minted, cap, pc, age, callAge, callsLeft, waited>>

Runs == 1..MaxRuns
NoRun == 0

RUN_HARD_DEADLINE_as_run_deadline == RUN_DEADLINE

RUN_HARD_DEADLINE == RUN_DEADLINE + MODEL_CALL_TIMEOUT + MARGIN

RunStates == {"running", "done", "aborted"}
Places == {"none", "dedup", "between", "queued", "calling", "ended"}

TypeOK ==
    /\ order \in Seq(Runs)
    /\ DOMAIN runs \subseteq Runs /\ \A r \in DOMAIN runs : runs[r] \in RunStates
    /\ busy \in [Caps -> Runs \cup {NoRun}]
    /\ permits \in 0..MODEL_MAX_IN_FLIGHT
    /\ waiters \in Seq(Runs)
    /\ minted \in 0..MaxRuns
    /\ cap \in [Runs -> Caps]
    /\ pc \in [Runs -> Places]
    /\ age \in [Runs -> Nat] /\ callAge \in [Runs -> Nat]
    /\ callsLeft \in [Runs -> 0..MAX_MODEL_CALLS]
    /\ waited \in [Runs -> Nat]

Init ==
    /\ order = <<>> /\ runs = [r \in {} |-> "running"] /\ busy = [c \in Caps |-> NoRun]
    /\ permits = MODEL_MAX_IN_FLIGHT /\ waiters = <<>>
    /\ minted = 0
    /\ cap = [r \in Runs |-> CHOOSE c \in Caps : TRUE]
    /\ pc = [r \in Runs |-> "none"]
    /\ age = [r \in Runs |-> 0] /\ callAge = [r \in Runs |-> 0]
    /\ callsLeft = [r \in Runs |-> 0] /\ waited = [r \in Runs |-> 0]

InRun(r) == pc[r] \in {"between", "queued", "calling"}
Live(r) == pc[r] = "dedup" \/ InRun(r)
-----------------------------------------------------------------------------
(* The registry.  Each operator is one critical section of its mutex.      *)

\* The places in order of entries that may be evicted: not running.
Evictable == {i \in DOMAIN order : order[i] \notin DOMAIN runs \/ runs[order[i]] # "running"}

Evicted_oldest ==
    {i \in DOMAIN order : Cardinality(DOMAIN runs) >= MAX_TRACKED_RUNS /\ i = 1}

\* evict_one_non_running: the oldest entry that is not running, if there is one.
Evicted ==
    {i \in Evictable :
        /\ Cardinality(DOMAIN runs) >= MAX_TRACKED_RUNS
        /\ \A j \in Evictable : i <= j}

start(c, r) ==
    LET keptRuns == DOMAIN runs \ {order[i] : i \in Evicted}
        keptOrder == IF Evicted = {} THEN order
                     ELSE LET i == CHOOSE i \in Evicted : TRUE
                          IN  SubSeq(order, 1, i - 1) \o SubSeq(order, i + 1, Len(order))
    IN  /\ busy' = [busy EXCEPT ![c] = r]
        /\ order' = Append(keptOrder, r)
        /\ runs' = [x \in keptRuns \cup {r} |-> IF x = r THEN "running" ELSE runs[x]]

\* The slot is freed without looking at who holds it.
finish(r, state) ==
    /\ busy' = [busy EXCEPT ![cap[r]] = NoRun]
    /\ runs' = [x \in DOMAIN runs |-> IF x = r THEN state ELSE runs[x]]
    /\ UNCHANGED order
-----------------------------------------------------------------------------
(* The semaphore.                                                          *)

\* A permit run r held goes to the first in the queue, or back to the pool.
Release(r, where) ==
    /\ pc[r] = "calling"
    /\ IF waiters = <<>>
       THEN /\ permits' = permits + 1
            /\ pc' = [pc EXCEPT ![r] = where]
            /\ UNCHANGED waiters
       ELSE /\ waiters' = Tail(waiters)
            /\ pc' = [pc EXCEPT ![r] = where, ![Head(waiters)] = "calling"]
            /\ UNCHANGED permits

Unqueue_keeps_place(r) ==
    /\ pc[r] = "queued"
    /\ pc' = [pc EXCEPT ![r] = "ended"]
    /\ UNCHANGED semaphore

\* Dropping acquire's future takes run r out of the queue.
Unqueue(r) ==
    /\ pc[r] = "queued"
    /\ \E i \in DOMAIN waiters :
        /\ waiters[i] = r
        /\ waiters' = SubSeq(waiters, 1, i - 1) \o SubSeq(waiters, i + 1, Len(waiters))
    /\ pc' = [pc EXCEPT ![r] = "ended"]
    /\ UNCHANGED permits

\* The future of a run that neither holds nor awaits a permit is dropped.
Detached(r) ==
    /\ pc[r] \in {"dedup", "between"}
    /\ pc' = [pc EXCEPT ![r] = "ended"]
    /\ UNCHANGED semaphore

Drop(r) == Release(r, "ended") \/ Unqueue(r) \/ Detached(r)

\* The task's locals are gone with it.
Forget(r) ==
    /\ age' = [age EXCEPT ![r] = 0] /\ callAge' = [callAge EXCEPT ![r] = 0]
    /\ callsLeft' = [callsLeft EXCEPT ![r] = 0] /\ waited' = [waited EXCEPT ![r] = 0]
-----------------------------------------------------------------------------
(* The trigger handlers and their tasks.                                   *)

Trigger_unchecked(c) ==
    /\ minted < MaxRuns
    /\ minted' = minted + 1
    /\ start(c, minted + 1)
    /\ cap' = [cap EXCEPT ![minted + 1] = c]
    /\ pc' = [pc EXCEPT ![minted + 1] = "dedup"]
    /\ UNCHANGED <<semaphore, age, callAge, callsLeft, waited>>

\* trigger_classify, trigger_summarize, trigger_propose: busy_run and start
\* under one lock.  A trigger of a busy capability is answered 409.
Trigger(c) ==
    /\ minted < MaxRuns
    /\ busy[c] = NoRun
    /\ minted' = minted + 1
    /\ start(c, minted + 1)
    /\ cap' = [cap EXCEPT ![minted + 1] = c]
    /\ pc' = [pc EXCEPT ![minted + 1] = "dedup"]
    /\ UNCHANGED <<semaphore, age, callAge, callsLeft, waited>>

\* The task's targets are known: the run proper begins, under its deadlines.
BeginRun(r) ==
    /\ pc[r] = "dedup"
    /\ pc' = [pc EXCEPT ![r] = "between"]
    /\ age' = [age EXCEPT ![r] = 0]
    /\ callsLeft' = [callsLeft EXCEPT ![r] = MAX_MODEL_CALLS]
    /\ UNCHANGED <<registry, semaphore, minted, cap, callAge, waited>>

\* Nothing to do: trigger_summarize skips its one target.
SkipRun(r) ==
    /\ pc[r] = "dedup"
    /\ finish(r, "done")
    /\ Detached(r) /\ Forget(r)
    /\ UNCHANGED <<minted, cap>>

\* A model step: it is refused once the budget is used up or the run's own
\* deadline has passed.  The call is sent when a permit is had.
CallModel(r) ==
    /\ pc[r] = "between"
    /\ callsLeft[r] > 0 /\ age[r] < RUN_DEADLINE
    /\ callsLeft' = [callsLeft EXCEPT ![r] = @ - 1]
    /\ waited' = [waited EXCEPT ![r] = 0]
    /\ IF permits > 0 /\ waiters = <<>>
       THEN /\ permits' = permits - 1
            /\ pc' = [pc EXCEPT ![r] = "calling"]
            /\ UNCHANGED waiters
       ELSE /\ waiters' = Append(waiters, r)
            /\ pc' = [pc EXCEPT ![r] = "queued"]
            /\ UNCHANGED permits
    /\ UNCHANGED <<registry, minted, cap, age, callAge>>

CallAnswered(r) ==
    /\ pc[r] = "calling"
    /\ Release(r, "between")
    /\ callAge' = [callAge EXCEPT ![r] = 0]
    /\ UNCHANGED <<registry, minted, cap, age, callsLeft, waited>>

CallTimesOut(r) ==
    /\ pc[r] = "calling" /\ callAge[r] >= MODEL_CALL_TIMEOUT
    /\ Release(r, "between")
    /\ callAge' = [callAge EXCEPT ![r] = 0]
    /\ UNCHANGED <<registry, minted, cap, age, callsLeft, waited>>

\* The items are through, or the rest of them is deferred or aborted.
EndRun(r) ==
    /\ pc[r] = "between"
    /\ \E state \in {"done", "aborted"} : finish(r, state)
    /\ Detached(r) /\ Forget(r)
    /\ UNCHANGED <<minted, cap>>

\* with_hard_deadline drops the run's future, a queued or sent call with it.
HardDeadline(r) ==
    /\ InRun(r) /\ age[r] >= RUN_HARD_DEADLINE
    /\ finish(r, "aborted")
    /\ Drop(r) /\ Forget(r)
    /\ UNCHANGED <<minted, cap>>

Panic_without_guard(r) ==
    /\ Live(r)
    /\ Drop(r) /\ Forget(r)
    /\ UNCHANGED <<registry, minted, cap>>

\* The task panics: unwinding drops its future and its BusyGuard.
Panic(r) ==
    /\ Live(r)
    /\ finish(r, "aborted")
    /\ Drop(r) /\ Forget(r)
    /\ UNCHANGED <<minted, cap>>

\* Time passes while every live task waits, up to the next timer.
TimePasses ==
    /\ \E r \in Runs : Live(r)
    /\ \A r \in Runs :
        Live(r) => /\ pc[r] \in {"queued", "calling"}
                   /\ age[r] < RUN_HARD_DEADLINE
                   /\ pc[r] = "calling" => callAge[r] < MODEL_CALL_TIMEOUT
    /\ age' = [r \in Runs |-> IF InRun(r) THEN age[r] + 1 ELSE age[r]]
    /\ callAge' = [r \in Runs |-> IF pc[r] = "calling" THEN callAge[r] + 1 ELSE callAge[r]]
    /\ waited' = [r \in Runs |-> IF pc[r] = "queued" THEN waited[r] + 1 ELSE waited[r]]
    /\ UNCHANGED <<registry, semaphore, minted, cap, pc, callsLeft>>

Next ==
    \/ \E c \in Caps : Trigger(c)
    \/ \E r \in Runs :
        \/ BeginRun(r) \/ SkipRun(r) \/ CallModel(r) \/ CallAnswered(r)
        \/ CallTimesOut(r) \/ EndRun(r) \/ HardDeadline(r) \/ Panic(r)
    \/ TimePasses

\* The runtime polls the tasks, and timers fire.  Nothing is assumed of the
\* kernel (an answer may never come) or of triggers and panics.
Fairness ==
    /\ \A r \in Runs :
        /\ WF_vars(BeginRun(r) \/ SkipRun(r))
        /\ WF_vars(CallModel(r) \/ EndRun(r))
        /\ WF_vars(CallTimesOut(r))
        /\ WF_vars(HardDeadline(r))
    /\ WF_vars(TimePasses)

Spec == Init /\ [][Next]_vars /\ Fairness
-----------------------------------------------------------------------------
\* A capability's slot names its one live task and no other: finish frees it
\* blindly, so it must never be another run's (RunRegistry, BusyGuard).
SlotFollowsTask ==
    \A c \in Caps, r \in Runs : busy[c] = r <=> Live(r) /\ cap[r] = c

\* GET /ai/runs/{id} shows a live run as running: eviction never takes it, and
\* nobody else's end relabels it (evict_one_non_running, finish).
LiveRunIsTracked ==
    \A r \in Runs : Live(r) => r \in DOMAIN runs /\ runs[r] = "running"

\* No permit is lost or doubled however a call ends, cancelled while queued or
\* in flight too, and none lies idle while a task waits (SemaphoredModelCaller).
PermitsConserved ==
    /\ permits + Cardinality({r \in Runs : pc[r] = "calling"}) = MODEL_MAX_IN_FLIGHT
    /\ {waiters[i] : i \in DOMAIN waiters} = {r \in Runs : pc[r] = "queued"}
    /\ waiters # <<>> => permits = 0

\* The hard deadline reaches a run only if its last call was queued for longer
\* than the margin: the run's own deadline plus one call's timeout always fit
\* (RUN_HARD_DEADLINE).
HardDeadlineNeedsQueueing ==
    \A r \in Runs : InRun(r) /\ age[r] >= RUN_HARD_DEADLINE => waited[r] > MARGIN

\* "a genuine 'this should never actually fire' ceiling" (RUN_HARD_DEADLINE).
HardDeadlineNeverFires ==
    \A r \in Runs : InRun(r) => age[r] < RUN_HARD_DEADLINE

\* No capability answers 409 for ever: its slot is freed again and again, even
\* if the kernel never answers and whatever panics (BusyGuard,
\* MODEL_CALL_TIMEOUT, with_hard_deadline).
NeverBusyForever == \A c \in Caps : []<>(busy[c] = NoRun)
=============================================================================

----------------------------- MODULE PumpSchedule -----------------------------
(***************************************************************************)
(* When the pump works: spawn_pump_loop's select between PUMP_TICK and     *)
(* outbox_notify, and pump_tick's decision to run reconcile_full.  What a  *)
(* drain or a full reconcile does is module Reconciler; here they take     *)
(* time, and a full reconcile succeeds, fails or is revoked.               *)
(***************************************************************************)
EXTENDS Backoff

CONSTANTS
    PumpTick,    \* PUMP_TICK
    Interval,    \* FULL_RECONCILE_INTERVAL
    CallTime,    \* bound: how long one drain or one full reconcile takes
    MaxTime,     \* bound: how long the pump is watched
    MaxFailures  \* bound: failed full reconciles

ASSUME PumpScheduleAssumption ==
    /\ PumpTick \in Nat \ {0} /\ Interval \in Nat \ {0}
    /\ CallTime \in Nat /\ MaxTime \in Nat /\ MaxFailures \in Nat

VARIABLES
    now,
    pc,        \* drain, decide, full, select or stopped
    busyUntil, \* when the drain, full reconcile or sleep at hand ends
    full_ok, full_attempts, next_full_attempt, last_full_success, \* PumpState
    permit,    \* tokio Notify's stored permit
    owing,     \* a handler has committed its row and not yet called notify_one
    unread,    \* a row was committed since the last tick began, so no drain has tried to read it
    failures,  \* how much of MaxFailures is used
    lastStart, \* history: when the last full reconcile started
    lastEnd    \* history: when the last full reconcile ended

pumpState == <<full_ok, full_attempts, next_full_attempt, last_full_success>>
notifyVars == <<permit, owing, unread>>
history == <<failures, lastStart, lastEnd>>
vars == <<now, pc, busyUntil, pumpState, notifyVars, history>>

Never == MaxTime + 1

\* PumpState::new; the first pump_tick comes before the first select, and its
\* drain reads the rows earlier generations left pending.
Init ==
    /\ now = 0
    /\ pc = "drain" /\ busyUntil = 0
    /\ full_ok = FALSE /\ full_attempts = 0
    /\ next_full_attempt = 0 /\ last_full_success = 0
    /\ permit = FALSE /\ owing = FALSE
    /\ unread = FALSE
    /\ failures = 0
    /\ lastStart = Never /\ lastEnd = Never

-----------------------------------------------------------------------------
(* Handlers *)

HandlerCommits ==
    /\ ~owing
    /\ owing' = TRUE /\ unread' = TRUE
    /\ UNCHANGED <<now, pc, busyUntil, pumpState, permit, history>>

\* Mutant: notify_waiters, which stores no permit.
HandlerNotifiesWaiters ==
    /\ owing
    /\ owing' = FALSE /\ permit' = (permit \/ pc = "select")
    /\ UNCHANGED <<now, pc, busyUntil, pumpState, unread, history>>

\* notify_one: at most one permit is stored.
HandlerNotifies ==
    /\ owing
    /\ owing' = FALSE /\ permit' = TRUE
    /\ UNCHANGED <<now, pc, busyUntil, pumpState, unread, history>>

-----------------------------------------------------------------------------
(* The pump *)

\* drain_pending has read the rows that were due when it began; or it failed,
\* which is only logged: pump_tick goes on, and the rows wait for the next tick.
DrainEnds ==
    /\ pc = "drain"
    /\ pc' = "decide"
    /\ UNCHANGED <<now, busyUntil, pumpState, notifyVars, history>>

\* A row the pump sees is answered with Revoked.
DrainRevoked ==
    /\ pc = "drain"
    /\ pc' = "stopped"
    /\ UNCHANGED <<now, busyUntil, pumpState, notifyVars, history>>

\* Mutant: due at every tick until it succeeds.
due_until_ok ==
    IF full_ok THEN now - last_full_success >= Interval ELSE TRUE

\* Mutant: only the startup reconcile is ever due.
due_at_startup_only ==
    ~full_ok /\ now >= next_full_attempt

full_reconcile_due ==
    IF full_ok THEN now - last_full_success >= Interval ELSE now >= next_full_attempt

\* The select begins: a sleep of PUMP_TICK against the notification.
Selecting ==
    /\ pc' = "select"
    /\ busyUntil' = now + PumpTick

Decide ==
    /\ pc = "decide"
    /\ \/ /\ full_reconcile_due
          /\ pc' = "full"
          /\ busyUntil' = now + CallTime
          /\ lastStart' = now
          /\ UNCHANGED <<failures, lastEnd>>
       \/ /\ ~full_reconcile_due
          /\ Selecting
          /\ UNCHANGED history
    /\ UNCHANGED <<now, pumpState, notifyVars>>

\* A correction it enqueued is an unread row, and notifies.
FullSucceeds ==
    /\ pc = "full"
    /\ full_ok' = TRUE
    /\ full_attempts' = 0
    /\ last_full_success' = now
    /\ \E corrected \in BOOLEAN :
        /\ permit' = (permit \/ corrected)
        /\ unread' = (unread \/ corrected)
    /\ Selecting
    /\ lastEnd' = now
    /\ UNCHANGED <<now, next_full_attempt, owing, failures, lastStart>>

FullFails ==
    /\ pc = "full"
    /\ failures < MaxFailures
    /\ failures' = failures + 1
    /\ full_attempts' = full_attempts + 1
    /\ next_full_attempt' = now + backoff_after(full_attempts')
    /\ Selecting
    /\ lastEnd' = now
    /\ UNCHANGED <<now, full_ok, last_full_success, notifyVars, lastStart>>

FullRevoked ==
    /\ pc = "full"
    /\ pc' = "stopped"
    /\ UNCHANGED <<now, busyUntil, pumpState, notifyVars, history>>

\* The next pump_tick: outbox_due_pending is asked for every row committed so far.
BeginTick ==
    /\ pc' = "drain"
    /\ busyUntil' = now + CallTime
    /\ unread' = FALSE

WakeByNotify ==
    /\ pc = "select"
    /\ permit
    /\ permit' = FALSE
    /\ BeginTick
    /\ UNCHANGED <<now, pumpState, owing, history>>

WakeByTick ==
    /\ pc = "select"
    /\ now >= busyUntil
    /\ BeginTick
    /\ UNCHANGED <<now, pumpState, permit, owing, history>>

\* Time passes while the pump waits for an answer or sleeps; a deadline that
\* has come, or a permit, is acted on first.
TimePasses ==
    /\ now < MaxTime
    /\ \/ pc \in {"drain", "full"} /\ now < busyUntil
       \/ pc = "select" /\ ~permit /\ now < busyUntil
       \/ pc = "stopped"
    /\ now' = now + 1
    /\ UNCHANGED <<pc, busyUntil, pumpState, notifyVars, history>>

Next ==
    \/ HandlerCommits \/ HandlerNotifies
    \/ DrainEnds \/ DrainRevoked \/ Decide
    \/ FullSucceeds \/ FullFails \/ FullRevoked
    \/ WakeByNotify \/ WakeByTick
    \/ TimePasses

Spec == Init /\ [][Next]_vars

-----------------------------------------------------------------------------
(* Properties *)

\* No wakeup is lost: a pump about to sleep (or sleeping) with a row it has not
\* tried to read holds a permit for it, also when the row was committed, or enqueued by
\* the full reconcile itself, while a tick was running.
NoLostWakeup ==
    pc = "select" /\ unread /\ ~owing => permit

\* Until the first success a failed full reconcile waits out its backoff,
\* however often handlers wake the pump meanwhile.
StartupBacksOff ==
    [][pc = "decide" /\ pc' = "full" /\ ~full_ok /\ full_attempts > 0
        => now >= lastEnd + backoff_after(full_attempts)]_vars

\* The periodic safety net comes round: with no failure since the last success
\* the kernel's schedules are listed again within the interval, one PUMP_TICK
\* and the calls in between.
FullComesRound ==
    full_ok /\ full_attempts = 0 /\ pc # "stopped"
        => now <= last_full_success + Interval + PumpTick + 2 * CallTime

\* "once it has, pump_tick re-runs reconcile_full no more often than
\* FULL_RECONCILE_INTERVAL": what the module doc of reconciler.rs says.
NoMoreOftenThanInterval ==
    [][pc = "decide" /\ pc' = "full" /\ full_ok
        => now >= lastStart + Interval]_vars
===============================================================================

-------------------------- MODULE PumpScheduleProofs --------------------------
(***************************************************************************)
(* Theorems about PumpSchedule, for any tick, interval, call time, backoff *)
(* cap and any number of handlers' commits.                                *)
(***************************************************************************)
EXTENDS PumpSchedule, TLAPS

ClockTyped ==
    /\ now \in Nat /\ busyUntil \in Nat /\ last_full_success \in Nat /\ full_attempts \in Nat
    /\ pc \in {"drain", "decide", "full", "select", "stopped"}
    /\ full_ok \in BOOLEAN

\* Wherever the pump is, a row no drain has read has its wakeup still to come:
\* its handler owes it, or the permit stores it.
UnreadIsAnnounced ==
    unread => owing \/ permit

\* No call and no sleep outlasts its bound.
OnTime ==
    pc \in {"drain", "full", "select"} => now <= busyUntil

\* While nothing failed since the last success, the end of what the pump is at
\* is known from that success: the sleep it began before the interval was over,
\* then a drain, then the full reconcile.
Deadlines ==
    full_ok /\ full_attempts = 0 =>
        /\ pc = "select" => busyUntil <= last_full_success + Interval + PumpTick
        /\ pc = "drain" => busyUntil <= last_full_success + Interval + PumpTick + CallTime
        /\ pc = "decide" => now <= last_full_success + Interval + PumpTick + CallTime
        /\ pc = "full" => busyUntil <= last_full_success + Interval + PumpTick + 2 * CallTime

\* Before the first success the next attempt is set from the end of the last.
BackoffSet ==
    ~full_ok /\ full_attempts > 0
        => next_full_attempt = lastEnd + backoff_after(full_attempts)

\* The inductive invariant.
ScheduleInv ==
    /\ ClockTyped /\ UnreadIsAnnounced /\ OnTime /\ Deadlines /\ BackoffSet

-----------------------------------------------------------------------------
\* It holds initially.
LEMMA ScheduleInit == Init => ScheduleInv
<1> SUFFICES ASSUME Init PROVE ScheduleInv
  OBVIOUS
<1>1. ~unread /\ ~full_ok /\ full_ok \in BOOLEAN
  BY Zenon DEF Init
<1>2. now = 0 /\ pc = "drain" /\ busyUntil = 0 /\ full_attempts = 0 /\ last_full_success = 0
  BY Zenon DEF Init
<1> QED
  BY <1>1, <1>2 DEF ScheduleInv, ClockTyped, UnreadIsAnnounced, OnTime, Deadlines, BackoffSet

\* The handlers' steps change neither the clock nor the pump.
LEMMA HandlersKeep ==
    ASSUME ScheduleInv, HandlerCommits \/ HandlerNotifies
    PROVE  ScheduleInv'
  BY DEF ScheduleInv, ClockTyped, UnreadIsAnnounced, OnTime, Deadlines, BackoffSet,
         HandlerCommits, HandlerNotifies, pumpState, history

\* The steps that end a drain or stop the pump.
LEMMA EndsKeep ==
    ASSUME ScheduleInv, DrainEnds \/ DrainRevoked \/ FullRevoked
    PROVE  ScheduleInv'
  BY PumpScheduleAssumption
  DEF ScheduleInv, ClockTyped, UnreadIsAnnounced, OnTime, Deadlines, BackoffSet,
      DrainEnds, DrainRevoked, FullRevoked, pumpState, notifyVars, history

\* A full reconcile starts at the end of a drain, or the sleep begins inside the
\* interval.
LEMMA DecideKeeps ==
    ASSUME ScheduleInv, Decide
    PROVE  ScheduleInv'
<1>1. /\ now' = now /\ full_ok' = full_ok /\ full_attempts' = full_attempts
      /\ next_full_attempt' = next_full_attempt
      /\ last_full_success' = last_full_success /\ lastEnd' = lastEnd
      /\ permit' = permit /\ owing' = owing /\ unread' = unread
  BY DEF Decide, pumpState, notifyVars, history
<1>2. UnreadIsAnnounced' /\ BackoffSet'
  BY <1>1 DEF ScheduleInv, UnreadIsAnnounced, BackoffSet
<1>3. CASE full_reconcile_due /\ pc' = "full" /\ busyUntil' = now + CallTime
  BY <1>1, <1>2, <1>3, PumpScheduleAssumption
  DEF Decide, ScheduleInv, ClockTyped, OnTime, Deadlines
\* A reconcile that is not due yet leaves the sleep begun inside the interval.
<1>4. CASE ~full_reconcile_due /\ Selecting
  BY <1>1, <1>2, <1>4, PumpScheduleAssumption
  DEF ScheduleInv, ClockTyped, OnTime, Deadlines, Selecting, full_reconcile_due
<1> QED BY <1>3, <1>4 DEF Decide

\* A success restarts the interval; a correction it enqueues is announced.
LEMMA FullSucceedsKeeps ==
    ASSUME ScheduleInv, FullSucceeds
    PROVE  ScheduleInv'
<1>1. UnreadIsAnnounced'
  BY DEF FullSucceeds, ScheduleInv, UnreadIsAnnounced
<1> QED
  BY <1>1, PumpScheduleAssumption
  DEF FullSucceeds, Selecting, ScheduleInv, ClockTyped, OnTime, Deadlines, BackoffSet

\* A failure sets the next attempt from now.
LEMMA FullFailsKeeps ==
    ASSUME ScheduleInv, FullFails
    PROVE  ScheduleInv'
<1>1. UnreadIsAnnounced'
  BY DEF FullFails, ScheduleInv, UnreadIsAnnounced, notifyVars
<1> QED
  BY <1>1, PumpScheduleAssumption
  DEF FullFails, Selecting, ScheduleInv, ClockTyped, OnTime, Deadlines, BackoffSet

\* The next tick reads every row committed so far.
LEMMA WakesKeep ==
    ASSUME ScheduleInv, WakeByNotify \/ WakeByTick
    PROVE  ScheduleInv'
  BY PumpScheduleAssumption
  DEF WakeByNotify, WakeByTick, BeginTick, pumpState, history, ScheduleInv, ClockTyped,
      UnreadIsAnnounced, OnTime, Deadlines, BackoffSet

\* Time never passes a deadline.
LEMMA TimeKeeps ==
    ASSUME ScheduleInv, TimePasses
    PROVE  ScheduleInv'
  BY PumpScheduleAssumption
  DEF TimePasses, pumpState, notifyVars, history, ScheduleInv, ClockTyped,
      UnreadIsAnnounced, OnTime, Deadlines, BackoffSet

\* Every step keeps the invariant.
LEMMA ScheduleInvStep == ScheduleInv /\ [Next]_vars => ScheduleInv'
<1> SUFFICES ASSUME ScheduleInv, [Next]_vars PROVE ScheduleInv'
  OBVIOUS
<1>1. CASE UNCHANGED vars
  BY <1>1 DEF vars, pumpState, notifyVars, history, ScheduleInv, ClockTyped,
              UnreadIsAnnounced, OnTime, Deadlines, BackoffSet
<1>2. CASE Next
  BY <1>2, HandlersKeep, EndsKeep, DecideKeeps, FullSucceedsKeeps, FullFailsKeeps,
     WakesKeep, TimeKeeps DEF Next
<1> QED BY <1>1, <1>2

\* The inductive invariant of the pump's schedule: every unread row is announced,
\* every deadline is known from the last success, every backoff from the last end.
THEOREM ScheduleInvariant == Spec => []ScheduleInv
  BY ScheduleInit, ScheduleInvStep, PTL DEF Spec

\* NoLostWakeup, for any number of handlers' commits and any durations: the
\* pump never sleeps on a committed row without a permit for it.
THEOREM WakeupsNeverLost == Spec => []NoLostWakeup
<1>1. ScheduleInv => NoLostWakeup
  BY DEF ScheduleInv, UnreadIsAnnounced, NoLostWakeup
<1> QED BY <1>1, ScheduleInvariant, PTL

\* FullComesRound, for any tick, interval and call time: with no failure since,
\* the last full success is never older than Interval + PumpTick + 2 * CallTime.
THEOREM SafetyNetComesRound == Spec => []FullComesRound
<1>1. ScheduleInv => FullComesRound
  BY PumpScheduleAssumption DEF ScheduleInv, ClockTyped, OnTime, Deadlines, FullComesRound
<1> QED BY <1>1, ScheduleInvariant, PTL

\* StartupBacksOff, for any cap and any number of failures: before the first
\* success no full reconcile starts inside the backoff of the failure before it.
THEOREM StartupAlwaysBacksOff == Spec => StartupBacksOff
<1> DEFINE Waits == pc = "decide" /\ pc' = "full" /\ ~full_ok /\ full_attempts > 0
                        => now >= lastEnd + backoff_after(full_attempts)
<1>1. ScheduleInv /\ [Next]_vars => [Waits]_vars
  <2> SUFFICES ASSUME ScheduleInv, Next, pc = "decide", pc' = "full", ~full_ok, full_attempts > 0
               PROVE  now >= lastEnd + backoff_after(full_attempts)
    OBVIOUS
  <2>1. Decide
    BY DEF Next, HandlerCommits, HandlerNotifies, DrainEnds, DrainRevoked, FullSucceeds,
           FullFails, FullRevoked, WakeByNotify, WakeByTick, TimePasses
  <2>2. now >= next_full_attempt
    BY <2>1 DEF Decide, Selecting, full_reconcile_due
  <2> QED BY <2>2 DEF ScheduleInv, BackoffSet
<1> QED BY <1>1, ScheduleInvariant, PTL DEF Spec, StartupBacksOff
===============================================================================

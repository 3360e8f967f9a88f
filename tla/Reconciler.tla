------------------------------ MODULE Reconciler ------------------------------
(***************************************************************************)
(* The pump of adapter_agent24/reconciler.rs over the store of module      *)
(* Outbox, against the kernel's scheduler and private memory.              *)
(*                                                                         *)
(* The pump is one task, so drain_pending and reconcile_full never overlap *)
(* each other; but every await in them is a step boundary here, and HTTP   *)
(* edits, kernel-side changes, crashes and late kernel effects fall        *)
(* between any two steps.  A crash loses the pump's locals and keeps the   *)
(* database; a new generation may be granted other capabilities.           *)
(***************************************************************************)
EXTENDS Outbox

CONSTANTS
    Generations, \* what a generation may be: capabilities granted, kinds its build dispatches
    Threshold,   \* OTHER_BUCKET_EXHAUSTION_THRESHOLD
    LateEffects, \* whether the kernel may execute a call its caller gave up on
    MaxEdits,    \* bound: store edits by the HTTP handlers
    MaxFaults,   \* bound: failed kernel calls, failed store calls and crashes
    MaxDrifts    \* bound: changes made on the kernel side by others

Capabilities == {"scheduler", "memory"}

Generation == [granted : SUBSET Capabilities, kinds : SUBSET Kinds]

ASSUME ReconcilerAssumption ==
    /\ Generations \subseteq Generation
    /\ Generations # {}
    /\ Threshold \in Nat \ {0}
    /\ LateEffects \in BOOLEAN
    /\ MaxEdits \in Nat /\ MaxFaults \in Nat /\ MaxDrifts \in Nat

ScheduleIds == RoutineIds \cup OrphanIds

VARIABLES
    gen,       \* the running generation
    pc,        \* where the pump task is
    batch,     \* drain_pending's OutboxRow snapshots, the row at hand first
    reply,     \* the outcome of the kernel call for that row
    fullDue,   \* the next tick runs reconcile_full
    local,     \* reconcile_full's local_desired_map: key -> desired state
    listed,    \* the kernel's list() answer
    todo,      \* keys reconcile_full has still to look at
    schedules, \* kernel: the schedule of each key
    memories,  \* kernel: how many memories carry each Review's dedup_key
    late,      \* kernel: calls it may still execute after their caller gave up
    acks,      \* history: the row versions and desired states the kernel confirmed
    edits, faults, drifts  \* how much of each bound is used

pumpVars == <<gen, pc, batch, reply, fullDue, local, listed, todo>>
kernelVars == <<schedules, memories, late>>
bounds == <<edits, faults, drifts>>
vars == <<storeVars, pumpVars, kernelVars, acks, bounds>>

-----------------------------------------------------------------------------
(* The kernel, as the adapter uses it (external) *)

NoSchedule == [present |-> FALSE, spec |-> Nothing, enabled |-> FALSE,
               suspended |-> FALSE, disabled |-> FALSE]

Schedule == [present : BOOLEAN, spec : Specs \cup Bodies \cup {Nothing}, enabled : BOOLEAN,
             suspended : BOOLEAN, disabled : BOOLEAN]

\* What is left of an OutboxRow once it is a kernel call.
Call == [key : Keys, desired : Desired]

\* upsert sets spec and enabled, clears system_disabled_reason and keeps the
\* human's user_suspended; delete removes the key.
ScheduleAfter(call) ==
    CASE call.desired.kind = "scheduler.upsert" ->
            [schedules EXCEPT ![call.key] =
                [present |-> TRUE, spec |-> call.desired.payload, enabled |-> call.desired.enabled,
                 suspended |-> @.suspended, disabled |-> FALSE]]
      [] call.desired.kind = "scheduler.delete" -> [schedules EXCEPT ![call.key] = NoSchedule]
      [] OTHER -> schedules

\* remember mints a new memory on every call.
MemoriesAfter(call) ==
    IF call.desired.kind = "memory.remember"
    THEN [memories EXCEPT ![call.key] = @ + 1]
    ELSE memories

Executed(call) ==
    /\ schedules' = ScheduleAfter(call)
    /\ memories' = MemoriesAfter(call)

NotExecuted == UNCHANGED <<schedules, memories>>

\* A call whose outcome its caller will not learn: executed, lost, or (with
\* LateEffects) still on its way.
Uncertain(call) ==
    \/ Executed(call) /\ UNCHANGED late
    \/ NotExecuted /\ UNCHANGED late
    \/ LateEffects /\ NotExecuted /\ late' = late \cup {call}

-----------------------------------------------------------------------------
(* Rows and clients *)

Head1 == Head(batch)

CallOf(row) == [key |-> row.key, desired |-> row.desired]

\* OutboxRow, as outbox_due_pending reads it.
Snapshot(i) ==
    [id |-> i, key |-> outbox[i].key, desired |-> outbox[i].desired,
     version |-> outbox[i].version, otherBucket |-> outbox[i].otherBucket]

OutboxRow == [id : Nat \ {0}, key : Keys, desired : Desired, version : Nat \ {0}, otherBucket : Nat]

Due(row) == row.status = "pending" /\ ~row.waiting

DueIds == {i \in 1..Len(outbox) : Due(outbox[i])}

\* The snapshots of all due rows, ORDER BY created_at, rowid: a set with just
\* that one batch in it.
outbox_due_pending ==
    LET InOrder(ids) == /\ \A m, n \in DOMAIN ids : m < n => ids[m] < ids[n]
                        /\ \A i \in DueIds : \E n \in DOMAIN ids : ids[n] = i
        orders == UNION {{ids \in [1..n -> DueIds] : InOrder(ids)} : n \in 0..Len(outbox)}
    IN  {[n \in DOMAIN ids |-> Snapshot(ids[n])] : ids \in orders}

CapabilityFor(kind) == IF kind = "memory.remember" THEN "memory" ELSE "scheduler"

\* This build dispatches the kind and holds the client for it.
Serves(kind) == kind \in gen.kinds /\ CapabilityFor(kind) \in gen.granted

\* ReconcilerClients::any: without a capability main.rs spawns no pump.
PumpRuns(g) == g.granted # {}

-----------------------------------------------------------------------------
(* Typing and the initial state *)

Outcomes == {"ok", "not_found", "revoked", "lost", "permanent", "capacity", "other"}

TypeOK ==
    /\ StoreTypeOK
    /\ gen \in Generation
    /\ pc \in {"down", "off", "idle", "drain", "sent", "recalled", "reply",
               "list", "correct", "stopped"}
    /\ batch \in Seq(OutboxRow)
    /\ (pc \in {"sent", "recalled", "reply"} => batch # <<>>)
    /\ reply \in Outcomes \cup {Nothing}
    /\ (pc = "reply" => reply \in Outcomes)
    /\ fullDue \in BOOLEAN
    /\ local \in [RoutineIds -> Desired]
    /\ listed \in [ScheduleIds -> Schedule]
    /\ todo \in SUBSET ScheduleIds
    /\ schedules \in [ScheduleIds -> Schedule]
    /\ memories \in [ReviewIds -> Nat]
    /\ late \in SUBSET Call
    /\ acks \in SUBSET [id : Nat \ {0}, version : Nat \ {0}, desired : Desired]
    /\ edits \in Nat /\ faults \in Nat /\ drifts \in Nat

NothingListed == [k \in ScheduleIds |-> NoSchedule]
NothingLocal == [r \in RoutineIds |-> routine_outbox_delete_desired]

\* The pump's locals when it holds none.
Forgotten ==
    /\ batch' = <<>>
    /\ reply' = Nothing
    /\ local' = NothingLocal
    /\ listed' = NothingListed
    /\ todo' = {}

Init ==
    /\ StoreInit
    /\ gen \in Generations
    /\ pc = "down"
    /\ batch = <<>> /\ reply = Nothing
    /\ fullDue = FALSE
    /\ local = NothingLocal /\ listed = NothingListed /\ todo = {}
    /\ \E s \in Specs :
        schedules = [k \in ScheduleIds |->
            IF k \in OrphanIds
            THEN [NoSchedule EXCEPT !.present = TRUE, !.spec = s, !.enabled = TRUE]
            ELSE NoSchedule]
    /\ memories = [v \in ReviewIds |-> 0]
    /\ late = {} /\ acks = {}
    /\ edits = 0 /\ faults = 0 /\ drifts = 0

-----------------------------------------------------------------------------
(* Environment: handlers, time, the kernel side, crashes *)

\* An HTTP handler's transaction; it also notifies the pump, which Wake covers.
HttpEdit ==
    /\ pc # "down"
    /\ edits < MaxEdits
    /\ Edit
    /\ edits' = edits + 1
    /\ UNCHANGED <<pumpVars, kernelVars, acks, faults, drifts>>

RowBecomesDue ==
    /\ \E i \in 1..Len(outbox) : BackoffElapses(i)
    /\ UNCHANGED <<pumpVars, kernelVars, acks, bounds>>

\* FULL_RECONCILE_INTERVAL, or the backoff of a failed full reconcile, passes.
FullBecomesDue ==
    /\ pc \in {"idle", "drain", "sent", "recalled", "reply"}
    /\ ~fullDue
    /\ fullDue' = TRUE
    /\ UNCHANGED <<storeVars, gen, pc, batch, reply, local, listed, todo, kernelVars, acks, bounds>>

\* Someone changes a schedule on the kernel side: the human suspends or resumes
\* it, the kernel disables it, or it is edited or lost there.
KernelDrifts ==
    /\ drifts < MaxDrifts
    /\ drifts' = drifts + 1
    /\ \E k \in ScheduleIds :
        /\ schedules[k].present
        /\ \/ schedules' = [schedules EXCEPT ![k].suspended = ~@]
           \/ ~schedules[k].disabled /\ schedules' = [schedules EXCEPT ![k].disabled = TRUE]
           \/ schedules' = [schedules EXCEPT ![k].enabled = ~@]
           \/ schedules' = [schedules EXCEPT ![k] = NoSchedule]
    /\ UNCHANGED <<storeVars, pumpVars, memories, late, acks, edits, faults>>

LateCallExecuted ==
    /\ \E call \in late :
        /\ Executed(call)
        /\ late' = late \ {call}
    /\ UNCHANGED <<storeVars, pumpVars, acks, bounds>>

\* The process dies (or exits with 70 because the callback connection is gone).
Crash ==
    /\ pc # "down"
    /\ faults < MaxFaults
    /\ faults' = faults + 1
    /\ pc' = "down"
    /\ Forgotten
    /\ fullDue' = FALSE
    /\ IF \/ pc = "recalled"
          \/ pc = "sent" /\ Head1.desired.kind # "memory.remember"
       THEN Uncertain(CallOf(Head1))
       ELSE UNCHANGED kernelVars
    /\ UNCHANGED <<storeVars, gen, acks, edits, drifts>>

\* A generation the kernel revoked, or granted nothing, is replaced.
GenerationEnds ==
    /\ pc \in {"stopped", "off"}
    /\ pc' = "down"
    /\ UNCHANGED <<storeVars, gen, batch, reply, fullDue, local, listed, todo, kernelVars,
                   acks, bounds>>

\* The supervisor starts the next generation; PumpState::new is due at once.
StartGeneration ==
    /\ pc = "down"
    /\ \E g \in Generations :
        /\ gen' = g
        /\ pc' = IF PumpRuns(g) THEN "idle" ELSE "off"
        /\ fullDue' = PumpRuns(g)
    /\ UNCHANGED <<storeVars, batch, reply, local, listed, todo, kernelVars, acks, bounds>>

-----------------------------------------------------------------------------
(* drain_pending and apply_one *)

\* PUMP_TICK or outbox_notify wakes the loop; pump_tick drains first.
Wake ==
    /\ pc = "idle"
    /\ pc' = "drain"
    /\ batch' \in outbox_due_pending
    /\ UNCHANGED <<storeVars, gen, reply, fullDue, local, listed, todo, kernelVars, acks, bounds>>

\* RowOutcome::Continue: on to the next row of the batch.
NextRow ==
    /\ pc' = "drain"
    /\ batch' = Tail(batch)
    /\ reply' = Nothing
    /\ UNCHANGED <<gen, fullDue, local, listed, todo>>

\* RowOutcome::StopBatch, and an error of the store: the pass is over.
StopBatch ==
    /\ pc' = "drain"
    /\ batch' = <<>>
    /\ reply' = Nothing
    /\ UNCHANGED <<gen, fullDue, local, listed, todo>>

PumpStops ==
    /\ pc' = "stopped"
    /\ Forgotten
    /\ UNCHANGED <<gen, fullDue>>

AtRow == pc = "drain" /\ batch # <<>>

\* A row that moved on since the batch was read is not sent.
SkipStaleRow ==
    /\ AtRow
    /\ ~outbox_row_is_current(Head1.id, Head1.version)
    /\ NextRow
    /\ UNCHANGED <<storeVars, kernelVars, acks, bounds>>

\* A row this generation has no client for stays as it is.
SkipUnserved ==
    /\ AtRow
    /\ outbox_row_is_current(Head1.id, Head1.version)
    /\ Head1.desired.kind \in gen.kinds
    /\ CapabilityFor(Head1.desired.kind) \notin gen.granted
    /\ NextRow
    /\ UNCHANGED <<storeVars, kernelVars, acks, bounds>>

\* Mutant: a row of an unknown kind is settled as if it had landed.
DropUnknownKind ==
    /\ AtRow
    /\ outbox_row_is_current(Head1.id, Head1.version)
    /\ Head1.desired.kind \notin gen.kinds
    /\ outbox_mark_done(Head1.id, Head1.version)
    /\ NextRow
    /\ UNCHANGED <<kernelVars, acks, bounds>>

\* A kind this build does not know waits UNKNOWN_KIND_RETRY_SECS.
PostponeUnknownKind ==
    /\ AtRow
    /\ outbox_row_is_current(Head1.id, Head1.version)
    /\ Head1.desired.kind \notin gen.kinds
    /\ outbox_mark_retry(Head1.id, Head1.version, FALSE)
    /\ NextRow
    /\ UNCHANGED <<kernelVars, acks, bounds>>

SendRow ==
    /\ AtRow
    /\ outbox_row_is_current(Head1.id, Head1.version)
    /\ Serves(Head1.desired.kind)
    /\ pc' = "sent"
    /\ UNCHANGED <<storeVars, gen, batch, reply, fullDue, local, listed, todo, kernelVars,
                   acks, bounds>>

Answered(outcome) ==
    /\ pc' = "reply"
    /\ reply' = outcome
    /\ UNCHANGED <<storeVars, gen, batch, fullDue, local, listed, todo, edits, drifts>>

Confirmed(row) ==
    acks' = acks \cup {[id |-> row.id, version |-> row.version, desired |-> row.desired]}

\* What may come back for a call that is not a success.
CallFails(call) ==
    /\ faults < MaxFaults
    /\ faults' = faults + 1
    /\ \/ \E outcome \in {"revoked", "permanent", "capacity", "other"} :
            Answered(outcome) /\ UNCHANGED kernelVars
       \/ \E outcome \in {"lost", "other"} :
            Answered(outcome) /\ Uncertain(call)
    /\ UNCHANGED acks

\* upsert, or delete of a key the kernel has or (deleted: absent) has not.
SchedulerAnswers ==
    /\ pc = "sent"
    /\ Head1.desired.kind # "memory.remember"
    /\ \/ /\ \/ Answered("ok")
             \/ /\ Head1.desired.kind = "scheduler.delete"
                /\ ~schedules[Head1.key].present
                /\ Answered("not_found")
          /\ Executed(CallOf(Head1))
          /\ Confirmed(Head1)
          /\ UNCHANGED <<late, faults>>
       \/ CallFails(CallOf(Head1))

\* Mutant: remember without recalling first.
RecallSkipped ==
    /\ pc = "sent"
    /\ Head1.desired.kind = "memory.remember"
    /\ pc' = "recalled"
    /\ UNCHANGED <<storeVars, gen, batch, reply, fullDue, local, listed, todo,
                   kernelVars, acks, bounds>>

\* remember_once: recall by dedup_key first; a match is the answer.
RecallAnswers ==
    /\ pc = "sent"
    /\ Head1.desired.kind = "memory.remember"
    /\ \/ /\ memories[Head1.key] > 0
          /\ Answered("ok")
          /\ Confirmed(Head1)
          /\ UNCHANGED <<kernelVars, faults>>
       \/ /\ memories[Head1.key] = 0
          /\ pc' = "recalled"
          /\ UNCHANGED <<storeVars, gen, batch, reply, fullDue, local, listed, todo,
                         kernelVars, acks, bounds>>
       \/ /\ faults < MaxFaults   \* an error, or Inconclusive: surfaced as Other
          /\ faults' = faults + 1
          /\ \E outcome \in {"revoked", "lost", "permanent", "capacity", "other"} : Answered(outcome)
          /\ UNCHANGED <<kernelVars, acks>>

RememberAnswers ==
    /\ pc = "recalled"
    /\ \/ /\ Answered("ok")
          /\ Executed(CallOf(Head1))
          /\ Confirmed(Head1)
          /\ UNCHANGED <<late, faults>>
       \/ CallFails(CallOf(Head1))

\* The classification table of apply_one.
RowLands ==
    /\ pc = "reply"
    /\ reply \in {"ok", "not_found"}
    /\ outbox_mark_done(Head1.id, Head1.version)
    /\ NextRow
    /\ UNCHANGED <<kernelVars, acks, bounds>>

RowRevoked ==
    /\ pc = "reply"
    /\ reply = "revoked"
    /\ PumpStops
    /\ UNCHANGED <<storeVars, kernelVars, acks, bounds>>

RowConnectionLost ==
    /\ pc = "reply"
    /\ reply = "lost"
    /\ StopBatch
    /\ UNCHANGED <<storeVars, kernelVars, acks, bounds>>

RowFailsForGood ==
    /\ pc = "reply"
    /\ reply = "permanent"
    /\ outbox_mark_failed(Head1.id, Head1.version)
    /\ NextRow
    /\ UNCHANGED <<kernelVars, acks, bounds>>

RowBacksOff ==
    /\ pc = "reply"
    /\ reply = "capacity"
    /\ outbox_mark_retry(Head1.id, Head1.version, FALSE)
    /\ StopBatch
    /\ UNCHANGED <<kernelVars, acks, bounds>>

RowRetriesOrExhausts ==
    /\ pc = "reply"
    /\ reply = "other"
    /\ IF Head1.otherBucket + 1 >= Threshold
       THEN outbox_mark_failed(Head1.id, Head1.version)
       ELSE outbox_mark_retry(Head1.id, Head1.version, TRUE)
    /\ NextRow
    /\ UNCHANGED <<kernelVars, acks, bounds>>

\* A store call of the pass fails (SQLite busy or an I/O error): the error
\* leaves drain_pending, is logged, and the row stays as it was.
DrainStoreFails ==
    /\ pc = "reply" \/ AtRow
    /\ faults < MaxFaults
    /\ faults' = faults + 1
    /\ StopBatch
    /\ UNCHANGED <<storeVars, kernelVars, acks, edits, drifts>>

-----------------------------------------------------------------------------
(* reconcile_full *)

\* local_desired_map: every Routine that is not retired.
local_desired_map == [r \in RoutineIds |-> DesiredOf(r)]

IsLocal(k) == k \in RoutineIds /\ local[k].kind = "scheduler.upsert"

\* The drain is over: reconcile_full if it is due, else back to the select.
\* Without a scheduler client reconcile_full succeeds at once.
DrainEnds ==
    /\ pc = "drain"
    /\ batch = <<>>
    /\ \/ /\ fullDue /\ "scheduler" \in gen.granted
          /\ pc' = "list"
          /\ local' = local_desired_map
          /\ UNCHANGED fullDue
       \/ /\ ~(fullDue /\ "scheduler" \in gen.granted)
          /\ pc' = "idle"
          /\ fullDue' = FALSE
          /\ UNCHANGED local
    /\ UNCHANGED <<storeVars, gen, batch, reply, listed, todo, kernelVars, acks, bounds>>

FullEnds ==
    /\ pc' = "idle"
    /\ fullDue' = FALSE
    /\ Forgotten
    /\ UNCHANGED gen

ListAnswers ==
    /\ pc = "list"
    /\ pc' = "correct"
    /\ listed' = schedules
    /\ todo' = {k \in ScheduleIds : IsLocal(k) \/ schedules[k].present}
    /\ UNCHANGED <<storeVars, gen, batch, reply, fullDue, local, kernelVars, acks, bounds>>

ListFails ==
    /\ pc = "list"
    /\ faults < MaxFaults
    /\ faults' = faults + 1
    /\ FullEnds \/ PumpStops
    /\ UNCHANGED <<storeVars, kernelVars, acks, edits, drifts>>

\* missing, drifted or system-disabled: correct it; user_suspended: hands off.
NeedsUpsert(k) ==
    \/ ~listed[k].present
    \/ /\ ~listed[k].suspended
       /\ \/ listed[k].disabled
          \/ listed[k].spec # local[k].payload
          \/ listed[k].enabled # local[k].enabled

Correct(k) ==
    /\ pc = "correct"
    /\ k \in todo
    /\ todo' = todo \ {k}
    /\ IF IsLocal(k)
       THEN IF NeedsUpsert(k) THEN outbox_enqueue_upsert_for_routine(k) ELSE UNCHANGED storeVars
       ELSE outbox_enqueue_delete_for_orphan(k)
    /\ UNCHANGED <<gen, pc, batch, reply, fullDue, local, listed, kernelVars, acks, bounds>>

SyncSuspended ==
    /\ pc = "correct"
    /\ todo = {}
    /\ sync_kernel_suspended_routines({r \in RoutineIds :
            IsLocal(r) /\ listed[r].present /\ listed[r].suspended})
    /\ FullEnds
    /\ UNCHANGED <<kernelVars, acks, bounds>>

FullStoreFails ==
    /\ pc = "correct"
    /\ faults < MaxFaults
    /\ faults' = faults + 1
    /\ FullEnds
    /\ UNCHANGED <<storeVars, kernelVars, acks, edits, drifts>>

-----------------------------------------------------------------------------
KernelAnswers == SchedulerAnswers \/ RecallAnswers \/ RememberAnswers \/ ListAnswers

PumpStep ==
    \/ Wake
    \/ SkipStaleRow \/ SkipUnserved \/ PostponeUnknownKind \/ SendRow
    \/ RowLands \/ RowRevoked \/ RowConnectionLost
    \/ RowFailsForGood \/ RowBacksOff \/ RowRetriesOrExhausts
    \/ DrainEnds
    \/ \E k \in ScheduleIds : Correct(k)
    \/ SyncSuspended

Next ==
    \/ HttpEdit
    \/ RowBecomesDue \/ FullBecomesDue
    \/ KernelDrifts \/ LateCallExecuted
    \/ Crash \/ GenerationEnds \/ StartGeneration
    \/ PumpStep \/ KernelAnswers
    \/ DrainStoreFails \/ ListFails \/ FullStoreFails

Spec == Init /\ [][Next]_vars

\* The runtime keeps polling the pump task and the connection, the kernel keeps
\* answering (an error is an answer too), sleeps end, and the supervisor starts
\* a generation that ended.
Fairness ==
    /\ WF_vars(PumpStep)
    /\ WF_vars(KernelAnswers)
    /\ WF_vars(RowBecomesDue)
    /\ WF_vars(FullBecomesDue)
    /\ WF_vars(GenerationEnds \/ StartGeneration)
    /\ WF_vars(LateCallExecuted)

FairSpec == Spec /\ Fairness

-----------------------------------------------------------------------------
(* Properties *)

\* done_at means "this exact desired state was confirmed": a row is done only
\* if the kernel confirmed the very version and desired state the row holds,
\* though edits may overwrite the row while its call is in flight.
DoneMeansAcked ==
    \A i \in 1..Len(outbox) :
        outbox[i].status = "done" =>
            [id |-> i, version |-> outbox[i].version, desired |-> outbox[i].desired] \in acks

\* The kernel holds for r what the store wants.  A schedule the human suspended
\* is left as it is while its Routine lives.
Mirrored(r) ==
    IF DesiredOf(r).kind = "scheduler.delete"
    THEN ~schedules[r].present
    ELSE /\ schedules[r].present
         /\ \/ schedules[r].suspended
            \/ /\ schedules[r].spec = DesiredOf(r).payload
               /\ schedules[r].enabled = DesiredOf(r).enabled
               /\ ~schedules[r].disabled

\* A Routine with no row left to land is mirrored: whatever edits, crashes,
\* restarts, lost answers and corrections went before, no outdated call of the
\* pump was the last to reach the kernel.  (For a kernel that executes no call
\* after its caller gave up, and that nobody else has changed.)
SettledMeansMirrored ==
    ~LateEffects /\ drifts = 0 =>
        \A r \in RoutineIds : LiveRows(outbox, r) = {} => Mirrored(r)

\* A finalized Review is remembered once, though its remember call may time
\* out after the kernel executed it and is then retried by this or the next
\* generation: remember_review_summary recalls by dedup_key first.
RememberedAtMostOnce ==
    ~LateEffects => \A v \in ReviewIds : memories[v] <= 1

\* Once edits, faults and kernel-side changes stop, the kernel ends up holding
\* exactly what the Routine table says, and no orphan: failed and exhausted
\* rows, late effects and drift are all repaired by the periodic reconcile_full.
EventuallyMirrored ==
    <>[](/\ \A r \in RoutineIds : Mirrored(r)
         /\ \A k \in OrphanIds : ~schedules[k].present)

\* The kernel_suspended_at marks that /today shows settle on the Routines whose
\* schedule the human did suspend: a resume, a lost schedule or an edit during a
\* full reconcile leaves no mark behind on a living Routine.
EventuallyNoticed ==
    <>[](\A r \in RoutineIds : DesiredOf(r).kind = "scheduler.upsert" =>
            (r \in suspendedNotice <=> schedules[r].suspended))

\* A finalized Review with text is remembered once the generations running can
\* serve its row, however long it had to wait in generations without the grant
\* or of an older build; unless the row failed for good, which nothing revives.
FinalizedIsRemembered ==
    <>[]Serves("memory.remember") => \A v \in ReviewIds :
        reviews[v].status = "finalized" /\ reviews[v].body # Blank
            ~> \/ memories[v] > 0
               \/ \E i \in RowsOf(v) : outbox[i].status = "failed"

-----------------------------------------------------------------------------
(* The pump implements KernelIntent *)

NewestRow(k) == Newest(RowsOf(k))

NoDesired == [kind |-> Nothing, payload |-> Nothing, enabled |-> FALSE]

Intent == INSTANCE KernelIntent WITH
    Keys <- Keys,
    Desireds <- Desired,
    NoIntent <- NoDesired,
    intent <- [k \in Keys |-> IF RowsOf(k) = {} THEN NoDesired ELSE outbox[NewestRow(k)].desired],
    phase <- [k \in Keys |-> IF RowsOf(k) = {} THEN "none" ELSE outbox[NewestRow(k)].status],
    confirmed <- [k \in Keys |->
        /\ RowsOf(k) # {}
        /\ [id |-> NewestRow(k), version |-> outbox[NewestRow(k)].version,
            desired |-> outbox[NewestRow(k)].desired] \in acks]

\* Seen from outside, each key is one slot: an intent lands only after the
\* kernel confirmed that very intent, and a new intent starts unconfirmed.
ImplementsIntent == Intent!Spec

===============================================================================

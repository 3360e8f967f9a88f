-------------------------- MODULE AiCapabilitiesProofs --------------------------
(***************************************************************************)
(* The AI capabilities, proved for every set of worlds, any number of      *)
(* tasks, Directions and proposals, and any call budget.                   *)
(*                                                                         *)
(* What every proof rests on is BaseInv: the types, where the item of a    *)
(* run stands and what its past calls mean for it (LadderInv), and what    *)
(* the run has read (ReadInv).  Relative to it four more invariants are    *)
(* inductive: why each rung was reached (AuditInv), what a parked task has *)
(* missed (MissedInv), which proposals a run has steered clear of          *)
(* (LiveInv), and, given LiveInv, what a run and a poll of it report       *)
(* (ReportInv).                                                            *)
(***************************************************************************)
EXTENDS AiCapabilities, FiniteSetTheorems, TLAPS

-----------------------------------------------------------------------------
(* Types *)

TaskRow ==
    [week : {None, "prev", "this"}, status : {"planned", "done", "carried_over"},
     direction : {None, Triage, Filed}, via : {None, "direct", "classify", "propose"},
     entered : Nat \cup {None}, evaluated : Nat \cup {None}, edited : Nat]

\* The tasks, or the Directions, a proposal names.
Whats == {S \in SUBSET (Nat \cup world.gaps) : IsFiniteSet(S)}

ProposalRow ==
    [source : {"direct", "classify", "propose"}, kind : {"assign", "carry", "reorder", "create"},
     what : Whats, to : {None, Triage, Filed}, at : Nat,
     status : {"pending", "applied", "rejected"}]

StoreType ==
    /\ world \in Worlds
    /\ clock \in Nat
    /\ directions \in Seq(Nat)
    /\ tasks \in Seq(TaskRow)
    /\ weeks \in [{"prev", "this"} -> BOOLEAN]
    /\ gaps \subseteq world.gaps
    /\ proposals \in Seq(ProposalRow)

Targets == IF IsClassify THEN [task : Nat, parked : BOOLEAN] ELSE {"week"}

CallKinds ==
    ModelFailure \cup {"ok", "rejected_by_precheck", "submit_store_error", "undecided", "no_match",
                       "privacy_tripwire", "bad_output"}

CallRow ==
    [item : Targets, engine : Engines \cup {"reflex"}, fallback_from : Engines \cup {None},
     tier : {None, "local", "remote"}, kind : CallKinds, proposal : Nat \cup {None},
     is_first : BOOLEAN]

LadderType ==
    /\ run = [phase |-> run.phase, steps |-> run.steps, todo |-> run.todo, read |-> run.read,
              asked |-> run.asked, items |-> run.items, last |-> run.last]
    /\ run.phase \in {"idle", "auto", "targets", "selected", "started", "items"}
    /\ run.todo \in Seq(Targets)
    /\ st \in [calls_left : Nat, late : BOOLEAN, skip : SUBSET Engines, models_off : BOOLEAN,
               aborted : BOOLEAN]
    /\ item = [phase |-> item.phase, at |-> item.at, failed_from |-> item.failed_from,
               deterministic |-> item.deterministic, value |-> item.value, row |-> item.row]
    /\ item.phase \in {"step", "waiting", "produced", "submitting", "nothing", "deferred", "aborted"}
    /\ item.at \in Nat \ {0}
    /\ item.failed_from \in Engines \cup {None}
    /\ calls \in Seq(CallRow)

-----------------------------------------------------------------------------
(* Where the item stands *)

Rungs == {"decisive", "executive", "local", "fallback"}

Rank == [decisive |-> 0, executive |-> 1, local |-> 2, fallback |-> 3]

\* The ladders a run may have: some of the rungs, in this order, below rung n.
PlanBelow(s, n) ==
    /\ s \in Seq(Rungs)
    /\ \A k \in DOMAIN s : Rank[s[k]] < n
    /\ \A j, k \in DOMAIN s : j < k => Rank[s[j]] < Rank[s[k]]

IsPlan(s) == PlanBelow(s, 4)

Decided == item.phase \in {"produced", "submitting"}

\* The row a decision is going to write.
RowReady ==
    /\ item.row \in CallRow
    /\ item.row.item = Head(run.todo)
    /\ item.row.kind = "ok" /\ item.row.is_first /\ item.row.proposal = None
    /\ item.row.engine \notin st.skip
    /\ IsModelRow(item.row) => ~st.models_off

\* Before a run takes up its items its ladder is untouched; an item under way is
\* the head of the run; a model that is being asked may be asked.
Standing ==
    /\ run.phase # "items" => calls = <<>> /\ st = RunState /\ item = AtTop
    /\ item.phase # "step" => run.phase = "items" /\ run.todo # <<>>
    /\ run.phase = "items" /\ (run.todo # <<>> \/ calls # <<>>) => IsPlan(run.steps)
    /\ item.phase = "waiting" =>
          item.at \in DOMAIN run.steps /\ Asked \in Engines \ st.skip /\ ~st.models_off
    /\ Decided => RowReady
    /\ st.aborted => item.phase \in {"step", "aborted"}

\* A run settles a target once.
Distinct ==
    \A i, j \in DOMAIN run.todo : i # j =>
        run.todo[i] # run.todo[j] /\ (IsClassify => run.todo[i].task # run.todo[j].task)

\* What a call on record means for the rest of the run: its state s, the targets
\* it has still to settle, and the phase of the first of them.
PastCall(r, s, todo, phase) ==
    /\ r.kind \in Aborting => s.aborted
    /\ r.kind \in Deferring => s.models_off
    /\ r.kind \in Deferring /\ r.item \in Range(todo) => phase = "deferred"
    /\ r.item \in Range(todo) => r.item = Head(todo)
    /\ opens_circuit(r.kind) => r.engine \in s.skip

AllPast(cs, s, todo, phase) == \A i \in DOMAIN cs : PastCall(cs[i], s, todo, phase)

PastCalls == AllPast(calls, st, run.todo, item.phase)

LadderInv == LadderType /\ Standing /\ Distinct /\ PastCalls /\ VerdictsHeld

-----------------------------------------------------------------------------
(* What a run has read, and what it may decide *)

MayDecide(v) ==
    IF IsClassify THEN v \in {Filed, Triage, "low_confidence"}
    ELSE v.carry \subseteq run.read.carry /\ v.create \subseteq run.read.gaps

ReadInv ==
    /\ IsClassify /\ run.phase \in {"started", "items"} =>
          /\ run.read = [started |-> run.read.started, candidates |-> run.read.candidates]
          /\ run.read.started \in Nat /\ run.read.started <= clock
    /\ IsPropose /\ run.phase = "items" /\ run.todo # <<>> =>
          /\ run.read = [dedup |-> run.read.dedup, carry |-> run.read.carry, week |-> run.read.week,
                         gaps |-> run.read.gaps, results |-> run.read.results]
          /\ run.read.carry \subseteq DOMAIN tasks
          /\ run.read.week \subseteq DOMAIN tasks
          /\ run.read.gaps \subseteq world.gaps
    /\ Decided => MayDecide(item.value)
    /\ item.phase = "submitting" => item.at \in DOMAIN Attempts

-----------------------------------------------------------------------------
(* Why a rung was reached *)

\* Among the first n calls of a log the engine failed, for this target or for the run.
FailedIn(cs, n, engine, target) ==
    \E j \in 1..n : /\ cs[j].engine = engine /\ Failed(cs[j])
                    /\ cs[j].item = target \/ opens_circuit(cs[j].kind)

\* The rung at this position of a plan stands in for the last model above it,
\* which has failed, or for none.
StandsIn(cs, steps, at, from, target) ==
    \/ from = None /\ \A k \in DOMAIN steps : k < at => steps[k] \notin Engines
    \/ /\ from \in Engines
       /\ \E k \in DOMAIN steps :
             /\ k < at /\ steps[k] = from
             /\ \A m \in DOMAIN steps : k < m /\ m < at => steps[m] \notin Engines
       /\ FailedIn(cs, Len(cs), from, target)

AboveIn(steps, r) ==
    {k \in DOMAIN steps : /\ steps[k] \in Engines \ {r.engine}
                          /\ r.engine = "reflex" \/ steps[k] = "executive"}

\* AuditExplains of a row r at position i of a log.
Explained(cs, steps, r, i) ==
    \/ /\ r.engine = "reflex" /\ r.fallback_from = None
       /\ steps[1] = "decisive" /\ r.kind # "no_match"
       /\ \A j \in 1..i-1 : cs[j].item = r.item => cs[j].kind # "undecided"
    \/ AboveIn(steps, r) = {} /\ r.fallback_from = None
    \/ /\ AboveIn(steps, r) # {} /\ r.fallback_from = steps[Max(AboveIn(steps, r))]
       /\ FailedIn(cs, i - 1, r.fallback_from, r.item)

AllExplained(cs, steps) == \A i \in DOMAIN cs : Explained(cs, steps, cs[i], i)

\* Every engine taken out of a run has a call on record that opened its circuit.
Skipping(cs, skip) ==
    \A e \in skip : \E j \in DOMAIN cs : cs[j].engine = e /\ opens_circuit(cs[j].kind)

AuditInv ==
    /\ Skipping(calls, st.skip)
    /\ run.phase = "items" /\ run.todo # <<>> /\ item.phase \in {"step", "waiting"} =>
          StandsIn(calls, run.steps, item.at, item.failed_from, Head(run.todo))
    /\ item.phase = "step" /\ item.at = 1 =>
          \A j \in DOMAIN calls : calls[j].item \notin Range(run.todo)
    /\ Decided => Explained(calls, run.steps, item.row, Len(calls) + 1)
    /\ AllExplained(calls, run.steps)

-----------------------------------------------------------------------------
(* What a parked task has missed *)

\* A task's row and the Directions it has missed, u: only a parked task misses
\* any, none of them is older than its evaluation or its entry into Triage, and
\* neither of those lies ahead.
Misses(row, u, dirs, now) ==
    /\ row.direction # Triage => u = {}
    /\ u \subseteq DOMAIN dirs
    /\ row.evaluated # None => row.evaluated <= now /\ \A d \in u : row.evaluated <= dirs[d]
    /\ row.entered # None => row.entered <= now /\ \A d \in u : row.entered <= dirs[d]

MissedInv ==
    /\ DOMAIN unseen = DOMAIN tasks
    /\ \A d \in DOMAIN directions : directions[d] <= clock
    /\ \A t \in DOMAIN tasks : Misses(tasks[t], unseen[t], directions, clock)
    /\ IsClassify /\ run.phase = "items" =>
          \A d \in DOMAIN directions \ run.read.candidates : run.read.started <= directions[d]

-----------------------------------------------------------------------------
(* Which proposals a run has steered clear of *)

Live == precheck(Pending({"classify", "propose"}))

\* What may be known of a proposal from who made it.
Known(p) ==
    /\ p.source = "classify" => p.kind = "assign"
    /\ p.source = "propose" => p.kind # "assign"
    /\ p.kind = "assign" => p.to \in {Triage, Filed} /\ \E t \in DOMAIN tasks : p.what = {t}
    /\ p.kind = "carry" => p.what \subseteq week_tasks("prev")

ProposalsKnown == \A i \in DOMAIN proposals : Known(proposals[i])

TargetsKnown ==
    /\ IsClassify => \A k \in DOMAIN run.todo : run.todo[k].task \in DOMAIN tasks
    /\ IsPropose /\ run.phase = "items" /\ run.todo # <<>> => run.read.carry \subseteq week_tasks("prev")

\* The tasks a propose run may carry are on no live proposal until it submits.
CarryOpen == run.todo # <<>> /\ ~(item.phase = "submitting" /\ item.at > 1)

SteersClear ==
    /\ IsClassify /\ run.phase \in {"selected", "started", "items"} =>
          \A k \in DOMAIN run.todo, i \in Live :
              proposals[i].kind = "assign" => run.todo[k].task \notin proposals[i].what
    /\ IsPropose /\ run.phase = "selected" =>
          \A i \in Live : proposals[i].kind = "carry" => proposals[i].what \subseteq run.read.dedup.carry
    /\ IsPropose /\ run.phase = "items" /\ CarryOpen =>
          \A i \in Live : proposals[i].kind = "carry" => proposals[i].what \cap run.read.carry = {}

LiveInv == ProposalsKnown /\ TargetsKnown /\ SteersClear /\ OneLiveProposal

-----------------------------------------------------------------------------
(* Sequences of call rows *)

\* The verdicts, of any log.
Ordered(cs) ==
    \A i, j \in DOMAIN cs : i < j =>
        /\ cs[i].kind \notin Aborting
        /\ cs[i].kind \in Deferring => ~IsModelRow(cs[j]) /\ cs[j].item # cs[i].item
        /\ opens_circuit(cs[i].kind) => cs[j].engine # cs[i].engine

Charged(cs) == {i \in DOMAIN cs : IsModelRow(cs[i]) /\ cs[i].is_first}

ModelCalls(cs) == Cardinality(Charged(cs))

Flying == IF InFlight THEN 1 ELSE 0

Budget == MaxModelCalls = st.calls_left + ModelCalls(calls) + Flying

\* VerdictsHeld in those words.
LEMMA VerdictsAre == VerdictsHeld <=> Ordered(calls) /\ Budget
BY DEF VerdictsHeld, Ordered, ModelCalls, Charged, Flying, Budget

\* An empty log charges nothing.
LEMMA ChargedNil == ModelCalls(<<>>) = 0 /\ Ordered(<<>>)
<1>1. Charged(<<>>) = {}
  BY DEF Charged
<1> QED BY <1>1, FS_EmptySet DEF ModelCalls, Ordered

\* What a log charges is a number, and one row more adds it at most once.
LEMMA ChargedAppend ==
    ASSUME NEW S, NEW cs \in Seq(S), NEW r \in S
    PROVE  /\ ModelCalls(cs) \in Nat
           /\ IsModelRow(r) /\ r.is_first => ModelCalls(Append(cs, r)) = ModelCalls(cs) + 1
           /\ ~(IsModelRow(r) /\ r.is_first) => ModelCalls(Append(cs, r)) = ModelCalls(cs)
<1> DEFINE n == Len(cs)
<1> DEFINE more == Append(cs, r)
<1>1. n \in Nat /\ DOMAIN cs = 1..n /\ DOMAIN more = 1..n+1 /\ more[n+1] = r
      /\ \A i \in 1..n : more[i] = cs[i]
  OBVIOUS
<1> HIDE DEF n, more
<1>2. IsFiniteSet(Charged(cs)) /\ n + 1 \notin Charged(cs)
  <2>1. IsFiniteSet(1..n)
    BY <1>1, FS_Interval
  <2>2. Charged(cs) \subseteq 1..n
    BY <1>1 DEF Charged
  <2> QED BY <1>1, <2>1, <2>2, FS_Subset
<1>3. Cardinality(Charged(cs)) \in Nat
  BY <1>2, FS_CardinalityType
<1>4. CASE IsModelRow(r) /\ r.is_first
  <2>1. Charged(more) = Charged(cs) \cup {n + 1}
    BY <1>1, <1>4 DEF Charged
  <2>2. Cardinality(Charged(cs) \cup {n + 1}) = Cardinality(Charged(cs)) + 1
    BY <1>2, FS_AddElement
  <2> QED BY <1>3, <1>4, <2>1, <2>2 DEF ModelCalls, more
<1>5. CASE ~(IsModelRow(r) /\ r.is_first)
  <2>1. Charged(more) = Charged(cs)
    BY <1>1, <1>5 DEF Charged
  <2> QED BY <1>3, <1>5, <2>1 DEF ModelCalls, more
<1> QED BY <1>4, <1>5

\* A row joins the log of an item under way without breaking a verdict.
LEMMA RowJoins ==
    ASSUME LadderInv, run.todo # <<>>, item.phase # "deferred", ~st.aborted,
           NEW r \in CallRow, r.item = Head(run.todo), r.engine \notin st.skip,
           IsModelRow(r) => ~st.models_off
    PROVE  Ordered(Append(calls, r))
<1> DEFINE n == Len(calls)
<1> DEFINE more == Append(calls, r)
<1>0. calls \in Seq(CallRow) /\ run.todo \in Seq(Targets)
  BY DEF LadderInv, LadderType
<1>1. n \in Nat /\ DOMAIN calls = 1..n /\ DOMAIN more = 1..n+1 /\ more[n+1] = r
      /\ \A i \in 1..n : more[i] = calls[i]
  BY <1>0
<1>2. Ordered(calls)
  BY VerdictsAre DEF LadderInv
<1>3. r.item \in Range(run.todo)
  BY <1>0 DEF Range
<1>4. ASSUME NEW i \in 1..n
      PROVE  /\ calls[i].kind \notin Aborting
             /\ calls[i].kind \in Deferring => ~IsModelRow(r) /\ r.item # calls[i].item
             /\ opens_circuit(calls[i].kind) => r.engine # calls[i].engine
  <2>1. PastCall(calls[i], st, run.todo, item.phase)
    BY <1>1, <1>4 DEF LadderInv, PastCalls, AllPast
  <2> QED BY <1>3, <2>1 DEF PastCall
<1> HIDE DEF n, more
<1>5. ASSUME NEW i \in 1..n+1, NEW j \in 1..n+1, i < j
      PROVE  /\ more[i].kind \notin Aborting
             /\ more[i].kind \in Deferring => ~IsModelRow(more[j]) /\ more[j].item # more[i].item
             /\ opens_circuit(more[i].kind) => more[j].engine # more[i].engine
  <2>0. i \in 1..n /\ more[i] = calls[i]
    BY <1>1, <1>5
  <2>1. CASE j = n + 1
    BY <1>1, <1>4, <2>0, <2>1
  <2>2. CASE j # n + 1
    <3>1. j \in 1..n /\ more[j] = calls[j] /\ i \in DOMAIN calls /\ j \in DOMAIN calls
      BY <1>1, <2>0, <2>2
    <3> QED BY <1>2, <1>5, <2>0, <3>1 DEF Ordered
  <2> QED BY <2>1, <2>2
<1>6. Ordered(more)
  BY <1>1, <1>5 DEF Ordered
<1> QED BY <1>6 DEF more

\* What is left of a run when its head is settled.
LEMMA TailIs ==
    ASSUME NEW S, NEW s \in Seq(S), s # <<>>, \A i, j \in DOMAIN s : i # j => s[i] # s[j]
    PROVE  /\ Tail(s) \in Seq(S)
           /\ Head(s) \in S /\ Head(s) \in Range(s) /\ Head(s) = s[1]
           /\ Range(Tail(s)) \subseteq Range(s)
           /\ Head(s) \notin Range(Tail(s))
           /\ \A k \in DOMAIN Tail(s) : Tail(s)[k] = s[k+1] /\ k + 1 \in DOMAIN s /\ k \in Nat
BY DEF Range

\* The run's state s has not gone back on anything in t.
Onward(s, t) ==
    /\ s.aborted => t.aborted
    /\ s.models_off => t.models_off
    /\ s.skip \subseteq t.skip

\* Past calls bind the run while it stays at an item that was not deferred.
LEMMA AllPastKept ==
    ASSUME NEW cs, NEW s, NEW t, NEW todo, NEW phase, NEW phase2, AllPast(cs, s, todo, phase),
           Onward(s, t), phase # "deferred" \/ phase2 = "deferred"
    PROVE  AllPast(cs, t, todo, phase2)
BY DEF AllPast, PastCall, Onward

\* They bind it when it goes on to the next item.
LEMMA AllPastTail ==
    ASSUME NEW cs, NEW s, NEW S, NEW todo \in Seq(S), todo # <<>>, NEW phase, NEW phase2,
           \A i, j \in DOMAIN todo : i # j => todo[i] # todo[j],
           AllPast(cs, s, todo, phase)
    PROVE  AllPast(cs, s, Tail(todo), phase2)
<1>1. Range(Tail(todo)) \subseteq Range(todo) /\ Head(todo) \notin Range(Tail(todo))
  BY TailIs
<1> QED BY <1>1 DEF AllPast, PastCall

\* One call more.
LEMMA AllPastAppend ==
    ASSUME NEW S, NEW cs \in Seq(S), NEW r \in S, NEW s, NEW todo, NEW phase,
           AllPast(cs, s, todo, phase), PastCall(r, s, todo, phase)
    PROVE  AllPast(Append(cs, r), s, todo, phase)
<1>1. \A i \in DOMAIN Append(cs, r) : Append(cs, r)[i] = r \/ (i \in DOMAIN cs /\ Append(cs, r)[i] = cs[i])
  OBVIOUS
<1> QED BY <1>1 DEF AllPast

-----------------------------------------------------------------------------
(* The kinds of steps a ladder takes *)

\* A step of the others.
LEMMA StayKeeps ==
    ASSUME LadderInv, UNCHANGED <<world, run, st, item, calls>>
    PROVE  LadderInv'
BY DEF LadderInv, LadderType, Standing, Distinct, PastCalls, VerdictsHeld, InFlight, Decided,
       RowReady, CallRow, Targets, IsClassify, Asked

\* The state of a run, as a set.
RunStates ==
    [calls_left : Nat, late : BOOLEAN, skip : SUBSET Engines, models_off : BOOLEAN, aborted : BOOLEAN]

\* A run that has not asked for anything yet.
LEMMA FreshKeeps ==
    ASSUME world' = world, calls' = <<>>, st' = RunState, item' = AtTop,
           run' = [phase |-> run'.phase, steps |-> run'.steps, todo |-> run'.todo, read |-> run'.read,
                   asked |-> run'.asked, items |-> run'.items, last |-> run'.last],
           run'.phase \in {"idle", "auto", "targets", "selected", "started", "items"},
           run'.todo \in Seq(Targets), Distinct',
           run'.phase = "items" /\ run'.todo # <<>> => IsPlan(run'.steps)
    PROVE  LadderInv'
<1>1. Targets' = Targets /\ CallRow' = CallRow
  BY DEF Targets, CallRow, IsClassify
<1>2. item'.phase = "step" /\ item'.at = 1 /\ item'.failed_from = None
      /\ item' = [phase |-> item'.phase, at |-> item'.at, failed_from |-> item'.failed_from,
                  deterministic |-> item'.deterministic, value |-> item'.value, row |-> item'.row]
  BY DEF AtTop
<1>3. st' \in RunStates /\ ~st'.aborted /\ st'.calls_left = MaxModelCalls
  BY LadderAssumption DEF RunState, RunStates
<1>4. LadderType'
  BY <1>1, <1>2, <1>3 DEF LadderType, RunStates
<1>5. Standing'
  BY <1>2, <1>3 DEF Standing, Decided
<1>6. PastCalls'
  BY DEF PastCalls, AllPast
<1>7. VerdictsHeld'
  <2>1. ~InFlight'
    BY <1>2 DEF InFlight
  <2>2. ModelCalls(calls') = 0 /\ Ordered(calls')
    BY ChargedNil
  <2>3. Budget'
    BY <1>3, <2>1, <2>2, LadderAssumption DEF Budget, Flying, ModelCalls, Charged, IsModelRow
  <2>4. (Ordered(calls))'
    BY <2>2 DEF Ordered, IsModelRow
  <2> QED BY <2>3, <2>4, VerdictsAre, PTL
<1> QED BY <1>4, <1>5, <1>6, <1>7 DEF LadderInv

\* The budget over a step, by what the step does to its three parts.
LEMMA BudgetKept ==
    ASSUME LadderInv, st'.calls_left \in Nat,
           \/ st'.calls_left = st.calls_left /\ ModelCalls(calls') = ModelCalls(calls) /\ Flying' = Flying
           \/ st'.calls_left = st.calls_left /\ ModelCalls(calls') = ModelCalls(calls) + 1 /\ Flying = 1 /\ Flying' = 0
           \/ st'.calls_left + 1 = st.calls_left /\ ModelCalls(calls') = ModelCalls(calls) /\ Flying = 0 /\ Flying' = 1,
           Ordered(calls')
    PROVE  VerdictsHeld'
<1>0. Budget /\ calls \in Seq(CallRow) /\ st.calls_left \in Nat
  BY VerdictsAre DEF LadderInv, LadderType
<1>1. ModelCalls(calls) \in Nat
  <2>1. CASE CallRow = {}
    <3>1. calls = <<>>
      BY <1>0, <2>1
    <3> QED BY <3>1, ChargedNil
  <2>2. CASE CallRow # {}
    BY <1>0, <2>2, ChargedAppend
  <2> QED BY <2>1, <2>2
<1>2. Flying \in {0, 1} /\ Flying' \in {0, 1}
  BY DEF Flying
<1>3. MaxModelCalls = st'.calls_left + ModelCalls(calls') + Flying'
  BY <1>0, <1>1, <1>2 DEF Budget
<1>4. ModelCalls(calls') = ModelCalls(calls)' /\ (Ordered(calls))'
  BY DEF ModelCalls, Charged, IsModelRow, Ordered
<1>5. Budget'
  BY <1>3, <1>4 DEF Budget
<1> QED BY <1>4, <1>5, VerdictsAre, PTL

\* The item goes down a rung and leaves a row behind.
LEMMA DownKeeps ==
    ASSUME LadderInv, world' = world, run' = run, run.phase = "items", run.todo # <<>>, ~st.aborted,
           NEW r \in CallRow, r.item = Head(run.todo), calls' = Append(calls, r),
           r.engine \notin st.skip, IsModelRow(r) => ~st.models_off, r.is_first,
           item.phase = "waiting" <=> IsModelRow(r), item.phase \in {"step", "waiting"},
           NEW from \in Engines \cup {None}, NEW det,
           item' = [item EXCEPT !.phase = "step", !.at = @ + 1, !.failed_from = from,
                                !.deterministic = det],
           st' \in RunStates, st'.calls_left = st.calls_left, ~st'.aborted, Onward(st, st'),
           PastCall(r, st', run.todo, "step")
    PROVE  LadderInv'
<1>1. Targets' = Targets /\ CallRow' = CallRow
  BY DEF Targets, CallRow, IsClassify
<1>2. LadderType /\ Standing /\ Distinct /\ PastCalls
  BY DEF LadderInv
<1>3. /\ item' = [phase |-> "step", at |-> item.at + 1, failed_from |-> from,
                  deterministic |-> det, value |-> item.value, row |-> item.row]
  BY <1>2 DEF LadderType
<1>4. LadderType'
  <2>1. calls \in Seq(CallRow) /\ item.at \in Nat \ {0} /\ run.todo \in Seq(Targets)
    BY <1>2 DEF LadderType
  <2>2. calls' \in Seq(CallRow)
    BY <2>1
  <2>3. item'.at \in Nat \ {0} /\ item'.phase = "step" /\ item'.failed_from = from
    BY <1>3, <2>1
  <2>4. run' = [phase |-> run'.phase, steps |-> run'.steps, todo |-> run'.todo, read |-> run'.read,
                asked |-> run'.asked, items |-> run'.items, last |-> run'.last]
    BY <1>2 DEF LadderType
  <2> QED BY <1>1, <1>3, <2>1, <2>2, <2>3, <2>4 DEF LadderType, RunStates
<1>5. Standing'
  BY <1>2, <1>3 DEF Standing, Decided
<1>6. Distinct'
  BY <1>2 DEF Distinct, IsClassify
<1>7. PastCalls'
  <2>1. AllPast(calls, st', run.todo, "step")
    BY <1>2, AllPastKept DEF PastCalls
  <2>2. AllPast(Append(calls, r), st', run.todo, "step")
    BY <1>2, <2>1, AllPastAppend DEF LadderType
  <2> QED BY <1>3, <2>2 DEF PastCalls
<1>8. VerdictsHeld'
  <2>1. Ordered(calls')
    BY RowJoins
  <2>2. IF IsModelRow(r) THEN ModelCalls(calls') = ModelCalls(calls) + 1 ELSE ModelCalls(calls') = ModelCalls(calls)
    BY <1>2, ChargedAppend DEF LadderType
  <2>3. Flying' = 0 /\ Flying = IF IsModelRow(r) THEN 1 ELSE 0
    BY <1>3 DEF Flying, InFlight
  <2>4. st'.calls_left \in Nat
    BY DEF RunStates
  <2> QED BY <2>1, <2>2, <2>3, <2>4, BudgetKept
<1> QED BY <1>4, <1>5, <1>6, <1>7, <1>8 DEF LadderInv

\* A value comes of the rung, and the row that will say so.
LEMMA ProducedKeeps ==
    ASSUME LadderInv, world' = world, run' = run, run.phase = "items", run.todo # <<>>, ~st.aborted,
           st' = st, calls' = calls, NEW r \in CallRow, NEW v,
           r.item = Head(run.todo), r.kind = "ok", r.is_first, r.proposal = None,
           r.engine \notin st.skip, IsModelRow(r) => ~st.models_off,
           item.phase = "waiting" <=> IsModelRow(r), item.phase \in {"step", "waiting"},
           item' = [item EXCEPT !.phase = "produced", !.value = v, !.row = r]
    PROVE  LadderInv'
<1>1. Targets' = Targets /\ CallRow' = CallRow
  BY DEF Targets, CallRow, IsClassify
<1>2. LadderType /\ Standing /\ Distinct /\ PastCalls
  BY DEF LadderInv
<1>3. /\ item' = [phase |-> "produced", at |-> item.at, failed_from |-> item.failed_from,
                  deterministic |-> item.deterministic, value |-> v, row |-> r]
  BY <1>2 DEF LadderType
<1>4. LadderType'
  BY <1>1, <1>2, <1>3 DEF LadderType
<1>5. Standing'
  <2>1. RowReady'
    BY <1>1, <1>3 DEF RowReady, IsModelRow
  <2> QED BY <1>2, <1>3, <2>1 DEF Standing, Decided
<1>6. Distinct'
  BY <1>2 DEF Distinct, IsClassify
<1>7. PastCalls'
  <2>1. AllPast(calls, st, run.todo, "produced")
    BY <1>2, AllPastKept DEF PastCalls, Onward
  <2> QED BY <1>3, <2>1 DEF PastCalls
<1>8. VerdictsHeld'
  <2>1. Ordered(calls')
    BY VerdictsAre DEF LadderInv
  <2>2. Flying' = Flying
    BY <1>3 DEF Flying, InFlight, IsModelRow
  <2>3. st'.calls_left \in Nat
    BY <1>2 DEF LadderType
  <2> QED BY <2>1, <2>2, <2>3, BudgetKept
<1> QED BY <1>4, <1>5, <1>6, <1>7, <1>8 DEF LadderInv

\* An item ends without a decision, with the row of the call that ended it or none.
LEMMA EndedKeeps ==
    ASSUME LadderInv, world' = world, run' = run, run.phase = "items", run.todo # <<>>,
           NEW outcome \in {"nothing", "deferred", "aborted"}, item' = [item EXCEPT !.phase = outcome],
           st' \in RunStates, st'.calls_left = st.calls_left, Onward(st, st'),
           st'.aborted => outcome = "aborted",
           \/ item.phase = "step" /\ calls' = calls
           \/ /\ item.phase = "waiting"
              /\ \E r \in CallRow : /\ calls' = Append(calls, r) /\ r.item = Head(run.todo)
                                    /\ r.engine = Asked /\ r.is_first
                                    /\ PastCall(r, st', run.todo, outcome)
    PROVE  LadderInv'
<1>1. Targets' = Targets /\ CallRow' = CallRow
  BY DEF Targets, CallRow, IsClassify
<1>2. LadderType /\ Standing /\ Distinct /\ PastCalls
  BY DEF LadderInv
<1>3. /\ item' = [phase |-> outcome, at |-> item.at, failed_from |-> item.failed_from,
                  deterministic |-> item.deterministic, value |-> item.value, row |-> item.row]
  BY <1>2 DEF LadderType
<1>4. LadderType'
  <2>1. calls \in Seq(CallRow) /\ run.todo \in Seq(Targets)
    BY <1>2 DEF LadderType
  <2>2. calls' \in Seq(CallRow)
    BY <2>1
  <2> QED BY <1>1, <1>2, <1>3, <2>1, <2>2 DEF LadderType, RunStates
<1>5. Standing'
  BY <1>2, <1>3 DEF Standing, Decided
<1>6. Distinct'
  BY <1>2 DEF Distinct, IsClassify
<1>7. AllPast(calls, st', run.todo, outcome)
  BY <1>2, AllPastKept DEF PastCalls
<1>8. CASE item.phase = "step" /\ calls' = calls
  <2>1. PastCalls'
    BY <1>3, <1>7, <1>8 DEF PastCalls
  <2>2. VerdictsHeld'
    <3>1. Ordered(calls')
      BY <1>8, VerdictsAre DEF LadderInv
    <3>2. Flying' = Flying
      BY <1>3, <1>8 DEF Flying, InFlight
    <3>3. st'.calls_left \in Nat
      BY DEF RunStates
    <3> QED BY <1>8, <3>1, <3>2, <3>3, BudgetKept
  <2> QED BY <1>4, <1>5, <1>6, <2>1, <2>2 DEF LadderInv
<1>9. CASE item.phase = "waiting"
  <2>1. PICK r \in CallRow : /\ calls' = Append(calls, r) /\ r.item = Head(run.todo)
                             /\ r.engine = Asked /\ r.is_first
                             /\ PastCall(r, st', run.todo, outcome)
    BY <1>9
  <2>2. PastCalls'
    <3>1. AllPast(Append(calls, r), st', run.todo, outcome)
      BY <1>2, <1>7, <2>1, AllPastAppend DEF LadderType
    <3> QED BY <1>3, <2>1, <3>1 DEF PastCalls
  <2>3. IsModelRow(r) /\ r.engine \notin st.skip /\ ~st.models_off /\ ~st.aborted
    BY <1>2, <1>9, <2>1 DEF Standing, IsModelRow
  <2>4. VerdictsHeld'
    <3>1. Ordered(calls')
      BY <1>9, <2>1, <2>3, RowJoins
    <3>2. ModelCalls(calls') = ModelCalls(calls) + 1
      BY <1>2, <2>1, <2>3, ChargedAppend DEF LadderType
    <3>3. Flying' = 0 /\ Flying = 1
      BY <1>3, <1>9 DEF Flying, InFlight
    <3>4. st'.calls_left \in Nat
      BY DEF RunStates
    <3> QED BY <3>1, <3>2, <3>3, <3>4, BudgetKept
  <2> QED BY <1>4, <1>5, <1>6, <2>2, <2>4 DEF LadderInv
<1> QED BY <1>8, <1>9

\* A row that a decision writes: its submission is answered, or there is none.
Answered(r, is_first) ==
    /\ r \in CallRow
    /\ r.item = Head(run.todo) /\ r.engine = item.row.engine
    /\ r.kind \in {"ok", "rejected_by_precheck", "submit_store_error"}
    /\ r.is_first = is_first

\* Such a row breaks no verdict, is charged once, and binds nothing.
LEMMA AnsweredJoins ==
    ASSUME LadderInv, Decided, NEW r, NEW is_first \in BOOLEAN, Answered(r, is_first)
    PROVE  /\ Ordered(Append(calls, r))
           /\ Append(calls, r) \in Seq(CallRow)
           /\ IsModelRow(item.row) /\ is_first => ModelCalls(Append(calls, r)) = ModelCalls(calls) + 1
           /\ ~(IsModelRow(item.row) /\ is_first) => ModelCalls(Append(calls, r)) = ModelCalls(calls)
           /\ \A s, phase : PastCall(r, s, run.todo, phase)
<1>1. LadderType /\ Standing
  BY DEF LadderInv
<1>2. RowReady /\ ~st.aborted /\ run.todo # <<>>
  BY <1>1 DEF Standing, Decided
<1>3. IsModelRow(r) <=> IsModelRow(item.row)
  BY DEF Answered, IsModelRow
<1>4. Ordered(Append(calls, r))
  BY <1>2, <1>3, RowJoins DEF RowReady, Answered, Decided
<1>5. calls \in Seq(CallRow)
  BY <1>1 DEF LadderType
<1>6. \A s, phase : PastCall(r, s, run.todo, phase)
  BY DEF PastCall, Answered, Aborting, Deferring, opens_circuit
<1>7. /\ IsModelRow(r) /\ r.is_first => ModelCalls(Append(calls, r)) = ModelCalls(calls) + 1
      /\ ~(IsModelRow(r) /\ r.is_first) => ModelCalls(Append(calls, r)) = ModelCalls(calls)
  BY <1>5, ChargedAppend DEF Answered
<1>8. r \in CallRow /\ r.is_first = is_first
  BY DEF Answered
<1> QED BY <1>3, <1>4, <1>5, <1>6, <1>7, <1>8

\* The item is settled and the run goes on to the next one.
LEMMA NextKeeps ==
    ASSUME LadderInv, world' = world, run.phase = "items", run.todo # <<>>, NEW told,
           run' = [run EXCEPT !.todo = Tail(@), !.items = @ \o told], item' = AtTop, st' = st,
           \/ calls' = calls /\ item.phase \in {"step", "nothing", "deferred", "aborted"}
           \/ /\ Decided
              /\ \E r : /\ calls' = Append(calls, r)
                        /\ Answered(r, item.phase = "submitting" => item.at = 1)
    PROVE  LadderInv'
<1>1. Targets' = Targets /\ CallRow' = CallRow
  BY DEF Targets, CallRow, IsClassify
<1>2. LadderType /\ Standing /\ Distinct /\ PastCalls
  BY DEF LadderInv
<1>3. /\ item'.phase = "step" /\ item'.at = 1 /\ item'.failed_from = None
      /\ item' = [phase |-> item'.phase, at |-> item'.at, failed_from |-> item'.failed_from,
                  deterministic |-> item'.deterministic, value |-> item'.value, row |-> item'.row]
  BY DEF AtTop
<1>4. run' = [phase |-> run.phase, steps |-> run.steps, todo |-> Tail(run.todo), read |-> run.read,
              asked |-> run.asked, items |-> run.items \o told, last |-> run.last]
  BY <1>2 DEF LadderType
<1>5. /\ run.todo \in Seq(Targets) /\ \A i, j \in DOMAIN run.todo : i # j => run.todo[i] # run.todo[j]
  BY <1>2 DEF LadderType, Distinct
<1>6. /\ Tail(run.todo) \in Seq(Targets)
      /\ \A k \in DOMAIN Tail(run.todo) :
            Tail(run.todo)[k] = run.todo[k+1] /\ k + 1 \in DOMAIN run.todo /\ k \in Nat
  BY <1>5, TailIs
<1>7. calls' \in Seq(CallRow) /\ Ordered(calls') /\ AllPast(calls', st, run.todo, item.phase)
      /\ VerdictsHeld'
  <2>1. CASE calls' = calls /\ item.phase \in {"step", "nothing", "deferred", "aborted"}
    <3>1. calls' \in Seq(CallRow) /\ Ordered(calls') /\ AllPast(calls', st, run.todo, item.phase)
      BY <1>2, <2>1, VerdictsAre DEF LadderType, PastCalls, LadderInv
    <3>2. Flying = 0 /\ Flying' = 0 /\ st'.calls_left \in Nat
      BY <1>2, <1>3, <2>1 DEF Flying, InFlight, LadderType
    <3> QED BY <2>1, <3>1, <3>2, BudgetKept
  <2>2. CASE Decided /\ \E r : /\ calls' = Append(calls, r)
                               /\ Answered(r, item.phase = "submitting" => item.at = 1)
    <3> DEFINE first == item.phase = "submitting" => item.at = 1
    <3>1. PICK r : calls' = Append(calls, r) /\ Answered(r, first)
      BY <2>2
    <3>2. first \in BOOLEAN
      OBVIOUS
    <3>3. Flying' = 0 /\ Flying = IF IsModelRow(item.row) /\ first THEN 1 ELSE 0
      BY <1>3, <2>2 DEF Flying, InFlight, Decided
    <3> HIDE DEF first
    <3>4. /\ Ordered(Append(calls, r))
          /\ Append(calls, r) \in Seq(CallRow)
          /\ IsModelRow(item.row) /\ first => ModelCalls(Append(calls, r)) = ModelCalls(calls) + 1
          /\ ~(IsModelRow(item.row) /\ first) => ModelCalls(Append(calls, r)) = ModelCalls(calls)
          /\ \A s, phase : PastCall(r, s, run.todo, phase)
      BY <2>2, <3>1, <3>2, AnsweredJoins
    <3>5. AllPast(calls', st, run.todo, item.phase)
      BY <1>2, <3>1, <3>4, AllPastAppend DEF LadderType, PastCalls, Answered
    <3>6. st'.calls_left \in Nat
      BY <1>2 DEF LadderType
    <3>7. VerdictsHeld'
      BY <3>1, <3>3, <3>4, <3>6, BudgetKept
    <3> QED BY <3>1, <3>4, <3>5, <3>7
  <2> QED BY <2>1, <2>2
<1>8. LadderType'
  <2>1. /\ run' = [phase |-> run'.phase, steps |-> run'.steps, todo |-> run'.todo, read |-> run'.read,
                   asked |-> run'.asked, items |-> run'.items, last |-> run'.last]
        /\ run'.phase = "items" /\ run'.todo \in Seq(Targets)
    BY <1>4, <1>6
  <2>2. st' \in RunStates
    BY <1>2 DEF LadderType, RunStates
  <2>3. item'.at \in Nat \ {0} /\ item'.failed_from \in Engines \cup {None}
    BY <1>3
  <2>4. calls' \in Seq(CallRow)
    BY <1>7
  <2> QED BY <1>1, <1>3, <2>1, <2>2, <2>3, <2>4 DEF LadderType, RunStates
<1>9. Standing'
  BY <1>2, <1>3, <1>4 DEF Standing, Decided
<1>10. Distinct'
  <2>1. run'.todo = Tail(run.todo) /\ (IsClassify' <=> IsClassify)
    BY <1>4 DEF IsClassify
  <2>2. ASSUME NEW i \in DOMAIN Tail(run.todo), NEW j \in DOMAIN Tail(run.todo), i # j
        PROVE  /\ Tail(run.todo)[i] # Tail(run.todo)[j]
               /\ IsClassify => Tail(run.todo)[i].task # Tail(run.todo)[j].task
    <3>1. i + 1 # j + 1 /\ i + 1 \in DOMAIN run.todo /\ j + 1 \in DOMAIN run.todo
      BY <1>6, <2>2
    <3> QED BY <1>2, <1>6, <3>1 DEF Distinct
  <2> QED BY <2>1, <2>2 DEF Distinct
<1>11. PastCalls'
  <2>1. AllPast(calls', st, Tail(run.todo), "step")
    BY <1>5, <1>7, AllPastTail
  <2> QED BY <1>3, <1>4, <2>1 DEF PastCalls
<1> QED BY <1>7, <1>8, <1>9, <1>10, <1>11 DEF LadderInv

\* One attempt of several is answered, or a decision calls for attempts at all.
LEMMA SubmittingKeeps ==
    ASSUME LadderInv, world' = world, run.phase = "items", Decided, st' = st, NEW read,
           run' = [run EXCEPT !.read = read] \/ run' = run,
           \/ /\ item.phase = "produced" /\ item' = [item EXCEPT !.phase = "submitting", !.at = 1]
              /\ calls' = calls
           \/ /\ item.phase = "submitting" /\ item' = [item EXCEPT !.at = @ + 1]
              /\ \E r : calls' = Append(calls, r) /\ Answered(r, item.at = 1)
    PROVE  LadderInv'
<1>1. Targets' = Targets /\ CallRow' = CallRow
  BY DEF Targets, CallRow, IsClassify
<1>2. LadderType /\ Standing /\ Distinct /\ PastCalls
  BY DEF LadderInv
<1>3. /\ item'.phase = "submitting" /\ item'.at \in Nat \ {0} /\ item'.failed_from = item.failed_from
      /\ item'.row = item.row
      /\ item' = [phase |-> item'.phase, at |-> item'.at, failed_from |-> item'.failed_from,
                  deterministic |-> item'.deterministic, value |-> item'.value, row |-> item'.row]
      /\ item.phase = "produced" => item'.at = 1
      /\ item.phase = "submitting" => item'.at = item.at + 1
  <2>1. item = [phase |-> item.phase, at |-> item.at, failed_from |-> item.failed_from,
                deterministic |-> item.deterministic, value |-> item.value, row |-> item.row]
        /\ item.at \in Nat \ {0}
    BY <1>2 DEF LadderType
  <2>2. CASE item.phase = "produced" /\ item' = [item EXCEPT !.phase = "submitting", !.at = 1]
    <3>1. item' = [phase |-> "submitting", at |-> 1, failed_from |-> item.failed_from,
                   deterministic |-> item.deterministic, value |-> item.value, row |-> item.row]
      BY <2>1, <2>2
    <3>2. item'.phase = "submitting" /\ item'.at = 1 /\ item'.failed_from = item.failed_from
          /\ item'.row = item.row
      BY ONLY <3>1
    <3>3. item' = [phase |-> item'.phase, at |-> item'.at, failed_from |-> item'.failed_from,
                   deterministic |-> item'.deterministic, value |-> item'.value, row |-> item'.row]
      BY ONLY <3>1
    <3>4. item.phase # "submitting"
      BY <2>2
    <3> QED BY ONLY <2>2, <3>2, <3>3, <3>4
  <2>3. CASE item.phase = "submitting" /\ item' = [item EXCEPT !.at = @ + 1]
    <3>1. item' = [phase |-> "submitting", at |-> item.at + 1, failed_from |-> item.failed_from,
                   deterministic |-> item.deterministic, value |-> item.value, row |-> item.row]
      BY <2>1, <2>3
    <3> QED BY <2>1, <2>3, <3>1
  <2> QED BY <2>2, <2>3
<1>4. /\ run' = [phase |-> run'.phase, steps |-> run'.steps, todo |-> run'.todo, read |-> run'.read,
                 asked |-> run'.asked, items |-> run'.items, last |-> run'.last]
      /\ run'.phase = run.phase /\ run'.todo = run.todo /\ run'.steps = run.steps
  BY <1>2 DEF LadderType
<1>5. calls' \in Seq(CallRow) /\ AllPast(calls', st, run.todo, item.phase) /\ VerdictsHeld'
  <2>0. st'.calls_left \in Nat
    BY <1>2 DEF LadderType
  <2>1. CASE item.phase = "produced" /\ calls' = calls
    <3>1. Flying' = Flying
      BY <1>3, <2>1 DEF Flying, InFlight, IsModelRow
    <3>2. calls' \in Seq(CallRow) /\ Ordered(calls') /\ AllPast(calls', st, run.todo, item.phase)
      BY <1>2, <2>1, VerdictsAre DEF LadderType, PastCalls, LadderInv
    <3> QED BY <2>0, <2>1, <3>1, <3>2, BudgetKept
  <2>2. CASE item.phase = "submitting" /\ \E r : calls' = Append(calls, r) /\ Answered(r, item.at = 1)
    <3> DEFINE first == item.at = 1
    <3>1. PICK r : calls' = Append(calls, r) /\ Answered(r, first)
      BY <2>2
    <3>2. first \in BOOLEAN
      OBVIOUS
    <3>3. Flying' = 0 /\ Flying = IF IsModelRow(item.row) /\ first THEN 1 ELSE 0
      <4>1. item'.at # 1
        BY <1>2, <1>3, <2>2 DEF LadderType
      <4> QED BY <1>3, <2>2, <4>1 DEF Flying, InFlight
    <3> HIDE DEF first
    <3>4. /\ Ordered(Append(calls, r))
          /\ Append(calls, r) \in Seq(CallRow)
          /\ IsModelRow(item.row) /\ first => ModelCalls(Append(calls, r)) = ModelCalls(calls) + 1
          /\ ~(IsModelRow(item.row) /\ first) => ModelCalls(Append(calls, r)) = ModelCalls(calls)
          /\ \A s, phase : PastCall(r, s, run.todo, phase)
      BY <3>1, <3>2, AnsweredJoins
    <3>5. AllPast(calls', st, run.todo, item.phase)
      BY <1>2, <3>1, <3>4, AllPastAppend DEF LadderType, PastCalls, Answered
    <3>7. VerdictsHeld'
      BY <2>0, <3>1, <3>3, <3>4, BudgetKept
    <3> QED BY <3>1, <3>4, <3>5, <3>7
  <2> QED BY <2>1, <2>2
<1>8. LadderType'
  BY <1>1, <1>2, <1>3, <1>4, <1>5 DEF LadderType
<1>9. Standing'
  <2>1. RowReady'
    BY <1>1, <1>2, <1>3, <1>4 DEF Standing, RowReady, IsModelRow
  <2> QED BY <1>2, <1>3, <1>4, <2>1 DEF Standing, Decided
<1>10. Distinct'
  BY <1>2, <1>4 DEF Distinct, IsClassify
<1>11. PastCalls'
  <2>1. AllPast(calls', st, run.todo, "submitting")
    BY <1>5, AllPastKept DEF Onward, Decided
  <2> QED BY <1>3, <1>4, <2>1 DEF PastCalls
<1> QED BY <1>5, <1>8, <1>9, <1>10, <1>11 DEF LadderInv

\* A model is asked.
LEMMA CompleteKeeps ==
    ASSUME LadderInv, world' = world, complete
    PROVE  LadderInv'
<1>1. Targets' = Targets /\ CallRow' = CallRow
  BY DEF Targets, CallRow, IsClassify
<1>2. LadderType /\ Standing /\ Distinct /\ PastCalls
  BY DEF LadderInv
<1>3. /\ run' = run /\ calls' = calls /\ item.phase = "step" /\ ~st.aborted
      /\ run.phase = "items" /\ run.todo # <<>>
      /\ item.at <= Len(run.steps) /\ run.steps[item.at] \in Engines \ st.skip
      /\ ~st.models_off /\ st.calls_left # 0
  BY DEF complete, Rung, Climbing, Spent
<1>4. /\ item' = [phase |-> "waiting", at |-> item.at, failed_from |-> item.failed_from,
                  deterministic |-> item.deterministic, value |-> item.value, row |-> item.row]
  BY <1>2 DEF complete, LadderType
<1>5. /\ st' \in RunStates /\ st'.calls_left + 1 = st.calls_left /\ st'.skip = st.skip
      /\ st'.models_off = st.models_off /\ st'.aborted = st.aborted
  BY <1>2, <1>3 DEF complete, LadderType, RunStates
<1>6. LadderType'
  BY <1>1, <1>2, <1>3, <1>4, <1>5 DEF LadderType, RunStates
<1>7. Standing'
  <2>1. item.at \in DOMAIN run.steps
    <3>1. run.steps \in Seq(Rungs) /\ item.at \in Nat \ {0}
      BY <1>2, <1>3 DEF Standing, LadderType, IsPlan, PlanBelow
    <3> QED BY <1>3, <3>1
  <2> QED BY <1>2, <1>3, <1>4, <1>5, <2>1 DEF Standing, Decided, Asked
<1>8. Distinct'
  BY <1>2, <1>3 DEF Distinct, IsClassify
<1>9. PastCalls'
  <2>1. AllPast(calls, st', run.todo, "waiting")
    BY <1>2, <1>3, <1>5, AllPastKept DEF PastCalls, Onward
  <2> QED BY <1>3, <1>4, <2>1 DEF PastCalls
<1>10. VerdictsHeld'
  <2>1. Ordered(calls')
    BY <1>3, VerdictsAre DEF LadderInv
  <2>2. Flying = 0 /\ Flying' = 1 /\ st'.calls_left \in Nat
    BY <1>3, <1>4, <1>5 DEF Flying, InFlight, RunStates
  <2> QED BY <1>3, <1>5, <2>1, <2>2, BudgetKept
<1> QED BY <1>6, <1>7, <1>8, <1>9, <1>10 DEF LadderInv

\* A rung is passed over.
LEMMA CircuitKeeps ==
    ASSUME LadderInv, world' = world, circuit_open
    PROVE  LadderInv'
<1>1. Targets' = Targets /\ CallRow' = CallRow
  BY DEF Targets, CallRow, IsClassify
<1>2. LadderType /\ Standing /\ Distinct /\ PastCalls
  BY DEF LadderInv
<1>3. /\ run' = run /\ calls' = calls /\ st' = st /\ item.phase = "step" /\ ~st.aborted
      /\ run.phase = "items" /\ run.todo # <<>>
      /\ item.at <= Len(run.steps) /\ run.steps[item.at] \in Engines
  BY DEF circuit_open, Rung, Climbing
<1>4. /\ item' = [phase |-> "step", at |-> item.at + 1, failed_from |-> run.steps[item.at],
                  deterministic |-> item.deterministic, value |-> item.value, row |-> item.row]
  BY <1>2, <1>3 DEF circuit_open, LadderType
<1>6. LadderType'
  <2>1. item'.at \in Nat \ {0} /\ item'.failed_from \in Engines
    BY <1>2, <1>3, <1>4 DEF LadderType
  <2> QED BY <1>1, <1>2, <1>3, <1>4, <2>1 DEF LadderType
<1>7. Standing'
  BY <1>2, <1>3, <1>4 DEF Standing, Decided
<1>8. Distinct'
  BY <1>2, <1>3 DEF Distinct, IsClassify
<1>9. PastCalls'
  BY <1>2, <1>3, <1>4 DEF PastCalls
<1>10. VerdictsHeld'
  <2>1. Ordered(calls')
    BY <1>3, VerdictsAre DEF LadderInv
  <2>2. Flying = 0 /\ Flying' = 0 /\ st'.calls_left \in Nat
    BY <1>2, <1>3, <1>4 DEF Flying, InFlight, LadderType
  <2> QED BY <1>3, <2>1, <2>2, BudgetKept
<1> QED BY <1>6, <1>7, <1>8, <1>9, <1>10 DEF LadderInv

\* The run's time is up.
LEMMA DeadlineKeeps ==
    ASSUME LadderInv, world' = world, deadline
    PROVE  LadderInv'
<1>1. Targets' = Targets /\ CallRow' = CallRow
  BY DEF Targets, CallRow, IsClassify
<1>2. LadderType /\ Standing /\ Distinct /\ PastCalls
  BY DEF LadderInv
<1>3. run' = run /\ calls' = calls /\ item' = item /\ run.phase = "items"
  BY DEF deadline
<1>5. /\ st' \in RunStates /\ st'.calls_left = st.calls_left /\ st'.skip = st.skip
      /\ st'.models_off = st.models_off /\ st'.aborted = st.aborted
  BY <1>2 DEF deadline, LadderType, RunStates
<1>6. LadderType'
  BY <1>1, <1>2, <1>3, <1>5 DEF LadderType, RunStates
<1>7. Standing'
  <2>1. Decided => RowReady'
    BY <1>1, <1>2, <1>3, <1>5 DEF Standing, RowReady, IsModelRow
  <2> QED BY <1>2, <1>3, <1>5, <2>1 DEF Standing, Decided, Asked
<1>8. Distinct'
  BY <1>2, <1>3 DEF Distinct, IsClassify
<1>9. PastCalls'
  <2>1. AllPast(calls, st', run.todo, item.phase)
    <3>1. Onward(st, st')
      BY <1>5 DEF Onward
    <3>2. item.phase # "deferred" \/ item.phase = "deferred"
      OBVIOUS
    <3> QED BY <1>2, <3>1, <3>2, AllPastKept DEF PastCalls
  <2> QED BY <1>3, <2>1 DEF PastCalls
<1>10. VerdictsHeld'
  <2>1. Ordered(calls')
    BY <1>3, VerdictsAre DEF LadderInv
  <2>2. Flying' = Flying /\ st'.calls_left \in Nat
    BY <1>3, <1>5 DEF Flying, InFlight, IsModelRow, RunStates
  <2> QED BY <1>3, <1>5, <2>1, <2>2, BudgetKept
<1> QED BY <1>6, <1>7, <1>8, <1>9, <1>10 DEF LadderInv

-----------------------------------------------------------------------------
(* What a run sets out with *)

Kept == INSTANCE FoldLemmas WITH Step <- Keep

\* Only keeps each element of s that is in T once, and nothing else.
LEMMA OnlyIs ==
    ASSUME NEW S, NEW s \in Seq(S), NEW T, \A i, j \in DOMAIN s : i # j => s[i] # s[j]
    PROVE  /\ Only(s, T) \in Seq(S)
           /\ Range(Only(s, T)) = Range(s) \cap T
           /\ \A i, j \in DOMAIN Only(s, T) : i # j => Only(s, T)[i] # Only(s, T)[j]
<1> DEFINE F(k) == Kept!Folded(SubSeq(s, 1, k), <<>>, T)
<1> DEFINE Good(k, f) ==
             /\ f \in Seq(S)
             /\ \A x : (\E i \in DOMAIN f : f[i] = x) <=> (\E i \in 1..k : s[i] = x) /\ x \in T
             /\ \A i, j \in DOMAIN f : i # j => f[i] # f[j]
<1> DEFINE U == {k \in Nat : k <= Len(s) => Good(k, F(k))}
<1>1. 0 \in U
  <2>1. SubSeq(s, 1, 0) = <<>>
    OBVIOUS
  <2>2. F(0) = <<>>
    BY <2>1, Kept!FoldNil
  <2>3. DOMAIN <<>> = {} /\ 1..0 = {} /\ <<>> \in Seq(S)
    OBVIOUS
  <2> HIDE DEF F
  <2>4. Good(0, <<>>)
    BY <2>3
  <2> QED BY <2>2, <2>4
<1>2. ASSUME NEW k \in Nat, k \in U PROVE k + 1 \in U
  <2> SUFFICES ASSUME k + 1 <= Len(s) PROVE Good(k + 1, F(k + 1))
    OBVIOUS
  <2>1. F(k + 1) = Keep(F(k), s[k + 1], T)
    BY Kept!FoldPrefix
  <2> HIDE DEF F
  <2>2. Good(k, F(k)) /\ s[k + 1] \in S /\ k + 1 \in DOMAIN s
    BY <1>2
  <2>3. \A i \in 1..k : i \in DOMAIN s /\ s[i] # s[k + 1]
    BY <2>2
  <2> DEFINE f == F(k)
  <2> DEFINE e == s[k + 1]
  <2>4. \A x : (\E i \in 1..k+1 : s[i] = x) <=> (\E i \in 1..k : s[i] = x) \/ x = e
    <3>1. \A i : i \in 1..k+1 <=> i \in 1..k \/ i = k + 1
      OBVIOUS
    <3> QED BY <3>1
  <2>5. Good(k, f) /\ e \in S /\ \A i \in DOMAIN f : f[i] # e
    BY <2>2, <2>3
  <2>6. CASE e \notin T
    <3>1. F(k + 1) = f
      BY <2>1, <2>6 DEF Keep
    <3> QED BY <2>4, <2>5, <2>6, <3>1
  <2>7. CASE e \in T
    <3>1. F(k + 1) = Append(f, e)
      BY <2>1, <2>7 DEF Keep
    <3> HIDE DEF f, e
    <3>2. f \in Seq(S) /\ e \in S
      BY <2>5
    <3> DEFINE g == Append(f, e)
    <3>3. /\ g \in Seq(S) /\ DOMAIN g = DOMAIN f \cup {Len(f) + 1} /\ g[Len(f) + 1] = e
          /\ Len(f) + 1 \notin DOMAIN f /\ \A i \in DOMAIN f : g[i] = f[i]
      BY <3>2
    <3> HIDE DEF g
    <3>4. \A x : (\E i \in DOMAIN g : g[i] = x) <=> (\E i \in DOMAIN f : f[i] = x) \/ x = e
      BY <3>3
    <3>5. \A i, j \in DOMAIN g : i # j => g[i] # g[j]
      BY <2>5, <3>3
    <3>6. \A x : (\E i \in DOMAIN g : g[i] = x) <=> (\E i \in 1..k+1 : s[i] = x) /\ x \in T
      BY <2>4, <2>5, <2>7, <3>4
    <3> QED BY <3>1, <3>3, <3>5, <3>6 DEF g
  <2> QED BY <2>6, <2>7
<1>3. Len(s) \in U
  <2> HIDE DEF U
  <2> QED BY <1>1, <1>2, Kept!NatSetInduction
<1>4. SubSeq(s, 1, Len(s)) = s
  OBVIOUS
<1>5. F(Len(s)) = Only(s, T)
  BY <1>4 DEF Only, Kept!Folded, Kept!FoldLeft, Kept!MapThenFoldSet, Kept!Max, FoldLeft, MapThenFoldSet, Max
<1> HIDE DEF F
<1>6. Good(Len(s), Only(s, T))
  BY <1>3, <1>5
<1>7. Range(Only(s, T)) = Range(s) \cap T
  <2>1. DOMAIN s = 1..Len(s)
    OBVIOUS
  <2> QED BY <1>6, <2>1 DEF Range
<1> QED BY <1>6, <1>7

\* The smaller of two numbers.
LEMMA MinIs ==
    ASSUME NEW a \in Nat, NEW b \in Nat
    PROVE  Min({a, b}) \in {a, b} /\ Min({a, b}) <= a /\ Min({a, b}) <= b
<1>1. \E x \in {a, b} : \A y \in {a, b} : x =< y
  <2>1. CASE a <= b
    BY <2>1
  <2>2. CASE b <= a
    BY <2>2
  <2> QED BY <2>1, <2>2
<1>2. Min({a, b}) \in {a, b} /\ \A y \in {a, b} : Min({a, b}) =< y
  BY <1>1 DEF Min
<1> QED BY <1>2

\* A rung, or none, is put under a ladder.
LEMMA PlanGrows ==
    ASSUME NEW n \in {0, 1, 2, 3}, NEW s, PlanBelow(s, n), NEW t,
           t = <<>> \/ \E x \in Rungs : Rank[x] = n /\ t = <<x>>
    PROVE  PlanBelow(s \o t, n + 1)
<1>0. \A x \in Rungs : Rank[x] \in Nat
  BY DEF Rungs, Rank
<1>1. CASE t = <<>>
  <2>1. s \o t = s
    BY <1>1 DEF PlanBelow
  <2>2. \A k \in DOMAIN s : s[k] \in Rungs
    BY DEF PlanBelow
  <2> QED BY <1>0, <2>1, <2>2 DEF PlanBelow
<1>2. CASE t # <<>>
  <2>1. PICK x \in Rungs : Rank[x] = n /\ t = <<x>>
    BY <1>2
  <2> DEFINE u == s \o t
  <2>2. s \in Seq(Rungs)
    BY DEF PlanBelow
  <2>3. u = Append(s, x)
    BY <2>1, <2>2
  <2>4. u \in Seq(Rungs) /\ DOMAIN u = 1..(Len(s) + 1) /\ u[Len(s) + 1] = x
        /\ \A k \in 1..Len(s) : u[k] = s[k]
    BY <2>2, <2>3
  <2>5. Len(s) \in Nat /\ DOMAIN s = 1..Len(s) /\ \A k \in DOMAIN s : s[k] \in Rungs
    BY <2>2
  <2> HIDE DEF u
  <2>6. ASSUME NEW k \in DOMAIN u PROVE (k \in DOMAIN s /\ u[k] = s[k]) \/ (k = Len(s) + 1 /\ u[k] = x)
    BY <2>4, <2>5
  <2>7. \A k \in DOMAIN s : Rank[s[k]] \in Nat /\ Rank[s[k]] < n
    BY <1>0, <2>5 DEF PlanBelow
  <2>8. \A k \in DOMAIN u : Rank[u[k]] < n + 1
    BY <2>1, <2>6, <2>7
  <2>9. ASSUME NEW j \in DOMAIN u, NEW k \in DOMAIN u, j < k PROVE Rank[u[j]] < Rank[u[k]]
    <3>1. j \in DOMAIN s /\ u[j] = s[j]
      BY <2>4, <2>5, <2>9
    <3>2. CASE k = Len(s) + 1
      BY <2>1, <2>4, <2>7, <3>1, <3>2
    <3>3. CASE k # Len(s) + 1
      <4>1. k \in DOMAIN s /\ u[k] = s[k]
        BY <2>6, <3>3
      <4> QED BY <2>9, <3>1, <4>1 DEF PlanBelow
    <3> QED BY <3>2, <3>3
  <2> QED BY <2>4, <2>8, <2>9 DEF PlanBelow, u
<1> QED BY <1>1, <1>2

\* The ladder of a run has its rungs in order.
LEMMA PlanIs ==
    ASSUME NEW cap, NEW settings
    PROVE  IsPlan(plan(cap, settings))
<1> DEFINE A == IF cap = "classify" THEN <<"decisive">> ELSE <<>>
<1> DEFINE B == IF world.model /\ world.remote /\ settings THEN <<"executive">> ELSE <<>>
<1> DEFINE C == IF world.model THEN <<"local">> ELSE <<>>
<1> DEFINE D == <<"fallback">>
<1>0. PlanBelow(<<>>, 0)
  BY DEF PlanBelow
<1>1. /\ A = <<>> \/ \E x \in Rungs : Rank[x] = 0 /\ A = <<x>>
      /\ B = <<>> \/ \E x \in Rungs : Rank[x] = 1 /\ B = <<x>>
      /\ C = <<>> \/ \E x \in Rungs : Rank[x] = 2 /\ C = <<x>>
      /\ D = <<>> \/ \E x \in Rungs : Rank[x] = 3 /\ D = <<x>>
  <2>1. /\ "decisive" \in Rungs /\ Rank["decisive"] = 0 /\ "executive" \in Rungs /\ Rank["executive"] = 1
        /\ "local" \in Rungs /\ Rank["local"] = 2 /\ "fallback" \in Rungs /\ Rank["fallback"] = 3
    BY DEF Rungs, Rank
  <2> QED BY <2>1
<1>2. A = <<>> \o A
  OBVIOUS
<1>3. plan(cap, settings) = A \o B \o C \o D
  BY DEF plan
<1> HIDE DEF A, B, C, D
<1>4. PlanBelow(A, 1)
  <2>1. PlanBelow(<<>> \o A, 0 + 1)
    BY <1>0, <1>1, PlanGrows
  <2>2. 0 + 1 = 1
    OBVIOUS
  <2> QED BY <1>2, <2>1, <2>2
<1>5. PlanBelow(A \o B, 2)
  BY <1>1, <1>4, PlanGrows
<1>6. PlanBelow(A \o B \o C, 3)
  BY <1>1, <1>5, PlanGrows
<1>7. PlanBelow(A \o B \o C \o D, 4)
  BY <1>1, <1>6, PlanGrows
<1> QED BY <1>3, <1>7 DEF IsPlan

-----------------------------------------------------------------------------
(* The actions of the ladder *)

\* The row an attempt leaves.
LEMMA RowIs ==
    ASSUME LadderInv, run.todo # <<>>, NEW engine \in Engines \cup {"reflex"},
           NEW from \in Engines \cup {None}, NEW tier \in {None, "local", "remote"}, NEW kind \in CallKinds
    PROVE  /\ Row(engine, from, tier, kind) \in CallRow
           /\ Row(engine, from, tier, kind).item = Head(run.todo)
           /\ Row(engine, from, tier, kind).engine = engine
           /\ Row(engine, from, tier, kind).fallback_from = from
           /\ Row(engine, from, tier, kind).kind = kind
           /\ Row(engine, from, tier, kind).is_first
           /\ Row(engine, from, tier, kind).proposal = None
<1>1. Head(run.todo) \in Targets
  BY DEF LadderInv, LadderType
<1> QED BY <1>1 DEF Row, CallRow

\* A row that is neither a failure of a model nor the end of anything.
LEMMA MildRow ==
    ASSUME NEW r, NEW s, NEW todo, NEW phase, r.item = Head(todo),
           r.kind \in {"ok", "undecided", "no_match", "privacy_tripwire", "bad_output"}
    PROVE  PastCall(r, s, todo, phase)
BY DEF PastCall, Aborting, Deferring, opens_circuit

\* The rules answer, or do not.
LEMMA ReflexKeeps ==
    ASSUME LadderInv, world' = world, NEW v, ReflexDecisive(v) \/ ReflexFallback(v)
    PROVE  LadderInv'
<1>1. /\ run' = run /\ st' = st /\ run.phase = "items" /\ run.todo # <<>> /\ item.phase = "step" /\ ~st.aborted
  BY DEF ReflexDecisive, ReflexFallback, Rung, Climbing
<1>2. LadderType /\ st \in RunStates /\ item.failed_from \in Engines \cup {None}
  BY DEF LadderInv, LadderType, RunStates
<1>3. PICK from \in Engines \cup {None}, kind \in {"undecided", "no_match"} :
          \/ Produced(v, Row("reflex", from, None, "ok"))
          \/ Down(Row("reflex", from, None, kind), item.failed_from, item.deterministic)
  BY <1>2 DEF ReflexDecisive, ReflexFallback
<1>4. "reflex" \notin Engines /\ "reflex" \notin st.skip
  BY <1>2 DEF Engines, RunStates
<1>5. CASE Produced(v, Row("reflex", from, None, "ok"))
  <2>1. "ok" \in CallKinds
    BY DEF CallKinds
  <2> DEFINE r == Row("reflex", from, None, "ok")
  <2>2. /\ r \in CallRow /\ r.item = Head(run.todo) /\ r.engine = "reflex" /\ r.kind = "ok"
        /\ r.is_first /\ r.proposal = None
    <3>1. /\ run.todo # <<>> /\ "reflex" \in Engines \cup {"reflex"} /\ item.failed_from \in Engines \cup {None}
          /\ None \in Engines \cup {None} /\ None \in {None, "local", "remote"}
      BY <1>1, <1>2
    <3>2. r \in CallRow
      BY <2>1, <3>1, RowIs
    <3>3. r.item = Head(run.todo) /\ r.engine = "reflex" /\ r.kind = "ok" /\ r.is_first /\ r.proposal = None
      BY DEF Row
    <3> QED BY <3>2, <3>3
  <2>3. calls' = calls /\ item' = [item EXCEPT !.phase = "produced", !.value = v, !.row = r]
    BY <1>5 DEF Produced
  <2> HIDE DEF r
  <2>4. ~IsModelRow(r)
    BY <1>4, <2>2 DEF IsModelRow
  <2> QED BY <1>1, <1>4, <2>2, <2>3, <2>4, ProducedKeeps
<1>6. CASE Down(Row("reflex", from, None, kind), item.failed_from, item.deterministic)
  <2>1. kind \in CallKinds
    BY DEF CallKinds
  <2> DEFINE r == Row("reflex", from, None, kind)
  <2>2. /\ r \in CallRow /\ r.item = Head(run.todo) /\ r.engine = "reflex" /\ r.kind = kind /\ r.is_first
    <3>1. /\ run.todo # <<>> /\ "reflex" \in Engines \cup {"reflex"} /\ item.failed_from \in Engines \cup {None}
          /\ None \in Engines \cup {None} /\ None \in {None, "local", "remote"}
      BY <1>1, <1>2
    <3>2. r \in CallRow
      BY <2>1, <3>1, RowIs
    <3>3. r.item = Head(run.todo) /\ r.engine = "reflex" /\ r.kind = kind /\ r.is_first
      BY DEF Row
    <3> QED BY <3>2, <3>3
  <2>3. calls' = Append(calls, r) /\ item' = [item EXCEPT !.phase = "step", !.at = @ + 1,
            !.failed_from = item.failed_from, !.deterministic = item.deterministic]
    BY <1>6 DEF Down
  <2> HIDE DEF r
  <2>4. ~IsModelRow(r)
    BY <1>4, <2>2 DEF IsModelRow
  <2>5. PastCall(r, st', run.todo, "step")
    BY <2>2, MildRow
  <2>6. Onward(st, st') /\ st' \in RunStates /\ st'.calls_left = st.calls_left
    BY <1>1, <1>2 DEF Onward
  <2> QED BY <1>1, <1>2, <1>4, <2>2, <2>3, <2>4, <2>5, <2>6, DownKeeps
<1> QED BY <1>3, <1>5, <1>6

\* A model that was asked is the engine of the rung, still fit to be asked.
LEMMA AskedIs ==
    ASSUME LadderInv, Waiting
    PROVE  /\ run.phase = "items" /\ run.todo # <<>> /\ item.phase = "waiting" /\ ~st.aborted
           /\ Asked \in Engines /\ Asked \notin st.skip /\ ~st.models_off
           /\ st \in RunStates /\ item.failed_from \in Engines \cup {None}
BY DEF LadderInv, LadderType, RunStates, Standing, Waiting

\* A reply came.
LEMMA ReplyKeeps ==
    ASSUME LadderInv, world' = world, NEW tier \in {"local", "remote"}, NEW v, reply(tier, v)
    PROVE  LadderInv'
<1>1. /\ run' = run /\ st' = st /\ Waiting
  BY DEF reply
<1>2. /\ run.phase = "items" /\ run.todo # <<>> /\ item.phase = "waiting" /\ ~st.aborted
      /\ Asked \in Engines /\ Asked \notin st.skip /\ ~st.models_off
      /\ st \in RunStates /\ item.failed_from \in Engines \cup {None}
  BY <1>1, AskedIs
<1>3. PICK kind \in {"privacy_tripwire", "bad_output"}, det \in {item.deterministic, TRUE} :
          \/ Produced(v, Row(Asked, item.failed_from, tier, "ok"))
          \/ Down(Row(Asked, item.failed_from, tier, kind), Asked, det)
  BY DEF reply
<1>4. \A r : r.engine = Asked => IsModelRow(r)
  BY <1>2 DEF IsModelRow
<1>5. CASE Produced(v, Row(Asked, item.failed_from, tier, "ok"))
  <2>1. "ok" \in CallKinds
    BY DEF CallKinds
  <2> DEFINE r == Row(Asked, item.failed_from, tier, "ok")
  <2>2. /\ r \in CallRow /\ r.item = Head(run.todo) /\ r.engine = Asked /\ r.kind = "ok"
        /\ r.is_first /\ r.proposal = None
    <3>1. /\ run.todo # <<>> /\ Asked \in Engines \cup {"reflex"} /\ item.failed_from \in Engines \cup {None}
          /\ None \in Engines \cup {None} /\ None \in {None, "local", "remote"}
      BY <1>2
    <3>2. r \in CallRow
      BY <2>1, <3>1, RowIs
    <3>3. r.item = Head(run.todo) /\ r.engine = Asked /\ r.kind = "ok" /\ r.is_first /\ r.proposal = None
      BY DEF Row
    <3> QED BY <3>2, <3>3
  <2>3. calls' = calls /\ item' = [item EXCEPT !.phase = "produced", !.value = v, !.row = r]
    BY <1>5 DEF Produced
  <2> HIDE DEF r
  <2> QED BY <1>1, <1>2, <1>4, <2>2, <2>3, ProducedKeeps
<1>6. CASE Down(Row(Asked, item.failed_from, tier, kind), Asked, det)
  <2>1. kind \in CallKinds
    BY DEF CallKinds
  <2> DEFINE r == Row(Asked, item.failed_from, tier, kind)
  <2>2. /\ r \in CallRow /\ r.item = Head(run.todo) /\ r.engine = Asked /\ r.kind = kind /\ r.is_first
    <3>1. /\ run.todo # <<>> /\ Asked \in Engines \cup {"reflex"} /\ item.failed_from \in Engines \cup {None}
          /\ None \in Engines \cup {None} /\ None \in {None, "local", "remote"}
      BY <1>2
    <3>2. r \in CallRow
      BY <2>1, <3>1, RowIs
    <3>3. r.item = Head(run.todo) /\ r.engine = Asked /\ r.kind = kind /\ r.is_first
      BY DEF Row
    <3> QED BY <3>2, <3>3
  <2>3. calls' = Append(calls, r) /\ item' = [item EXCEPT !.phase = "step", !.at = @ + 1,
            !.failed_from = Asked, !.deterministic = det]
    BY <1>6 DEF Down
  <2> HIDE DEF r
  <2>5. PastCall(r, st', run.todo, "step")
    BY <2>2, MildRow
  <2>6. Onward(st, st') /\ st' \in RunStates /\ st'.calls_left = st.calls_left
    BY <1>1, <1>2 DEF Onward
  <2> QED BY <1>1, <1>2, <1>4, <2>2, <2>3, <2>5, <2>6, DownKeeps
<1> QED BY <1>3, <1>5, <1>6

\* The call failed.
LEMMA FailureKeeps ==
    ASSUME LadderInv, world' = world, NEW f \in ModelFailure, model_failure(f)
    PROVE  LadderInv'
<1>1. run' = run /\ Waiting
  BY DEF model_failure
<1>2. /\ run.phase = "items" /\ run.todo # <<>> /\ item.phase = "waiting" /\ ~st.aborted
      /\ Asked \in Engines /\ Asked \notin st.skip /\ ~st.models_off
      /\ st \in RunStates /\ item.failed_from \in Engines \cup {None}
  BY <1>1, AskedIs
<1> DEFINE r == Row(Asked, item.failed_from, None, f)
<1>3. f \in CallKinds
  BY DEF CallKinds
<1>4. /\ r \in CallRow /\ r.item = Head(run.todo) /\ r.engine = Asked /\ r.kind = f /\ r.is_first
  <2>1. /\ run.todo # <<>> /\ Asked \in Engines \cup {"reflex"} /\ item.failed_from \in Engines \cup {None}
        /\ None \in Engines \cup {None} /\ None \in {None, "local", "remote"}
    BY <1>2
  <2>2. r \in CallRow
    BY <1>3, <2>1, RowIs
  <2>3. r.item = Head(run.todo) /\ r.engine = Asked /\ r.kind = f /\ r.is_first
    BY DEF Row
  <2> QED BY <2>2, <2>3
<1>5. IsModelRow(r)
  BY <1>2, <1>4 DEF IsModelRow
<1>6. Aborting \cap Deferring = {} /\ \A g : opens_circuit(g) => g \notin Aborting \cup Deferring
  BY DEF Aborting, Deferring, opens_circuit
<1>7. \/ f \in Aborting /\ calls' = Append(calls, r) /\ st' = [st EXCEPT !.aborted = TRUE]
         /\ item' = [item EXCEPT !.phase = "aborted"]
      \/ f \in Deferring /\ calls' = Append(calls, r) /\ st' = [st EXCEPT !.models_off = TRUE]
         /\ item' = [item EXCEPT !.phase = "deferred"]
      \/ f \notin Aborting \cup Deferring /\ Down(r, Asked, item.deterministic)
         /\ st' = [st EXCEPT !.skip = @ \cup (IF opens_circuit(f) THEN {Asked} ELSE {})]
  BY DEF model_failure, action, Ended
<1> HIDE DEF r
<1>8. CASE f \in Aborting /\ calls' = Append(calls, r) /\ st' = [st EXCEPT !.aborted = TRUE]
           /\ item' = [item EXCEPT !.phase = "aborted"]
  <2>1. st' \in RunStates /\ st'.calls_left = st.calls_left /\ Onward(st, st') /\ st'.aborted
    BY <1>2, <1>8 DEF RunStates, Onward
  <2>2. PastCall(r, st', run.todo, "aborted")
    BY <1>4, <1>6, <1>8, <2>1 DEF PastCall
  <2> QED BY <1>1, <1>2, <1>4, <1>8, <2>1, <2>2, EndedKeeps
<1>9. CASE f \in Deferring /\ calls' = Append(calls, r) /\ st' = [st EXCEPT !.models_off = TRUE]
           /\ item' = [item EXCEPT !.phase = "deferred"]
  <2>1. /\ st' \in RunStates /\ st'.calls_left = st.calls_left /\ Onward(st, st') /\ ~st'.aborted
        /\ st'.models_off
    BY <1>2, <1>9 DEF RunStates, Onward
  <2>2. PastCall(r, st', run.todo, "deferred")
    BY <1>4, <1>6, <1>9, <2>1 DEF PastCall
  <2> QED BY <1>1, <1>2, <1>4, <1>9, <2>1, <2>2, EndedKeeps
<1>10. CASE f \notin Aborting \cup Deferring /\ Down(r, Asked, item.deterministic)
            /\ st' = [st EXCEPT !.skip = @ \cup (IF opens_circuit(f) THEN {Asked} ELSE {})]
  <2>1. calls' = Append(calls, r) /\ item' = [item EXCEPT !.phase = "step", !.at = @ + 1,
            !.failed_from = Asked, !.deterministic = item.deterministic]
    BY <1>10 DEF Down
  <2>2. /\ st' \in RunStates /\ st'.calls_left = st.calls_left /\ Onward(st, st') /\ ~st'.aborted
        /\ opens_circuit(f) => Asked \in st'.skip
    <3> DEFINE opened == IF opens_circuit(f) THEN {Asked} ELSE {}
    <3>1. opened \subseteq Engines /\ (opens_circuit(f) => Asked \in opened)
      BY <1>2
    <3>2. st' = [st EXCEPT !.skip = st.skip \cup opened]
      BY <1>10
    <3> HIDE DEF opened
    <3>3. st' = [calls_left |-> st.calls_left, late |-> st.late, skip |-> st.skip \cup opened,
                 models_off |-> st.models_off, aborted |-> st.aborted]
      BY <1>2, <3>2 DEF RunStates
    <3>4. st.calls_left \in Nat /\ st.late \in BOOLEAN /\ st.skip \in SUBSET Engines
          /\ st.models_off \in BOOLEAN /\ st.aborted \in BOOLEAN
      BY <1>2 DEF RunStates
    <3> QED BY <1>2, <3>1, <3>3, <3>4 DEF RunStates, Onward
  <2>3. PastCall(r, st', run.todo, "step")
    BY <1>4, <1>10, <2>2 DEF PastCall
  <2> QED BY <1>1, <1>2, <1>4, <1>5, <2>1, <2>2, <2>3, DownKeeps
<1> QED BY <1>7, <1>8, <1>9, <1>10

\* An item ends without a call.
LEMMA EndsKeep ==
    ASSUME LadderInv, world' = world, defer_item \/ exhausted \/ aborted_item
    PROVE  LadderInv'
<1>1. /\ run' = run /\ calls' = calls /\ run.phase = "items" /\ run.todo # <<>> /\ item.phase = "step"
  BY DEF defer_item, exhausted, aborted_item, Rung, Climbing
<1>2. st \in RunStates
  BY DEF LadderInv, LadderType, RunStates
<1>3. CASE defer_item
  <2>1. ~st.aborted /\ st' = [st EXCEPT !.models_off = TRUE] /\ item' = [item EXCEPT !.phase = "deferred"]
    BY <1>3 DEF defer_item, Rung, Climbing, Ended
  <2>2. st' \in RunStates /\ st'.calls_left = st.calls_left /\ Onward(st, st') /\ ~st'.aborted
    BY <1>2, <2>1 DEF RunStates, Onward
  <2> QED BY <1>1, <2>1, <2>2, EndedKeeps
<1>4. CASE exhausted
  <2>1. ~st.aborted /\ st' = st /\ item' = [item EXCEPT !.phase = "nothing"]
    BY <1>4 DEF exhausted, Climbing, Ended
  <2> QED BY <1>1, <1>2, <2>1, EndedKeeps DEF Onward
<1>5. CASE aborted_item
  <2>1. st' = st /\ item' = [item EXCEPT !.phase = "aborted"]
    BY <1>5 DEF aborted_item, Ended
  <2> QED BY <1>1, <1>2, <2>1, EndedKeeps DEF Onward
<1> QED BY <1>3, <1>4, <1>5

\* A run leaves its slot.
LEMMA LeavesKeeps ==
    ASSUME LadderInv, world' = world, NEW state, NEW items, LeaveSlot(state, items)
    PROVE  LadderInv'
<1>1. calls' = <<>> /\ st' = RunState /\ item' = AtTop
  BY DEF LeaveSlot
<1>3. PICK l : run' = [phase |-> "idle", steps |-> <<>>, todo |-> <<>>, read |-> None, asked |-> {},
                       items |-> <<>>, last |-> l]
  <2>1. CASE world.polls
    <3> DEFINE l == [record |-> AiRunRecord(state, items), calls |-> calls]
    <3>1. run' = [NoRun EXCEPT !.last = l]
      BY <2>1 DEF LeaveSlot
    <3> HIDE DEF l
    <3> QED BY <3>1 DEF NoRun
  <2>2. CASE ~world.polls
    BY <2>2 DEF LeaveSlot, NoRun
  <2> QED BY <2>1, <2>2
<1>4. Distinct'
  BY <1>3 DEF Distinct
<1> QED BY <1>1, <1>3, <1>4, FreshKeeps

-----------------------------------------------------------------------------
(* The actions of classify and propose *)

\* A step before the items are taken up leaves the ladder fresh.
LEMMA SetOutKeeps ==
    ASSUME LadderInv, world' = world, UNCHANGED <<st, item, calls>>, run.phase # "items",
           run' = [phase |-> run'.phase, steps |-> run'.steps, todo |-> run'.todo, read |-> run'.read,
                   asked |-> run'.asked, items |-> run'.items, last |-> run'.last],
           run'.phase \in {"idle", "auto", "targets", "selected", "started", "items"},
           run'.todo \in Seq(Targets),
           \A i, j \in DOMAIN run'.todo : i # j =>
               run'.todo[i] # run'.todo[j] /\ (IsClassify => run'.todo[i].task # run'.todo[j].task),
           run'.phase = "items" /\ run'.todo # <<>> => IsPlan(run'.steps)
    PROVE  LadderInv'
<1>1. calls' = <<>> /\ st' = RunState /\ item' = AtTop
  BY DEF LadderInv, Standing
<1>2. Distinct'
  BY DEF Distinct, IsClassify
<1> QED BY <1>1, <1>2, FreshKeeps

\* The tasks of a request, as the run copies them.
LEMMA CopiesAre ==
    ASSUME IsClassify, NEW ids \in Seq(Nat), \A i, j \in DOMAIN ids : i # j => ids[i] # ids[j]
    PROVE  /\ Copies(ids) \in Seq(Targets)
           /\ DOMAIN Copies(ids) = DOMAIN ids
           /\ \A i \in DOMAIN ids : Copies(ids)[i].task = ids[i]
           /\ \A i, j \in DOMAIN Copies(ids) : i # j =>
                 Copies(ids)[i] # Copies(ids)[j] /\ Copies(ids)[i].task # Copies(ids)[j].task
<1> DEFINE copy(i) == [task |-> ids[i], parked |-> tasks[ids[i]].direction = Triage]
<1>1. Copies(ids) = [i \in 1..Len(ids) |-> copy(i)] /\ DOMAIN ids = 1..Len(ids) /\ Len(ids) \in Nat
  BY DEF Copies
<1>2. \A i \in 1..Len(ids) : copy(i) \in Targets /\ copy(i).task = ids[i]
  BY DEF Targets
<1> HIDE DEF copy
<1>3. Copies(ids) \in Seq(Targets)
  BY <1>1, <1>2
<1> QED BY <1>1, <1>2, <1>3

\* The oldest of the inbox that nothing covers.
LEMMA AutoTargets ==
    ASSUME StoreType
    PROVE  /\ auto_select_targets \in Seq(Nat)
           /\ \A i, j \in DOMAIN auto_select_targets : i # j =>
                 auto_select_targets[i] # auto_select_targets[j]
           /\ Range(auto_select_targets) \subseteq DOMAIN tasks
<1> DEFINE all == [t \in DOMAIN tasks |-> t]
<1> DEFINE kept == Only(all, dedup_targets(inbox))
<1> DEFINE m == Min({Len(kept), MaxTaskIds})
<1>1. tasks \in Seq(TaskRow)
  BY DEF StoreType
<1>2. all \in Seq(Nat) /\ Range(all) \subseteq DOMAIN tasks /\ \A i, j \in DOMAIN all : i # j => all[i] # all[j]
  BY <1>1 DEF Range
<1> HIDE DEF all
<1>3. /\ kept \in Seq(Nat) /\ Range(kept) \subseteq DOMAIN tasks
      /\ \A i, j \in DOMAIN kept : i # j => kept[i] # kept[j]
  BY <1>2, OnlyIs
<1>4. auto_select_targets = SubSeq(kept, 1, m)
  BY DEF auto_select_targets, all
<1> HIDE DEF kept
<1>5. m \in Nat /\ m <= Len(kept)
  BY <1>3, MinIs, ClassifyAssumption
<1> HIDE DEF m
<1>6. /\ SubSeq(kept, 1, m) \in Seq(Nat) /\ DOMAIN SubSeq(kept, 1, m) = 1..m
      /\ \A i \in 1..m : SubSeq(kept, 1, m)[i] = kept[i] /\ i \in DOMAIN kept
  BY <1>3, <1>5
<1>7. Range(SubSeq(kept, 1, m)) \subseteq Range(kept)
  BY <1>6 DEF Range
<1> QED BY <1>3, <1>4, <1>6, <1>7

\* A classify run before its items.
LEMMA ClassifySetsOut ==
    ASSUME StoreType, LadderInv, world' = world,
           \/ \E ids \in world.requests : trigger_classify(ids)
           \/ trigger_classify_auto \/ run_selects \/ run_dedups \/ run_starts \/ run_reads
    PROVE  LadderInv'
<1>1. LadderType /\ Distinct
  BY DEF LadderInv
<1>2. CASE \E ids \in world.requests : trigger_classify(ids)
  <2>1. PICK ids \in world.requests : trigger_classify(ids)
    BY <1>2
  <2>2. ids \in Seq(Nat)
    BY AiPortAssumption DEF StoreType
  <2>3. /\ IsClassify /\ run.phase = "idle" /\ UNCHANGED <<st, item, calls>>
        /\ \A i, j \in DOMAIN ids : i # j => ids[i] # ids[j]
        /\ run' = [NoRun EXCEPT !.phase = "targets", !.todo = Copies(ids), !.asked = Range(ids)]
    BY <2>1 DEF trigger_classify, select_targets, IsInjective
  <2>4. run' = [phase |-> "targets", steps |-> <<>>, todo |-> Copies(ids), read |-> None,
                asked |-> Range(ids), items |-> <<>>, last |-> None]
    BY <2>3 DEF NoRun
  <2>5. Copies(ids) \in Seq(Targets) /\ \A i, j \in DOMAIN Copies(ids) : i # j =>
                 Copies(ids)[i] # Copies(ids)[j] /\ Copies(ids)[i].task # Copies(ids)[j].task
    BY <2>2, <2>3, CopiesAre
  <2> QED BY <2>3, <2>4, <2>5, SetOutKeeps
<1>3. CASE trigger_classify_auto
  <2>1. /\ run.phase = "idle" /\ UNCHANGED <<st, item, calls>>
        /\ run' = [phase |-> "auto", steps |-> <<>>, todo |-> <<>>, read |-> None,
                   asked |-> {}, items |-> <<>>, last |-> None]
    BY <1>3 DEF trigger_classify_auto, NoRun
  <2> QED BY <2>1, SetOutKeeps
<1>4. CASE run_selects
  <2> DEFINE ids == auto_select_targets
  <2>1. /\ run.phase = "auto" /\ UNCHANGED <<st, item, calls>>
        /\ run' = [phase |-> "targets", steps |-> run.steps, todo |-> Copies(ids), read |-> run.read,
                   asked |-> Range(ids), items |-> run.items, last |-> run.last]
    BY <1>1, <1>4 DEF run_selects, LadderType
  <2>2. ids \in Seq(Nat) /\ \A i, j \in DOMAIN ids : i # j => ids[i] # ids[j]
    BY AutoTargets
  <2> HIDE DEF ids
  <2>3. IsClassify
    BY <1>4 DEF run_selects
  <2>4. Copies(ids) \in Seq(Targets) /\ \A i, j \in DOMAIN Copies(ids) : i # j =>
                 Copies(ids)[i] # Copies(ids)[j] /\ Copies(ids)[i].task # Copies(ids)[j].task
    BY <2>2, <2>3, CopiesAre
  <2> QED BY <2>1, <2>4, SetOutKeeps
<1>5. CASE run_dedups
  <2>1. IsClassify /\ run.phase = "targets" /\ UNCHANGED <<st, item, calls>>
    BY <1>5 DEF run_dedups
  <2>2. PICK T, told :
           run' = [phase |-> "selected", steps |-> run.steps, todo |-> Only(run.todo, T), read |-> run.read,
                   asked |-> run.asked, items |-> told, last |-> run.last]
    BY <1>1, <1>5 DEF run_dedups, LadderType
  <2>3. /\ run.todo \in Seq(Targets) /\ \A i, j \in DOMAIN run.todo : i # j => run.todo[i] # run.todo[j]
        /\ \A x, y \in Range(run.todo) : x # y => x.task # y.task
    BY <1>1, <2>1 DEF LadderType, Distinct, Range
  <2>4. /\ Only(run.todo, T) \in Seq(Targets)
        /\ Range(Only(run.todo, T)) \subseteq Range(run.todo)
        /\ \A i, j \in DOMAIN Only(run.todo, T) : i # j => Only(run.todo, T)[i] # Only(run.todo, T)[j]
    BY <2>3, OnlyIs
  <2> DEFINE o == Only(run.todo, T)
  <2> HIDE DEF o
  <2>5. \A i \in DOMAIN o : o[i] \in Range(run.todo)
    BY <2>4 DEF Range, o
  <2>6. \A i, j \in DOMAIN o : i # j => o[i] # o[j] /\ o[i].task # o[j].task
    BY <2>3, <2>4, <2>5 DEF o
  <2>7. run'.todo = o /\ o \in Seq(Targets) /\ run'.phase = "selected"
        /\ run' = [phase |-> run'.phase, steps |-> run'.steps, todo |-> run'.todo, read |-> run'.read,
                   asked |-> run'.asked, items |-> run'.items, last |-> run'.last]
    BY <2>2, <2>4 DEF o
  <2> QED BY <2>1, <2>6, <2>7, SetOutKeeps
<1>6. run.todo \in Seq(Targets) /\ \A i, j \in DOMAIN run.todo : i # j =>
               run.todo[i] # run.todo[j] /\ (IsClassify => run.todo[i].task # run.todo[j].task)
  BY <1>1 DEF LadderType, Distinct
<1>7. CASE run_starts
  <2>1. IsClassify /\ run.phase = "selected" /\ UNCHANGED <<st, item, calls>>
    BY <1>7 DEF run_starts
  <2> DEFINE read == [started |-> clock, candidates |-> {}]
  <2>2. run' = [run EXCEPT !.phase = "started", !.read = read]
    BY <1>7 DEF run_starts
  <2> HIDE DEF read
  <2>3. run' = [phase |-> "started", steps |-> run.steps, todo |-> run.todo, read |-> read,
                asked |-> run.asked, items |-> run.items, last |-> run.last]
    BY <1>1, <2>2 DEF LadderType
  <2>4. run'.todo = run.todo /\ run'.phase = "started"
        /\ run' = [phase |-> run'.phase, steps |-> run'.steps, todo |-> run'.todo, read |-> run'.read,
                   asked |-> run'.asked, items |-> run'.items, last |-> run'.last]
    BY <2>3
  <2> QED BY <1>6, <2>1, <2>4, SetOutKeeps
<1>8. CASE run_reads
  <2>1. IsClassify /\ run.phase = "started" /\ UNCHANGED <<st, item, calls>>
    BY <1>8 DEF run_reads
  <2> DEFINE steps == plan("classify", executive)
  <2> DEFINE read == [run.read EXCEPT !.candidates = direction_candidates]
  <2>2. IsPlan(steps)
    BY PlanIs
  <2>3. run' = [run EXCEPT !.phase = "items", !.steps = steps, !.read = read]
    BY <1>8 DEF run_reads
  <2> HIDE DEF steps, read
  <2>4. run' = [phase |-> "items", steps |-> steps, todo |-> run.todo, read |-> read,
                asked |-> run.asked, items |-> run.items, last |-> run.last]
    BY <1>1, <2>3 DEF LadderType
  <2>5. run'.todo = run.todo /\ run'.phase = "items" /\ run'.steps = steps
        /\ run' = [phase |-> run'.phase, steps |-> run'.steps, todo |-> run'.todo, read |-> run'.read,
                   asked |-> run'.asked, items |-> run'.items, last |-> run'.last]
    BY <2>4
  <2> QED BY <1>6, <2>1, <2>2, <2>5, SetOutKeeps
<1> QED BY <1>2, <1>3, <1>4, <1>5, <1>7, <1>8

\* A propose run before its one item.
LEMMA ProposeSetsOut ==
    ASSUME LadderInv, world' = world, trigger_propose \/ dedup_run \/ run_propose
    PROVE  LadderInv'
<1>1. LadderType /\ Distinct
  BY DEF LadderInv
<1>2. IsPropose /\ ~IsClassify /\ run.phase # "items" /\ UNCHANGED <<st, item, calls>>
  BY DEF trigger_propose, dedup_run, run_propose, IsPropose, IsClassify
<1>3. /\ run' = [phase |-> run'.phase, steps |-> run'.steps, todo |-> run'.todo, read |-> run'.read,
                 asked |-> run'.asked, items |-> run'.items, last |-> run'.last]
      /\ run'.phase \in {"targets", "selected", "items"}
      /\ run'.todo \in {<<"week">>, <<>>, run.todo}
      /\ run'.phase = "items" => run'.todo = <<>> \/ IsPlan(run'.steps)
  <2>1. CASE trigger_propose
    BY <2>1 DEF trigger_propose, NoRun
  <2>2. CASE dedup_run
    <3>1. PICK read : run' = [run EXCEPT !.phase = "selected", !.read = read]
      BY <2>2 DEF dedup_run
    <3> QED BY <1>1, <3>1 DEF LadderType
  <2>3. CASE run_propose
    <3>1. PICK read, items :
            \/ run' = [run EXCEPT !.phase = "items", !.todo = <<>>, !.items = items]
            \/ run' = [run EXCEPT !.phase = "items", !.steps = plan("propose", executive), !.read = read]
      BY <2>3 DEF run_propose
    <3>2. IsPlan(plan("propose", executive))
      BY PlanIs
    <3> QED BY <1>1, <3>1, <3>2 DEF LadderType
  <2> QED BY <2>1, <2>2, <2>3
<1>4. run.todo \in Seq(Targets) /\ \A i, j \in DOMAIN run.todo : i # j => run.todo[i] # run.todo[j]
  BY <1>1 DEF LadderType, Distinct
<1>5. run'.todo \in Seq(Targets) /\ \A i, j \in DOMAIN run'.todo : i # j => run'.todo[i] # run'.todo[j]
  <2>1. CASE run'.todo = <<"week">>
    <3>1. Targets = {"week"} /\ DOMAIN run'.todo = {1}
      BY <1>2, <2>1 DEF Targets
    <3> QED BY <2>1, <3>1
  <2>2. CASE run'.todo = <<>>
    BY <2>2
  <2> QED BY <1>3, <1>4, <2>1, <2>2
<1> QED BY <1>2, <1>3, <1>5, SetOutKeeps

\* A call row as insert_call_row and the bare ones write it.
LEMMA InsertedIs ==
    ASSUME StoreType, LadderInv, Decided, NEW is_first \in BOOLEAN,
           NEW answer \in {"ok", "rejected_by_precheck", "submit_store_error"}
    PROVE  /\ \E r : insert_call_row(answer, is_first) = Append(calls, r) /\ Answered(r, is_first)
           /\ Answered(item.row, TRUE)
<1>1. RowReady
  BY DEF LadderInv, Standing
<1>2. Len(proposals) + 1 \in Nat
  BY DEF StoreType
<1> DEFINE pr == IF answer = "ok" THEN Len(proposals) + 1 ELSE None
<1> DEFINE r == [item.row EXCEPT !.kind = answer, !.is_first = is_first, !.proposal = pr]
<1>3. insert_call_row(answer, is_first) = Append(calls, r)
  BY DEF insert_call_row
<1>4. pr \in Nat \cup {None} /\ answer \in CallKinds
  BY <1>2 DEF CallKinds
<1> HIDE DEF pr
<1>5. r \in CallRow /\ r.item = item.row.item /\ r.engine = item.row.engine /\ r.kind = answer
      /\ r.is_first = is_first
  BY <1>1, <1>4 DEF RowReady, CallRow
<1> HIDE DEF r
<1>6. Answered(r, is_first)
  BY <1>1, <1>5 DEF RowReady, Answered
<1>7. Answered(item.row, TRUE)
  <2>1. item.row.is_first = TRUE
    BY <1>1 DEF RowReady, CallRow
  <2> QED BY <1>1, <2>1 DEF RowReady, Answered
<1> QED BY <1>3, <1>6, <1>7

\* An item of classify is settled.
LEMMA ClassifySettles ==
    ASSUME StoreType, LadderInv, world' = world,
           \/ no_candidates \/ unsure \/ no_decision
           \/ \E answer \in {"ok", "rejected_by_precheck", "submit_store_error"} :
                 submit_direction_assignment(answer)
    PROVE  LadderInv'
<1>1. Standing
  BY DEF LadderInv
<1>2. CASE no_candidates \/ no_decision
  <2>1. /\ st' = st /\ calls' = calls /\ run.phase = "items" /\ run.todo # <<>> /\ item' = AtTop
        /\ item.phase \in {"step", "nothing", "deferred", "aborted"}
    BY <1>1, <1>2 DEF no_candidates, no_decision, Climbing, NextItem, Standing
  <2>2. PICK told : run' = [run EXCEPT !.todo = Tail(@), !.items = @ \o told]
    BY <1>2 DEF no_candidates, no_decision, NextItem
  <2> QED BY <2>1, <2>2, NextKeeps
<1>3. CASE unsure
  <2>1. /\ st' = st /\ calls' = Append(calls, item.row) /\ item' = AtTop /\ item.phase = "produced"
        /\ run.phase = "items" /\ run.todo # <<>> /\ Decided
    BY <1>1, <1>3 DEF unsure, NextItem, Standing, Decided
  <2>2. PICK told : run' = [run EXCEPT !.todo = Tail(@), !.items = @ \o told]
    BY <1>3 DEF unsure, NextItem
  <2>3. Answered(item.row, item.phase = "submitting" => item.at = 1)
    BY <2>1, InsertedIs
  <2> QED BY <2>1, <2>2, <2>3, NextKeeps
<1>4. CASE \E answer \in {"ok", "rejected_by_precheck", "submit_store_error"} :
              submit_direction_assignment(answer)
  <2>1. PICK answer \in {"ok", "rejected_by_precheck", "submit_store_error"} :
           submit_direction_assignment(answer)
    BY <1>4
  <2>2. /\ st' = st /\ calls' = insert_call_row(answer, TRUE) /\ item' = AtTop /\ item.phase = "produced"
        /\ run.phase = "items" /\ run.todo # <<>> /\ Decided
    BY <1>1, <2>1 DEF submit_direction_assignment, NextItem, Standing, Decided
  <2>3. PICK told : run' = [run EXCEPT !.todo = Tail(@), !.items = @ \o told]
    BY <2>1 DEF submit_direction_assignment, NextItem
  <2>4. PICK r : insert_call_row(answer, TRUE) = Append(calls, r) /\ Answered(r, TRUE)
    BY <2>2, InsertedIs
  <2>5. Answered(r, item.phase = "submitting" => item.at = 1)
    BY <2>2, <2>4
  <2> QED BY <2>2, <2>3, <2>4, <2>5, NextKeeps
<1> QED BY <1>2, <1>3, <1>4

\* The one item of a propose run is decided or settled.
LEMMA ProposeSettles ==
    ASSUME StoreType, LadderInv, world' = world,
           \/ propose_decide \/ propose_nothing
           \/ \E answer \in {"ok", "rejected_by_precheck", "submit_store_error"} : submit_one(answer)
    PROVE  LadderInv'
<1>1. Standing
  BY DEF LadderInv
<1>2. CASE propose_nothing
  <2>1. /\ st' = st /\ calls' = calls /\ run.phase = "items" /\ run.todo # <<>> /\ item' = AtTop
        /\ item.phase \in {"step", "nothing", "deferred", "aborted"}
    BY <1>1, <1>2 DEF propose_nothing, NextItem, Standing
  <2>2. PICK told : run' = [run EXCEPT !.todo = Tail(@), !.items = @ \o told]
    BY <1>2 DEF propose_nothing, NextItem
  <2> QED BY <2>1, <2>2, NextKeeps
<1>3. CASE propose_decide
  <2>1. st' = st /\ item.phase = "produced" /\ run.phase = "items" /\ run.todo # <<>> /\ Decided
    BY <1>1, <1>3 DEF propose_decide, Standing, Decided
  <2>2. CASE Attempts = <<>>
    <3>1. calls' = Append(calls, item.row) /\ item' = AtTop
      BY <1>3, <2>2 DEF propose_decide, NextItem
    <3>2. PICK told : run' = [run EXCEPT !.todo = Tail(@), !.items = @ \o told]
      BY <1>3, <2>2 DEF propose_decide, NextItem
    <3>3. Answered(item.row, item.phase = "submitting" => item.at = 1)
      BY <2>1, InsertedIs
    <3> QED BY <2>1, <3>1, <3>2, <3>3, NextKeeps
  <2>3. CASE Attempts # <<>>
    <3>1. run' = run /\ calls' = calls /\ item' = [item EXCEPT !.phase = "submitting", !.at = 1]
      BY <1>3, <2>3 DEF propose_decide
    <3> QED BY <2>1, <3>1, SubmittingKeeps
  <2> QED BY <2>2, <2>3
<1>4. CASE \E answer \in {"ok", "rejected_by_precheck", "submit_store_error"} : submit_one(answer)
  <2>1. PICK answer \in {"ok", "rejected_by_precheck", "submit_store_error"} : submit_one(answer)
    BY <1>4
  <2>2. /\ st' = st /\ calls' = insert_call_row(answer, item.at = 1) /\ item.phase = "submitting"
        /\ run.phase = "items" /\ run.todo # <<>> /\ Decided
    BY <1>1, <2>1 DEF submit_one, Standing, Decided
  <2>3. (item.at = 1) \in BOOLEAN
    OBVIOUS
  <2>4. PICK r : insert_call_row(answer, item.at = 1) = Append(calls, r) /\ Answered(r, item.at = 1)
    BY <2>2, <2>3, InsertedIs
  <2>5. PICK results :
           \/ NextItem(Report(results))
           \/ item' = [item EXCEPT !.at = @ + 1] /\ run' = [run EXCEPT !.read.results = results]
    BY <2>1 DEF submit_one
  <2>6. CASE NextItem(Report(results))
    <3>1. item' = AtTop /\ run' = [run EXCEPT !.todo = Tail(@), !.items = @ \o Report(results)]
      BY <2>6 DEF NextItem
    <3>2. Answered(r, item.phase = "submitting" => item.at = 1)
      <4>1. (item.phase = "submitting" => item.at = 1) <=> item.at = 1
        BY <2>2
      <4>2. (item.phase = "submitting" => item.at = 1) = (item.at = 1)
        BY <4>1
      <4> QED BY <2>4, <4>2
    <3> QED BY <2>2, <2>4, <3>1, <3>2, NextKeeps
  <2>7. CASE item' = [item EXCEPT !.at = @ + 1] /\ run' = [run EXCEPT !.read.results = results]
    <3> DEFINE read == [run.read EXCEPT !.results = results]
    <3>1. run' = [run EXCEPT !.read = read]
      BY <2>7
    <3> HIDE DEF read
    <3> QED BY <2>2, <2>4, <2>7, <3>1, SubmittingKeeps
  <2> QED BY <2>5, <2>6, <2>7
<1> QED BY <1>2, <1>3, <1>4

\* Every step keeps what the ladder relies on.
LEMMA LadderStep ==
    ASSUME StoreType, LadderInv, [Next]_vars
    PROVE  LadderInv'
<1>1. CASE StoreNext /\ UNCHANGED ladder
  <2>1. UNCHANGED <<world, run, st, item, calls>>
    BY <1>1 DEF ladder, StoreNext, Tick, create_direction, put_ai_settings, finish_task, close_week,
                shift_gaps, submit_direct, apply_proposal, reject_proposal
  <2> QED BY <2>1, StayKeeps
<1>2. CASE LadderNext /\ UNCHANGED <<store, unseen>>
  <2>1. world' = world
    BY <1>2 DEF store
  <2>2. CASE \E f \in world.failures : model_failure(f)
    <3>1. PICK f \in world.failures : model_failure(f)
      BY <2>2
    <3>2. f \in ModelFailure
      BY LadderAssumption DEF StoreType
    <3> QED BY <2>1, <3>1, <3>2, FailureKeeps
  <2>3. CASE cancel_run
    BY <2>1, <2>3, LeavesKeeps DEF cancel_run
  <2>4. CASE run_ends
    BY <2>1, <2>4, LeavesKeeps DEF run_ends
  <2> QED BY <1>2, <2>1, <2>2, <2>3, <2>4, CircuitKeeps, EndsKeep, CompleteKeeps, DeadlineKeeps DEF LadderNext
<1>3. CASE Reply /\ UNCHANGED <<store, unseen>>
  <2>1. PICK tier, v : tier \in {"local", "remote"} /\ reply(tier, v)
    BY <1>3 DEF Reply, Tiers
  <2>2. world' = world
    BY <1>3 DEF store
  <2> QED BY <2>1, <2>2, ReplyKeeps
<1>4. CASE ClassifyNext
  <2>1. world' = world
    BY <1>4 DEF ClassifyNext, store, trigger_classify, trigger_classify_auto, run_selects, run_dedups,
                run_starts, run_reads, no_candidates, submit_direction_assignment, unsure, no_decision
  <2>2. CASE \E v : ReflexDecisive(v) \/ ReflexFallback(v)
    BY <2>1, <2>2, ReflexKeeps
  <2> QED BY <1>4, <2>1, <2>2, ClassifySetsOut, ClassifySettles DEF ClassifyNext
<1>5. CASE ProposeNext
  <2>1. world' = world
    BY <1>5 DEF ProposeNext, store, trigger_propose, dedup_run, run_propose, propose_decide,
                propose_nothing, submit_one
  <2>2. CASE \E v : ReflexFallback(v)
    BY <2>1, <2>2, ReflexKeeps
  <2> QED BY <1>5, <2>1, <2>2, ProposeSetsOut, ProposeSettles DEF ProposeNext
<1>6. CASE UNCHANGED <<store, ladder, unseen>> \/ UNCHANGED vars
  BY <1>6, StayKeeps DEF store, ladder, vars
<1> QED BY <1>1, <1>2, <1>3, <1>4, <1>5, <1>6 DEF Next, Work

-----------------------------------------------------------------------------
(* What a step does to the run *)

\* A position of two sequences joined is one of the first or of the second.
LEMMA Joined ==
    ASSUME NEW S, NEW s \in Seq(S), NEW t \in Seq(S), NEW k \in DOMAIN (s \o t)
    PROVE  \/ k \in DOMAIN s /\ (s \o t)[k] = s[k]
           \/ k > Len(s) /\ k - Len(s) \in DOMAIN t /\ (s \o t)[k] = t[k - Len(s)]
OBVIOUS

\* What a decision calls for: if it carries tasks, that comes first.
LEMMA AttemptsAre ==
    /\ Attempts \in Seq({"carry", "reorder", "create"})
    /\ \A k \in DOMAIN Attempts : /\ Attempts[k] \in {"carry", "reorder", "create"}
                                  /\ Attempts[k] = "carry" => k = 1 /\ item.value.carry # {}
<1> DEFINE S == {"carry", "reorder", "create"}
<1> DEFINE A == IF item.value.carry # {} THEN <<"carry">> ELSE <<>>
<1> DEFINE B == IF item.value.order /\ ~run.read.dedup.reorder THEN <<"reorder">> ELSE <<>>
<1> DEFINE C == IF item.value.create # {} /\ ~run.read.dedup.create THEN <<"create">> ELSE <<>>
<1>1. /\ A \in Seq(S) /\ B \in Seq(S) /\ C \in Seq(S)
      /\ \A k \in DOMAIN A : A[k] = "carry" /\ k = 1 /\ item.value.carry # {}
      /\ \A k \in DOMAIN B : B[k] = "reorder"
      /\ \A k \in DOMAIN C : C[k] = "create"
  <2>1. ASSUME NEW x \in S PROVE <<x>> \in Seq(S) /\ DOMAIN <<x>> = {1} /\ <<x>>[1] = x
    OBVIOUS
  <2>2. <<>> \in Seq(S) /\ DOMAIN <<>> = {}
    OBVIOUS
  <2>3. A \in Seq(S) /\ \A k \in DOMAIN A : A[k] = "carry" /\ k = 1 /\ item.value.carry # {}
    BY <2>1, <2>2
  <2>4. B \in Seq(S) /\ \A k \in DOMAIN B : B[k] = "reorder"
    BY <2>1, <2>2
  <2>5. C \in Seq(S) /\ \A k \in DOMAIN C : C[k] = "create"
    BY <2>1, <2>2
  <2> QED BY <2>3, <2>4, <2>5
<1>2. Attempts = (A \o B) \o C
  BY DEF Attempts
<1> HIDE DEF A, B, C
<1>3. A \o B \in Seq(S) /\ (A \o B) \o C \in Seq(S)
  BY <1>1
<1>4. ASSUME NEW k \in DOMAIN ((A \o B) \o C), ((A \o B) \o C)[k] = "carry"
      PROVE  k = 1 /\ item.value.carry # {}
  <2>1. k \in DOMAIN (A \o B) /\ (A \o B)[k] = "carry"
    BY <1>1, <1>3, <1>4, Joined
  <2> QED BY <1>1, <2>1, Joined
<1> QED BY <1>2, <1>3, <1>4

\* The run stays where it is, and comes to no decision.
Stays == run' = run /\ (item' = item \/ (~Decided /\ ~Decided'))

\* It decides.
Decides ==
    /\ run' = run /\ run.phase = "items" /\ run.todo # <<>> /\ item.phase \in {"step", "waiting"}
    /\ item'.phase = "produced" /\ MayDecide(item'.value)

\* It is set up, or takes up its items.
SetsOut ==
    /\ run.phase # "items" /\ item.phase = "step" /\ item' = item
    /\ \/ \E ids \in world.requests : trigger_classify(ids)
       \/ trigger_classify_auto \/ run_selects \/ run_dedups \/ run_starts \/ run_reads
       \/ trigger_propose \/ dedup_run \/ run_propose

\* Its first item is settled.
GoesOn ==
    /\ run.phase = "items" /\ run.todo # <<>> /\ item'.phase = "step"
    /\ run'.phase = "items" /\ run'.read = run.read /\ run'.todo = Tail(run.todo)

\* It submits what it has decided, one thing after another.
Submits ==
    /\ IsPropose /\ Decided /\ item'.phase = "submitting" /\ item'.value = item.value
    /\ item.phase = "produced" => item'.at = 1
    /\ item.phase = "submitting" => item'.at = item.at + 1
    /\ item'.at \in DOMAIN Attempts
    /\ run'.phase = run.phase /\ run'.todo = run.todo
    /\ run'.read = run.read \/ \E results : run'.read = [run.read EXCEPT !.results = results]

\* It is over.
Leaves == run.phase # "idle" /\ run'.phase = "idle" /\ run'.todo = <<>> /\ item'.phase = "step"

\* A decision is one of those its engines may come to.
LEMMA ProducedDecides ==
    ASSUME LadderInv, run' = run, run.phase = "items", run.todo # <<>>, item.phase \in {"step", "waiting"},
           NEW v, NEW r, Produced(v, r), MayDecide(v)
    PROVE  Decides
<1>1. item' = [phase |-> "produced", at |-> item.at, failed_from |-> item.failed_from,
               deterministic |-> item.deterministic, value |-> v, row |-> r]
  BY DEF Produced, LadderInv, LadderType
<1> QED BY <1>1 DEF Decides

\* An item that goes down a rung is not decided.
LEMMA DownStays ==
    ASSUME LadderInv, run' = run, ~Decided, NEW r, NEW from, NEW det, Down(r, from, det)
    PROVE  Stays
<1>1. item' = [phase |-> "step", at |-> item.at + 1, failed_from |-> from,
               deterministic |-> det, value |-> item.value, row |-> item.row]
  BY DEF Down, LadderInv, LadderType
<1> QED BY <1>1 DEF Stays, Decided

\* The rules of classify know one Direction; those of propose carry and sort.
LEMMA ReflexMoves ==
    ASSUME LadderInv, NEW v, ReflexDecisive(v) \/ ReflexFallback(v), v # None => MayDecide(v)
    PROVE  Stays \/ Decides
<1>1. run' = run /\ run.phase = "items" /\ run.todo # <<>> /\ item.phase = "step"
  BY DEF ReflexDecisive, ReflexFallback, Rung, Climbing
<1>2. \E r : (v # None /\ Produced(v, r)) \/ Down(r, item.failed_from, item.deterministic)
  BY DEF ReflexDecisive, ReflexFallback
<1> QED BY <1>1, <1>2, ProducedDecides, DownStays DEF Decided

\* So does a reply.
LEMMA ReplyMoves ==
    ASSUME LadderInv, NEW tier, NEW v, reply(tier, v), v # None => MayDecide(v)
    PROVE  Stays \/ Decides
<1>1. run' = run /\ run.phase = "items" /\ run.todo # <<>> /\ item.phase = "waiting"
  BY DEF reply, Waiting, LadderInv, Standing
<1>2. \E r, det : (v # None /\ Produced(v, r)) \/ Down(r, Asked, det)
  BY DEF reply
<1> QED BY <1>1, <1>2, ProducedDecides, DownStays DEF Decided

\* What parse makes of a reply may be decided.
LEMMA ParsedMay ==
    ASSUME NEW v \in Parsed, v # None
    PROVE  MayDecide(v)
<1>1. CASE IsClassify
  BY <1>1 DEF Parsed, parse_classify_reply, classify_schema, MayDecide
<1>2. CASE ~IsClassify
  <2>1. PICK c \in SUBSET run.read.carry, o \in NewOrder, g \in SUBSET run.read.gaps : v = Decision(c, o, g)
    BY <1>2 DEF Parsed, parse_propose_reply, propose_schema, keyed_tasks
  <2> QED BY <1>2, <2>1 DEF Decision, MayDecide
<1> QED BY <1>1, <1>2

\* An item of classify or propose is settled.
LEMMA SettledMoves ==
    ASSUME LadderInv, run.phase = "items", run.todo # <<>>, NEW told, NextItem(told)
    PROVE  GoesOn
<1>1. run' = [phase |-> run.phase, steps |-> run.steps, todo |-> Tail(run.todo), read |-> run.read,
              asked |-> run.asked, items |-> run.items \o told, last |-> run.last]
  BY DEF NextItem, LadderInv, LadderType
<1>2. item'.phase = "step"
  BY DEF NextItem, AtTop
<1> QED BY <1>1, <1>2 DEF GoesOn

\* A step of the ladder moves the run in one of these ways.
LEMMA LadderMoves ==
    ASSUME LadderInv, LadderNext
    PROVE  Stays \/ Leaves
<1>1. LadderType
  BY DEF LadderInv
<1>2. CASE cancel_run \/ run_ends
  <2>1. run.phase # "idle" /\ item' = AtTop
    BY <1>2 DEF cancel_run, run_ends, LeaveSlot
  <2>2. PICK state, items : LeaveSlot(state, items)
    BY <1>2 DEF cancel_run, run_ends
  <2>3. run'.phase = "idle" /\ run'.todo = <<>>
    <3>1. CASE world.polls
      <4> DEFINE l == [record |-> AiRunRecord(state, items), calls |-> calls]
      <4>1. run' = [NoRun EXCEPT !.last = l]
        BY <2>2, <3>1 DEF LeaveSlot
      <4> HIDE DEF l
      <4> QED BY <4>1 DEF NoRun
    <3>2. CASE ~world.polls
      BY <2>2, <3>2 DEF LeaveSlot, NoRun
    <3> QED BY <3>1, <3>2
  <2> QED BY <2>1, <2>3 DEF Leaves, AtTop
<1>3. CASE deadline
  BY <1>3 DEF deadline, Stays
<1>4. CASE circuit_open
  <2>1. run' = run /\ item' = [item EXCEPT !.at = @ + 1, !.failed_from = run.steps[item.at]]
        /\ item.phase = "step"
    BY <1>4 DEF circuit_open, Rung, Climbing
  <2>2. item'.phase = "step"
    BY <1>1, <2>1 DEF LadderType
  <2> QED BY <2>1, <2>2 DEF Stays, Decided
<1>5. CASE complete \/ defer_item \/ exhausted \/ aborted_item
  <2>1. PICK phase \in {"waiting", "deferred", "nothing", "aborted"} :
           run' = run /\ item' = [item EXCEPT !.phase = phase]
    BY <1>5 DEF complete, defer_item, exhausted, aborted_item, Ended
  <2>2. item'.phase = phase /\ item.phase = "step"
    BY <1>1, <1>5, <2>1 DEF LadderType, complete, defer_item, exhausted, aborted_item, Rung, Climbing
  <2> QED BY <2>1, <2>2 DEF Stays, Decided
<1>6. CASE \E f \in world.failures : model_failure(f)
  <2>1. PICK f : model_failure(f)
    BY <1>6
  <2>2. CASE \E phase \in {"aborted", "deferred"} : item' = [item EXCEPT !.phase = phase]
    <3>1. PICK phase \in {"aborted", "deferred"} : item' = [item EXCEPT !.phase = phase]
      BY <2>2
    <3>2. item'.phase = phase
      BY <1>1, <3>1 DEF LadderType
    <3> QED BY <2>1, <3>2 DEF Stays, Decided, model_failure, Waiting
  <2>3. CASE \E r : Down(r, Asked, item.deterministic)
    BY <2>1, <2>3, DownStays DEF model_failure, Waiting, Decided
  <2> QED BY <2>1, <2>2, <2>3 DEF model_failure, Ended
<1> QED BY <1>2, <1>3, <1>4, <1>5, <1>6 DEF LadderNext

\* So does a step of classify, ...
LEMMA ClassifyMoves ==
    ASSUME LadderInv, ClassifyNext
    PROVE  IsClassify /\ (Stays \/ Decides \/ SetsOut \/ GoesOn)
<1>1. Standing
  BY DEF LadderInv
<1>2. CASE \/ \E ids \in world.requests : trigger_classify(ids)
           \/ trigger_classify_auto \/ run_selects \/ run_dedups \/ run_starts \/ run_reads
  <2>1. IsClassify /\ run.phase # "items" /\ item' = item
    BY <1>2 DEF trigger_classify, trigger_classify_auto, run_selects, run_dedups, run_starts, run_reads
  <2>2. item.phase = "step"
    BY <1>1, <2>1 DEF Standing
  <2> QED BY <1>2, <2>1, <2>2 DEF SetsOut
<1>3. CASE \/ no_candidates \/ unsure \/ no_decision
           \/ \E answer \in {"ok", "rejected_by_precheck", "submit_store_error"} :
                 submit_direction_assignment(answer)
  <2>1. IsClassify /\ run.phase = "items" /\ run.todo # <<>>
    BY <1>1, <1>3 DEF no_candidates, unsure, no_decision, submit_direction_assignment, Climbing, Standing
  <2>2. \E told : NextItem(told)
    BY <1>3 DEF no_candidates, unsure, no_decision, submit_direction_assignment
  <2> QED BY <2>1, <2>2, SettledMoves
<1>4. CASE \E v \in {None, Filed} : IsClassify /\ (ReflexDecisive(v) \/ ReflexFallback(v))
  BY <1>4, ReflexMoves DEF MayDecide
<1> QED BY <1>2, <1>3, <1>4 DEF ClassifyNext, r1_reflex, r2_reflex, title_history, Answers

\* One of the attempts of a decision is made: the next one is due, or the item is
\* settled.
LEMMA SubmitMoves ==
    ASSUME LadderInv, ReadInv,
           \E answer \in {"ok", "rejected_by_precheck", "submit_store_error"} : submit_one(answer)
    PROVE  GoesOn \/ Submits
<1>a. Standing /\ LadderType /\ (IsPropose => ~IsClassify)
  BY DEF LadderInv, IsPropose, IsClassify
<1>b. item = [phase |-> item.phase, at |-> item.at, failed_from |-> item.failed_from,
              deterministic |-> item.deterministic, value |-> item.value, row |-> item.row]
  BY <1>a DEF LadderType
<1>1. IsPropose /\ run.phase = "items" /\ run.todo # <<>> /\ item.phase = "submitting" /\ Decided
  BY <1>a DEF submit_one, Standing, Decided
<1>2. PICK results :
         \/ NextItem(Report(results))
         \/ /\ item' = [item EXCEPT !.at = @ + 1] /\ run' = [run EXCEPT !.read.results = results]
            /\ item.at # Len(Attempts)
  BY DEF submit_one
<1>3. CASE NextItem(Report(results))
  BY <1>a, <1>1, <1>3, SettledMoves
<1>4. CASE /\ item' = [item EXCEPT !.at = @ + 1] /\ run' = [run EXCEPT !.read.results = results]
           /\ item.at # Len(Attempts)
  <2> DEFINE read == [run.read EXCEPT !.results = results]
  <2>1. run' = [run EXCEPT !.read = read]
    BY <1>4
  <2>2. \E x : read = [run.read EXCEPT !.results = x]
    OBVIOUS
  <2> HIDE DEF read
  <2>3. run'.phase = run.phase /\ run'.todo = run.todo /\ run'.read = read
    BY <1>a, <2>1 DEF LadderType
  <2>4. item'.phase = "submitting" /\ item'.value = item.value /\ item'.at = item.at + 1
    BY <1>b, <1>1, <1>4
  <2>5. item'.at \in DOMAIN Attempts
    <3>1. Attempts \in Seq({"carry", "reorder", "create"}) /\ item.at \in DOMAIN Attempts
      BY <1>1, AttemptsAre DEF ReadInv
    <3> HIDE DEF Attempts
    <3> QED BY <1>4, <2>4, <3>1
  <2> QED BY <1>a, <1>1, <2>2, <2>3, <2>4, <2>5 DEF Submits
<1> QED BY <1>2, <1>3, <1>4

\* ... and of propose.
LEMMA ProposeMoves ==
    ASSUME LadderInv, ReadInv, ProposeNext
    PROVE  IsPropose /\ ~IsClassify /\ (Stays \/ Decides \/ SetsOut \/ GoesOn \/ Submits)
<1>0. Standing /\ LadderType /\ (IsPropose => ~IsClassify)
  BY DEF LadderInv, IsPropose, IsClassify
<1>1. item = [phase |-> item.phase, at |-> item.at, failed_from |-> item.failed_from,
              deterministic |-> item.deterministic, value |-> item.value, row |-> item.row]
  BY <1>0 DEF LadderType
<1>2. CASE trigger_propose \/ dedup_run \/ run_propose
  <2>1. IsPropose /\ run.phase # "items" /\ item' = item
    BY <1>2 DEF trigger_propose, dedup_run, run_propose
  <2>2. item.phase = "step"
    BY <1>0, <2>1 DEF Standing
  <2> QED BY <1>0, <1>2, <2>1, <2>2 DEF SetsOut
<1>3. CASE propose_nothing
  <2>1. IsPropose /\ run.phase = "items" /\ run.todo # <<>> /\ \E told : NextItem(told)
    BY <1>0, <1>3 DEF propose_nothing, Standing
  <2> QED BY <1>0, <2>1, SettledMoves
<1>4. CASE propose_decide
  <2>1. IsPropose /\ run.phase = "items" /\ run.todo # <<>> /\ item.phase = "produced" /\ Decided
    BY <1>0, <1>4 DEF propose_decide, Standing, Decided
  <2>2. CASE Attempts = <<>>
    <3>1. \E told : NextItem(told)
      BY <1>4, <2>2 DEF propose_decide
    <3> QED BY <1>0, <2>1, <3>1, SettledMoves
  <2>3. CASE Attempts # <<>>
    <3>1. run' = run /\ item' = [item EXCEPT !.phase = "submitting", !.at = 1]
      BY <1>4, <2>3 DEF propose_decide
    <3>2. item' = [phase |-> "submitting", at |-> 1, failed_from |-> item.failed_from,
                   deterministic |-> item.deterministic, value |-> item.value, row |-> item.row]
      BY <1>1, <3>1
    <3>3. 1 \in DOMAIN Attempts
      <4>1. Attempts \in Seq({"carry", "reorder", "create"})
        BY AttemptsAre
      <4> HIDE DEF Attempts
      <4> QED BY <2>3, <4>1
    <3> QED BY <1>0, <2>1, <3>1, <3>2, <3>3 DEF Submits
  <2> QED BY <2>2, <2>3
<1>5. CASE \E answer \in {"ok", "rejected_by_precheck", "submit_store_error"} : submit_one(answer)
  BY <1>0, <1>5, SubmitMoves DEF submit_one
<1>6. CASE IsPropose /\ \E v \in reorder_reflex : ReflexFallback(v)
  <2>1. PICK v \in reorder_reflex : ReflexFallback(v)
    BY <1>6
  <2>2. PICK o \in NewOrder : v = Decision(run.read.carry, o, {})
    BY <2>1 DEF reorder_reflex
  <2>3. MayDecide(v)
    BY <1>0, <1>6, <2>2 DEF Decision, MayDecide
  <2> QED BY <1>0, <1>6, <2>1, <2>3, ReflexMoves
<1> QED BY <1>2, <1>3, <1>4, <1>5, <1>6 DEF ProposeNext

\* Every step moves the run in one of these ways.
LEMMA RunMoves ==
    ASSUME LadderInv, ReadInv, [Next]_vars
    PROVE  Stays \/ Decides \/ SetsOut \/ GoesOn \/ Submits \/ Leaves
<1>1. CASE Reply
  <2>1. PICK tier, v : v \in Parsed /\ reply(tier, v)
    BY <1>1 DEF Reply
  <2> QED BY <2>1, ParsedMay, ReplyMoves
<1>2. CASE UNCHANGED ladder \/ UNCHANGED vars
  BY <1>2 DEF ladder, vars, Stays
<1> QED BY <1>1, <1>2, LadderMoves, ClassifyMoves, ProposeMoves DEF Next, Work

-----------------------------------------------------------------------------
(* What a step does to the store *)

\* A task once p, which names it or not, is accepted.
After(p, t) ==
    IF t \notin p.what THEN tasks[t]
    ELSE IF p.kind = "assign"
    THEN [tasks[t] EXCEPT !.direction = p.to, !.via = IF p.to = Triage THEN p.source ELSE None,
                          !.entered = IF p.to = Triage THEN clock ELSE None]
    ELSE IF p.kind = "carry" THEN [tasks[t] EXCEPT !.status = "carried_over", !.edited = clock]
    ELSE tasks[t]

\* After is a row.
LEMMA AfterIs ==
    ASSUME StoreType, NEW p \in ProposalRow, NEW t \in DOMAIN tasks
    PROVE  After(p, t) \in TaskRow
<1>1. tasks[t] \in TaskRow /\ clock \in Nat
  BY DEF StoreType
<1>2. p.to \in {None, Triage, Filed} /\ p.source \in {"direct", "classify", "propose"}
  BY DEF ProposalRow
<1> DEFINE via == IF p.to = Triage THEN p.source ELSE None
<1> DEFINE entered == IF p.to = Triage THEN clock ELSE None
<1>3. via \in {None, "direct", "classify", "propose"} /\ entered \in Nat \cup {None}
  BY <1>1, <1>2
<1>4. After(p, t) \in {tasks[t], [tasks[t] EXCEPT !.direction = p.to, !.via = via, !.entered = entered],
                       [tasks[t] EXCEPT !.status = "carried_over", !.edited = clock]}
  BY DEF After
<1> HIDE DEF via, entered
<1> QED BY <1>1, <1>2, <1>3, <1>4 DEF TaskRow

\* Accepting a proposal changes the tasks it names and adds new ones behind them.
LEMMA AppliedIs ==
    ASSUME StoreType, NEW p \in ProposalRow
    PROVE  /\ Applied(p) \in Seq(TaskRow)
           /\ DOMAIN tasks \subseteq DOMAIN Applied(p)
           /\ \A t \in DOMAIN tasks : Applied(p)[t] = After(p, t)
           /\ \A t \in DOMAIN Applied(p) : t \notin DOMAIN tasks => Applied(p)[t] = NewTask("this", "planned")
<1> DEFINE old == [t \in DOMAIN tasks |-> After(p, t)]
<1> DEFINE n == Cardinality(p.what)
<1> DEFINE new == [i \in 1..n |-> NewTask("this", "planned")]
<1>1. tasks \in Seq(TaskRow) /\ clock \in Nat
  BY DEF StoreType
<1>2. n \in Nat
  <2>1. IsFiniteSet(p.what)
    BY DEF ProposalRow, Whats
  <2> QED BY <2>1, FS_CardinalityType
<1>3. NewTask("this", "planned") \in TaskRow
  BY <1>1 DEF NewTask, TaskRow
<1> HIDE DEF n
<1>4. new \in Seq(TaskRow) /\ DOMAIN new = 1..n /\ \A i \in 1..n : new[i] = NewTask("this", "planned")
  BY <1>2, <1>3
<1>5. old \in Seq(TaskRow) /\ Len(old) = Len(tasks) /\ DOMAIN old = DOMAIN tasks
      /\ \A t \in DOMAIN tasks : old[t] = After(p, t)
  <2>1. DOMAIN tasks = 1..Len(tasks) /\ Len(tasks) \in Nat
    BY <1>1
  <2>2. \A t \in DOMAIN tasks : After(p, t) \in TaskRow
    BY AfterIs
  <2> QED BY <2>1, <2>2
<1>6. Applied(p) \in {old, old \o new}
  <2>1. CASE p.kind = "assign"
    <3>1. Applied(p) = old
      BY <2>1 DEF Applied, After
    <3> QED BY <3>1
  <2>2. CASE p.kind = "carry"
    <3>1. Applied(p) = [t \in DOMAIN tasks |->
                IF t \notin p.what THEN tasks[t]
                ELSE [tasks[t] EXCEPT !.status = "carried_over", !.edited = clock]] \o new
      BY <2>2 DEF Applied, n
    <3>2. old = [t \in DOMAIN tasks |->
                IF t \notin p.what THEN tasks[t]
                ELSE [tasks[t] EXCEPT !.status = "carried_over", !.edited = clock]]
      BY <2>2 DEF After
    <3> QED BY <3>1, <3>2
  <2>3. CASE p.kind \notin {"assign", "carry"}
    <3>1. \A t \in DOMAIN tasks : After(p, t) = tasks[t]
      BY <2>3 DEF After
    <3>2. old = tasks
      BY <1>1, <3>1
    <3>3. Applied(p) \in {tasks, tasks \o new}
      BY <2>3 DEF Applied, n
    <3> QED BY <3>2, <3>3
  <2> QED BY <2>1, <2>2, <2>3
<1> HIDE DEF old, new
<1>7. CASE Applied(p) = old
  BY <1>5, <1>7
<1>8. CASE Applied(p) = old \o new
  <2> DEFINE all == old \o new
  <2>1. /\ all \in Seq(TaskRow)
        /\ DOMAIN all = 1..(Len(old) + Len(new))
        /\ \A i \in 1..Len(old) : all[i] = old[i]
        /\ \A i \in Len(old)+1..Len(old)+Len(new) : all[i] = new[i - Len(old)] /\ i - Len(old) \in 1..Len(new)
    BY <1>4, <1>5
  <2>2. Len(new) = n /\ Len(old) \in Nat /\ DOMAIN tasks = 1..Len(old)
    BY <1>1, <1>2, <1>4, <1>5
  <2> HIDE DEF all
  <2>3. \A t \in DOMAIN all : t \notin DOMAIN tasks => t \in Len(old)+1..Len(old)+Len(new)
    BY <1>2, <2>1, <2>2
  <2>4. \A t \in DOMAIN all : t \notin DOMAIN tasks => all[t] = NewTask("this", "planned")
    BY <1>4, <2>1, <2>2, <2>3
  <2>5. DOMAIN tasks \subseteq DOMAIN all /\ \A t \in DOMAIN tasks : all[t] = After(p, t)
    BY <1>2, <1>5, <2>1, <2>2
  <2>6. Applied(p) = all
    BY <1>8 DEF all
  <2> QED BY <2>1, <2>4, <2>5, <2>6
<1> QED BY <1>6, <1>7, <1>8

\* StoreType, column by column.
LEMMA StoreTypeKept ==
    ASSUME world \in Worlds, world' = world, clock' \in Nat, directions' \in Seq(Nat), tasks' \in Seq(TaskRow),
           weeks' \in [{"prev", "this"} -> BOOLEAN], gaps' \subseteq world.gaps,
           proposals' \in Seq(ProposalRow)
    PROVE  StoreType'
<1>1. ProposalRow' = ProposalRow /\ TaskRow' = TaskRow
  BY DEF ProposalRow, Whats, TaskRow
<1> QED BY <1>1 DEF StoreType

\* What others do keeps the store's types, its clock running, and its tasks in place.
LEMMA StoreNextType ==
    ASSUME StoreType, StoreNext
    PROVE  StoreType' /\ world' = world /\ clock <= clock' /\ DOMAIN tasks \subseteq DOMAIN tasks'
<1>0. /\ world \in Worlds /\ clock \in Nat /\ directions \in Seq(Nat) /\ tasks \in Seq(TaskRow)
      /\ weeks \in [{"prev", "this"} -> BOOLEAN] /\ gaps \subseteq world.gaps
      /\ proposals \in Seq(ProposalRow)
  BY DEF StoreType
<1>1. CASE Tick \/ create_direction \/ put_ai_settings
  <2>1. world' = world /\ tasks' = tasks /\ weeks' = weeks /\ gaps' = gaps /\ proposals' = proposals
        /\ clock' \in {clock, clock + 1} /\ directions' \in {directions, Append(directions, clock)}
    BY <1>1 DEF Tick, create_direction, put_ai_settings
  <2>2. clock' \in Nat /\ clock <= clock'
    BY <1>0, <2>1
  <2>3. directions' \in Seq(Nat)
    <3>1. Append(directions, clock) \in Seq(Nat)
      BY <1>0
    <3> QED BY <1>0, <2>1, <3>1
  <2> QED BY <1>0, <2>1, <2>2, <2>3, StoreTypeKept
<1>2. CASE \E t \in DOMAIN tasks : finish_task(t)
  <2>1. PICK t \in DOMAIN tasks : finish_task(t)
    BY <1>2
  <2>2. /\ UNCHANGED <<world, clock, directions, weeks, gaps, proposals>>
        /\ tasks' = [tasks EXCEPT ![t] = [tasks[t] EXCEPT !.status = "done", !.edited = clock]]
    BY <2>1 DEF finish_task
  <2>3. tasks[t] \in TaskRow
    BY <1>0
  <2>4. [tasks[t] EXCEPT !.status = "done", !.edited = clock] \in TaskRow
    BY <1>0, <2>3 DEF TaskRow
  <2>5. tasks' \in Seq(TaskRow) /\ DOMAIN tasks' = DOMAIN tasks
    BY <1>0, <2>2, <2>4
  <2> QED BY <1>0, <2>2, <2>5, StoreTypeKept
<1>3. CASE \E w \in DOMAIN weeks : close_week(w)
  <2>1. PICK w \in DOMAIN weeks : close_week(w)
    BY <1>3
  <2>2. weeks' \in [{"prev", "this"} -> BOOLEAN] /\ UNCHANGED <<world, clock, directions, tasks, gaps, proposals>>
    BY <1>0, <2>1 DEF close_week
  <2> QED BY <1>0, <2>2, StoreTypeKept
<1>4. CASE \E now \in SUBSET world.gaps : shift_gaps(now)
  <2>1. gaps' \subseteq world.gaps /\ UNCHANGED <<world, clock, directions, tasks, weeks, proposals>>
    BY <1>4 DEF shift_gaps
  <2> QED BY <1>0, <2>1, StoreTypeKept
<1>5. CASE \E t \in DOMAIN tasks, to \in {Triage, Filed} : submit_direct(t, to)
  <2>1. PICK t \in DOMAIN tasks, to \in {Triage, Filed} : submit_direct(t, to)
    BY <1>5
  <2>2. /\ proposals' = Append(proposals, Draft("direct", "assign", {t}, to))
        /\ UNCHANGED <<world, clock, directions, tasks, weeks, gaps>>
    BY <2>1 DEF submit_direct
  <2>3. {t} \in Whats
    <3>1. t \in Nat
      BY <1>0
    <3> QED BY <3>1, FS_Singleton DEF Whats
  <2>4. Draft("direct", "assign", {t}, to) \in ProposalRow
    BY <1>0, <2>3 DEF Draft, ProposalRow
  <2>5. proposals' \in Seq(ProposalRow)
    BY <1>0, <2>2, <2>4
  <2> QED BY <1>0, <2>2, <2>5, StoreTypeKept
<1>6. CASE \E i \in DOMAIN proposals : apply_proposal(i) \/ reject_proposal(i)
  <2>1. PICK i \in DOMAIN proposals : apply_proposal(i) \/ reject_proposal(i)
    BY <1>6
  <2>2. proposals[i] \in ProposalRow
    BY <1>0
  <2>3. PICK s \in {"applied", "rejected"} :
            proposals' = [proposals EXCEPT ![i] = [proposals[i] EXCEPT !.status = s]]
    BY <2>1 DEF apply_proposal, reject_proposal
  <2>4. [proposals[i] EXCEPT !.status = s] \in ProposalRow
    BY <2>2 DEF ProposalRow
  <2>5. proposals' \in Seq(ProposalRow)
    BY <1>0, <2>3, <2>4
  <2>6. tasks' \in {tasks, Applied(proposals[i])} /\ UNCHANGED <<world, clock, directions, weeks>>
        /\ gaps' \subseteq gaps
    BY <2>1 DEF apply_proposal, reject_proposal
  <2>7. tasks' \in Seq(TaskRow) /\ DOMAIN tasks \subseteq DOMAIN tasks'
    BY <1>0, <2>2, <2>6, AppliedIs
  <2> QED BY <1>0, <2>5, <2>6, <2>7, StoreTypeKept
<1> QED BY <1>1, <1>2, <1>3, <1>4, <1>5, <1>6 DEF StoreNext

\* A submission adds its draft, or nothing.
LEMMA SubmitType ==
    ASSUME StoreType, NEW p \in ProposalRow, NEW answer, submit(p, answer)
    PROVE  proposals' \in Seq(ProposalRow)
BY DEF StoreType, submit

\* An evaluation is noted with the task it is about.
LEMMA EvalType ==
    ASSUME StoreType, NEW looked, record_classify_eval(looked), run.read.started \in Nat
    PROVE  tasks' \in Seq(TaskRow) /\ DOMAIN tasks' = DOMAIN tasks
<1>1. tasks \in Seq(TaskRow)
  BY DEF StoreType
<1>2. CASE tasks' = tasks
  BY <1>1, <1>2
<1>3. CASE tasks' = [tasks EXCEPT ![Task] = [tasks[Task] EXCEPT !.evaluated = run.read.started]]
  <2> DEFINE row == [tasks[Task] EXCEPT !.evaluated = run.read.started]
  <2>1. Task \in DOMAIN tasks => row \in TaskRow
    <3>1. Task \in DOMAIN tasks => tasks[Task] \in TaskRow
      BY <1>1
    <3> QED BY <3>1 DEF TaskRow
  <2>2. tasks' = [tasks EXCEPT ![Task] = row]
    BY <1>3
  <2> HIDE DEF row
  <2>3. CASE Task \in DOMAIN tasks
    BY <1>1, <2>1, <2>2, <2>3
  <2>4. CASE Task \notin DOMAIN tasks
    <3>1. tasks' = tasks
      BY <1>1, <2>2, <2>4
    <3> QED BY <1>1, <3>1
  <2> QED BY <2>3, <2>4
<1> QED BY <1>2, <1>3 DEF record_classify_eval, evaluated_at

\* A step of a run keeps them too.
LEMMA SettlesType ==
    ASSUME StoreType, LadderInv, ReadInv, ClassifyNext \/ ProposeNext
    PROVE  StoreType' /\ world' = world /\ clock <= clock' /\ DOMAIN tasks \subseteq DOMAIN tasks'
<1>0. /\ world \in Worlds /\ clock \in Nat /\ directions \in Seq(Nat) /\ tasks \in Seq(TaskRow)
      /\ weeks \in [{"prev", "this"} -> BOOLEAN] /\ gaps \subseteq world.gaps
      /\ proposals \in Seq(ProposalRow)
  BY DEF StoreType
<1>1. Standing /\ run.todo \in Seq(Targets)
  BY DEF LadderInv, LadderType
<1>2. CASE UNCHANGED store
  <2>1. UNCHANGED <<world, clock, directions, tasks, weeks, gaps, proposals>>
    BY <1>2 DEF store
  <2> QED BY <1>0, <2>1, StoreTypeKept
<1>3. CASE unsure \/ no_decision
  <2>1. /\ UNCHANGED <<world, clock, directions, weeks, gaps, proposals>>
        /\ IsClassify /\ run.phase = "items"
    BY <1>1, <1>3 DEF unsure, no_decision, Standing
  <2>2. PICK looked : record_classify_eval(looked)
    BY <1>3 DEF unsure, no_decision
  <2>3. run.read.started \in Nat
    BY <2>1 DEF ReadInv
  <2> QED BY <1>0, <2>1, <2>2, <2>3, EvalType, StoreTypeKept
<1>4. CASE \E answer \in {"ok", "rejected_by_precheck", "submit_store_error"} :
              submit_direction_assignment(answer)
  <2>1. PICK answer : submit_direction_assignment(answer)
    BY <1>4
  <2>2. /\ UNCHANGED <<world, clock, directions, weeks, gaps>>
        /\ IsClassify /\ run.phase = "items" /\ run.todo # <<>> /\ Decided /\ item.value # "low_confidence"
    BY <1>1, <2>1 DEF submit_direction_assignment, Standing, Decided
  <2>3. run.read.started \in Nat /\ item.value \in {Filed, Triage}
    BY <2>2 DEF ReadInv, MayDecide
  <2>4. Task \in Nat
    <3>1. Head(run.todo) \in Targets
      BY <1>1, <2>2
    <3> QED BY <2>2, <3>1 DEF Targets, Task
  <2>5. {Task} \in Whats
    BY <2>4, FS_Singleton DEF Whats
  <2>6. Draft("classify", "assign", {Task}, item.value) \in ProposalRow
    BY <1>0, <2>3, <2>5 DEF Draft, ProposalRow
  <2>7. submit(Draft("classify", "assign", {Task}, item.value), answer)
        /\ record_classify_eval(answer = "rejected_by_precheck")
    BY <2>1 DEF submit_direction_assignment
  <2>8. proposals' \in Seq(ProposalRow)
    BY <2>6, <2>7, SubmitType
  <2> QED BY <1>0, <2>2, <2>3, <2>7, <2>8, EvalType, StoreTypeKept
<1>5. CASE \E answer \in {"ok", "rejected_by_precheck", "submit_store_error"} : submit_one(answer)
  <2>1. PICK answer : submit_one(answer)
    BY <1>5
  <2>2. /\ UNCHANGED <<world, clock, directions, tasks, weeks, gaps>>
        /\ IsPropose /\ run.phase = "items" /\ run.todo # <<>> /\ Decided
    BY <1>1, <2>1 DEF submit_one, Standing, Decided
  <2>3. /\ item.value.carry \subseteq DOMAIN tasks /\ run.read.week \subseteq DOMAIN tasks
        /\ item.value.create \subseteq world.gaps
    <3>1. ~IsClassify
      BY <2>2 DEF IsPropose, IsClassify
    <3> QED BY <2>2, <3>1 DEF ReadInv, MayDecide
  <2>4. IsFiniteSet(DOMAIN tasks) /\ DOMAIN tasks \subseteq Nat
    BY <1>0, FS_Interval
  <2>5. IsFiniteSet(world.gaps)
    BY <1>0, AiPortAssumption
  <2>6. item.value.carry \in Whats /\ run.read.week \in Whats /\ item.value.create \in Whats
    BY <2>3, <2>4, <2>5, FS_Subset DEF Whats
  <2>7. submit(DraftOf(Attempts[item.at]), answer)
    BY <2>1 DEF submit_one
  <2>8. Attempts[item.at] \in {"carry", "reorder", "create"}
    <3>1. item.at \in DOMAIN Attempts
      BY <2>1 DEF submit_one, ReadInv
    <3> QED BY <3>1, AttemptsAre
  <2>9. DraftOf(Attempts[item.at]) \in ProposalRow
    BY <1>0, <2>6, <2>8 DEF Draft, DraftOf, ProposalRow
  <2>10. proposals' \in Seq(ProposalRow)
    BY <2>7, <2>9, SubmitType
  <2> QED BY <1>0, <2>2, <2>10, StoreTypeKept
<1> QED BY <1>2, <1>3, <1>4, <1>5
       DEF ClassifyNext, ProposeNext, trigger_classify, trigger_classify_auto, run_selects, run_dedups,
           run_starts, run_reads, no_candidates, trigger_propose, dedup_run, run_propose, propose_decide,
           propose_nothing

\* Every step keeps the store's types, its clock running, and its tasks in place.
LEMMA StoreStep ==
    ASSUME StoreType, LadderInv, ReadInv, [Next]_vars
    PROVE  StoreType' /\ world' = world /\ clock <= clock' /\ DOMAIN tasks \subseteq DOMAIN tasks'
<1>1. CASE UNCHANGED store \/ UNCHANGED vars
  <2>1. UNCHANGED <<world, clock, directions, tasks, weeks, gaps, proposals>>
    BY <1>1 DEF store, vars
  <2>2. clock <= clock
    BY DEF StoreType
  <2> QED BY <2>1, <2>2, StoreTypeKept DEF StoreType
<1> QED BY <1>1, StoreNextType, SettlesType DEF Next, Work

\* What a run reads as it sets out is what ReadInv says.
LEMMA SetsOutReads ==
    ASSUME StoreType, LadderInv, ReadInv, SetsOut
    PROVE  /\ IsClassify /\ run'.phase \in {"started", "items"} =>
                /\ run'.read = [started |-> run'.read.started, candidates |-> run'.read.candidates]
                /\ run'.read.started \in Nat /\ run'.read.started <= clock
           /\ IsPropose /\ run'.phase = "items" /\ run'.todo # <<>> =>
                /\ run'.read = [dedup |-> run'.read.dedup, carry |-> run'.read.carry, week |-> run'.read.week,
                                gaps |-> run'.read.gaps, results |-> run'.read.results]
                /\ run'.read.carry \subseteq DOMAIN tasks
                /\ run'.read.week \subseteq DOMAIN tasks
                /\ run'.read.gaps \subseteq world.gaps
<1>0. LadderType /\ clock \in Nat /\ clock <= clock /\ gaps \subseteq world.gaps
  BY DEF LadderInv, StoreType
<1>1. CASE \/ \E ids \in world.requests : trigger_classify(ids)
           \/ trigger_classify_auto \/ run_selects \/ run_dedups \/ trigger_propose \/ dedup_run
  <2>1. \/ \E x, y, z : run' \in {[NoRun EXCEPT !.phase = "targets", !.todo = x, !.asked = y],
                                  [run EXCEPT !.phase = "targets", !.todo = x, !.asked = y],
                                  [run EXCEPT !.phase = "selected", !.todo = x, !.items = y]}
        \/ run' = [NoRun EXCEPT !.phase = "auto"]
        \/ \E x : run' = [run EXCEPT !.phase = "selected", !.read = x]
    BY <1>1 DEF trigger_classify, trigger_classify_auto, run_selects, run_dedups, trigger_propose, dedup_run
  <2>2. run'.phase \in {"targets", "selected", "auto"}
    BY <1>0, <2>1 DEF NoRun, LadderType
  <2> QED BY <2>2
<1>2. CASE run_starts
  <2> DEFINE read == [started |-> clock, candidates |-> {}]
  <2>1. IsClassify /\ run' = [run EXCEPT !.phase = "started", !.read = read]
    BY <1>2 DEF run_starts
  <2>2. read.started = clock /\ read = [started |-> read.started, candidates |-> read.candidates]
    OBVIOUS
  <2> HIDE DEF read
  <2>3. run'.phase = "started" /\ run'.read = read
    BY <1>0, <2>1 DEF LadderType
  <2> QED BY <1>0, <2>1, <2>2, <2>3 DEF IsClassify, IsPropose
<1>3. CASE run_reads
  <2> DEFINE read == [run.read EXCEPT !.candidates = direction_candidates]
  <2>1. IsClassify /\ run.phase = "started"
        /\ run' = [run EXCEPT !.phase = "items", !.steps = plan("classify", executive), !.read = read]
    BY <1>3 DEF run_reads
  <2>2. /\ run.read = [started |-> run.read.started, candidates |-> run.read.candidates]
        /\ run.read.started \in Nat /\ run.read.started <= clock
    BY <2>1 DEF ReadInv
  <2>3. read = [started |-> run.read.started, candidates |-> direction_candidates]
    BY <2>2
  <2> HIDE DEF read
  <2>4. run'.phase = "items" /\ run'.read = read
    BY <1>0, <2>1 DEF LadderType
  <2> QED BY <2>1, <2>2, <2>3, <2>4 DEF IsClassify, IsPropose
<1>4. CASE run_propose
  <2>1. IsPropose /\ ~IsClassify
    BY <1>4 DEF run_propose, IsPropose, IsClassify
  <2>2. PICK results, carry, dedup :
           /\ carry \subseteq DOMAIN tasks
           /\ \/ \E items : run' = [run EXCEPT !.phase = "items", !.todo = <<>>, !.items = items]
              \/ run' = [run EXCEPT !.phase = "items", !.steps = plan("propose", executive),
                                    !.read = [dedup |-> dedup, carry |-> carry,
                                              week |-> NonTerminal(week_tasks("this")),
                                              gaps |-> gap_directions \ dedup.directions,
                                              results |-> results]]
    <3>1. carry_reflex(previous_open_week) \ run.read.dedup.carry \subseteq DOMAIN tasks
      BY DEF carry_reflex, previous_open_week, week_tasks
    <3> QED BY <1>4, <3>1 DEF run_propose
  <2>3. CASE \E items : run' = [run EXCEPT !.phase = "items", !.todo = <<>>, !.items = items]
    <3>1. run'.todo = <<>>
      BY <1>0, <2>3 DEF LadderType
    <3> QED BY <2>1, <3>1
  <2> DEFINE read == [dedup |-> dedup, carry |-> carry, week |-> NonTerminal(week_tasks("this")),
                      gaps |-> gap_directions \ dedup.directions, results |-> results]
  <2>4. CASE run' = [run EXCEPT !.phase = "items", !.steps = plan("propose", executive), !.read = read]
    <3>1. /\ read = [dedup |-> read.dedup, carry |-> read.carry, week |-> read.week,
                     gaps |-> read.gaps, results |-> read.results]
          /\ read.carry = carry /\ read.week = NonTerminal(week_tasks("this"))
          /\ read.gaps = gap_directions \ dedup.directions
      OBVIOUS
    <3> HIDE DEF read
    <3>2. run'.read = read
      BY <1>0, <2>4 DEF LadderType
    <3>3. read.carry \subseteq DOMAIN tasks /\ read.week \subseteq DOMAIN tasks /\ read.gaps \subseteq world.gaps
      BY <1>0, <2>2, <3>1 DEF NonTerminal, week_tasks, gap_directions
    <3> QED BY <2>1, <3>1, <3>2, <3>3
  <2> QED BY <2>2, <2>3, <2>4
<1> QED BY <1>1, <1>2, <1>3, <1>4 DEF SetsOut

\* Every step keeps what a run relies on of what it has read.
LEMMA ReadStep ==
    ASSUME StoreType, LadderInv, ReadInv, [Next]_vars
    PROVE  ReadInv'
<1>0. /\ StoreType' /\ world' = world /\ clock <= clock' /\ DOMAIN tasks \subseteq DOMAIN tasks'
      /\ (IsClassify' <=> IsClassify) /\ (IsPropose' <=> IsPropose) /\ ~(IsPropose /\ IsClassify)
  BY StoreStep DEF IsClassify, IsPropose
<1>1. clock \in Nat /\ clock' \in Nat
  BY <1>0 DEF StoreType
<1>2. Standing /\ (Decided => run.phase = "items" /\ run.todo # <<>>)
  BY DEF LadderInv, Standing, Decided
<1>3. CASE Stays
  <2>1. Decided' => MayDecide(item.value)' /\ Decided /\ item' = item
    BY <1>0, <1>3 DEF Stays, ReadInv, MayDecide, Decided
  <2>2. item'.phase = "submitting" => (item.at \in DOMAIN Attempts)'
    BY <1>3, <2>1 DEF Stays, ReadInv, Decided, Attempts
  <2> QED BY <1>0, <1>1, <1>3, <2>1, <2>2 DEF Stays, ReadInv
<1>4. CASE Decides
  <2>1. run' = run /\ MayDecide(item.value)' /\ item'.phase = "produced"
    BY <1>0, <1>4 DEF Decides, MayDecide
  <2> QED BY <1>0, <1>1, <2>1 DEF ReadInv
<1>5. CASE SetsOut
  <2>1. item'.phase = "step"
    BY <1>5 DEF SetsOut
  <2> QED BY <1>0, <1>1, <1>5, <2>1, SetsOutReads DEF ReadInv, Decided
<1>6. CASE GoesOn
  <2>1. run'.phase = run.phase /\ run'.read = run.read /\ item'.phase = "step" /\ run.todo # <<>>
    BY <1>6 DEF GoesOn
  <2> QED BY <1>0, <1>1, <2>1 DEF ReadInv, Decided
<1>7. CASE Submits
  <2>0. IsPropose /\ ~IsClassify /\ Decided
    BY <1>0, <1>7 DEF Submits
  <2>1. run.read = [dedup |-> run.read.dedup, carry |-> run.read.carry, week |-> run.read.week,
                    gaps |-> run.read.gaps, results |-> run.read.results]
    BY <1>2, <2>0 DEF ReadInv
  <2>2. PICK results : run'.read = [run.read EXCEPT !.results = results]
    <3>1. run.read = [run.read EXCEPT !.results = run.read.results]
      BY <2>1
    <3> QED BY <1>7, <3>1 DEF Submits
  <2>3. run'.read = [dedup |-> run.read.dedup, carry |-> run.read.carry, week |-> run.read.week,
                     gaps |-> run.read.gaps, results |-> results]
    BY <2>1, <2>2
  <2>4. /\ run'.read.dedup = run.read.dedup /\ run'.read.carry = run.read.carry
        /\ run'.read.week = run.read.week /\ run'.read.gaps = run.read.gaps
        /\ run'.read = [dedup |-> run'.read.dedup, carry |-> run'.read.carry, week |-> run'.read.week,
                        gaps |-> run'.read.gaps, results |-> run'.read.results]
    BY <2>3
  <2>5. item'.value = item.value /\ item'.at \in DOMAIN Attempts /\ run'.phase = run.phase /\ run'.todo = run.todo
    BY <1>7 DEF Submits
  <2>6. (item.at \in DOMAIN Attempts)'
    BY <2>4, <2>5 DEF Attempts
  <2>7. MayDecide(item.value)'
    BY <1>0, <2>0, <2>4, <2>5 DEF ReadInv, MayDecide
  <2> QED BY <1>0, <1>2, <2>0, <2>4, <2>5, <2>6, <2>7 DEF ReadInv
<1>8. CASE Leaves
  BY <1>8 DEF Leaves, ReadInv, Decided
<1> QED BY <1>3, <1>4, <1>5, <1>6, <1>7, <1>8, RunMoves

-----------------------------------------------------------------------------
(* The call log: verdicts *)

\* The first states.
LEMMA InitType ==
    ASSUME Init
    PROVE  StoreType /\ LadderInv /\ ReadInv
<1>0. AiPortInit /\ LadderInit
  BY DEF Init
<1>1. /\ world \in Worlds /\ clock = 1 /\ directions = [i \in 1..world.born |-> 0]
      /\ tasks = [i \in 1..Len(world.tasks) |-> NewTask(world.tasks[i], "planned")]
      /\ weeks = [w \in {"prev", "this"} |-> TRUE] /\ gaps = world.gaps /\ proposals = <<>>
  BY <1>0 DEF AiPortInit
<1>2. world.born \in Nat /\ world.tasks \in Seq({None, "prev", "this"})
  BY <1>1, AiPortAssumption
<1>3. StoreType
  <2>1. directions \in Seq(Nat)
    BY <1>1, <1>2
  <2>2. \A i \in 1..Len(world.tasks) : NewTask(world.tasks[i], "planned") \in TaskRow
    <3>1. \A i \in 1..Len(world.tasks) : world.tasks[i] \in {None, "prev", "this"}
      BY <1>2
    <3> QED BY <1>1, <3>1 DEF NewTask, TaskRow
  <2>3. tasks \in Seq(TaskRow)
    BY <1>1, <1>2, <2>2
  <2> QED BY <1>1, <2>1, <2>3 DEF StoreType
<1>4. run = NoRun /\ st = RunState /\ item = AtTop /\ calls = <<>>
  BY <1>0 DEF LadderInit
<1>5. LadderInv
  <2>1. /\ item.phase = "step" /\ item.at = 1 /\ item.failed_from = None
        /\ item = [phase |-> item.phase, at |-> item.at, failed_from |-> item.failed_from,
                   deterministic |-> item.deterministic, value |-> item.value, row |-> item.row]
    BY <1>4 DEF AtTop
  <2>2. st \in RunStates /\ ~st.aborted /\ st.calls_left = MaxModelCalls
    BY <1>4, LadderAssumption DEF RunState, RunStates
  <2>3. /\ run.phase = "idle" /\ run.todo = <<>>
        /\ run = [phase |-> run.phase, steps |-> run.steps, todo |-> run.todo, read |-> run.read,
                  asked |-> run.asked, items |-> run.items, last |-> run.last]
    BY <1>4 DEF NoRun
  <2>4. LadderType
    BY <1>4, <2>1, <2>2, <2>3 DEF LadderType, RunStates
  <2>5. Standing /\ Distinct /\ PastCalls
    BY <1>4, <2>1, <2>2, <2>3 DEF Standing, Decided, Distinct, PastCalls, AllPast
  <2>6. Budget
    BY <1>4, <2>1, <2>2, ChargedNil, LadderAssumption DEF Budget, Flying, InFlight
  <2> QED BY <1>4, <2>4, <2>5, <2>6, ChargedNil, VerdictsAre DEF LadderInv
<1>6. ReadInv
  BY <1>4 DEF NoRun, AtTop, ReadInv, Decided
<1> QED BY <1>3, <1>5, <1>6

BaseInv == StoreType /\ LadderInv /\ ReadInv

\* The part of the invariant the others rest on.
LEMMA BaseInvariant == Spec => []BaseInv
<1>1. Init => BaseInv
  BY InitType DEF BaseInv
<1>2. BaseInv /\ [Next]_vars => BaseInv'
  BY StoreStep, LadderStep, ReadStep DEF BaseInv
<1> QED BY <1>1, <1>2, PTL DEF Spec

\* Whatever the failures and the order of a run's items, in every set of worlds
\* and with every call budget: a failure that ends the generation is the last
\* thing asked or decided, after one that says the kernel is full no model is
\* asked, an engine whose circuit opened is not asked again, and each call that
\* is charged is in the log exactly once (ai/ladder.rs, run_item and RunState).
THEOREM VerdictsInvariant == Spec => []VerdictsHeld
<1>1. BaseInv => VerdictsHeld
  BY DEF BaseInv, LadderInv
<1> QED BY <1>1, BaseInvariant, PTL

-----------------------------------------------------------------------------
(* Parked tasks *)

\* Directions are only added, each with the second it is created in.
LEMMA DirectionsGrow ==
    ASSUME BaseInv, [Next]_vars
    PROVE  /\ DOMAIN directions \subseteq DOMAIN directions'
           /\ \A d \in DOMAIN directions : directions'[d] = directions[d]
           /\ \A d \in DOMAIN directions' : d \notin DOMAIN directions => directions'[d] = clock
<1>1. CASE directions' = directions
  BY <1>1
<1>2. CASE create_direction
  <2>1. directions' = Append(directions, clock) /\ directions \in Seq(Nat) /\ clock \in Nat
    BY <1>2 DEF create_direction, BaseInv, StoreType
  <2> QED BY <2>1
<1> QED BY <1>1, <1>2
       DEF Next, Work, vars, store, StoreNext, Tick, put_ai_settings, finish_task, close_week, shift_gaps,
           submit_direct, apply_proposal, reject_proposal, ClassifyNext, trigger_classify,
           trigger_classify_auto, run_selects, run_dedups, run_starts, run_reads, no_candidates,
           submit_direction_assignment, unsure, no_decision, ProposeNext, trigger_propose, dedup_run,
           run_propose, propose_decide, submit_one, propose_nothing

\* A task keeps its place, its evaluation and its Direction when others act on
\* the store, unless an assignment is accepted that may move it; a new task has
\* none of the three.
LEMMA OthersMove ==
    ASSUME BaseInv, StoreNext
    PROVE  /\ \A t \in DOMAIN tasks :
                /\ tasks'[t].evaluated = tasks[t].evaluated
                /\ \/ tasks'[t].direction = tasks[t].direction /\ tasks'[t].entered = tasks[t].entered
                   \/ tasks'[t].direction = Triage /\ tasks'[t].entered = clock /\ tasks[t].direction # Triage
                   \/ tasks'[t].direction # Triage /\ tasks'[t].entered = None
           /\ \A t \in DOMAIN tasks' : t \notin DOMAIN tasks =>
                tasks'[t].direction = None /\ tasks'[t].evaluated = None /\ tasks'[t].entered = None
<1>0. StoreType /\ tasks \in Seq(TaskRow) /\ proposals \in Seq(ProposalRow)
  BY DEF BaseInv, StoreType
<1>1. CASE tasks' = tasks
  BY <1>1
<1>2. CASE \E t \in DOMAIN tasks : finish_task(t)
  <2>1. PICK f \in DOMAIN tasks :
           tasks' = [tasks EXCEPT ![f] = [tasks[f] EXCEPT !.status = "done", !.edited = clock]]
    BY <1>2 DEF finish_task
  <2>2. tasks[f] \in TaskRow
    BY <1>0
  <2> DEFINE row == [tasks[f] EXCEPT !.status = "done", !.edited = clock]
  <2>3. /\ row.direction = tasks[f].direction /\ row.entered = tasks[f].entered
        /\ row.evaluated = tasks[f].evaluated
    BY <2>2 DEF TaskRow
  <2> HIDE DEF row
  <2>4. tasks' = [tasks EXCEPT ![f] = row]
    BY <2>1 DEF row
  <2> QED BY <1>0, <2>3, <2>4
<1>3. CASE \E i \in DOMAIN proposals : apply_proposal(i)
  <2>1. PICK i \in DOMAIN proposals : apply_proposal(i)
    BY <1>3
  <2> DEFINE p == proposals[i]
  <2>2. p \in ProposalRow /\ tasks' = Applied(p) /\ dry_run(p)
    BY <1>0, <2>1 DEF apply_proposal
  <2> HIDE DEF p
  <2>3. /\ \A t \in DOMAIN tasks : tasks'[t] = After(p, t)
        /\ \A t \in DOMAIN tasks' : t \notin DOMAIN tasks => tasks'[t] = NewTask("this", "planned")
    BY <1>0, <2>2, AppliedIs
  <2>4. ASSUME NEW t \in DOMAIN tasks
        PROVE  /\ After(p, t).evaluated = tasks[t].evaluated
               /\ \/ After(p, t).direction = tasks[t].direction /\ After(p, t).entered = tasks[t].entered
                  \/ After(p, t).direction = Triage /\ After(p, t).entered = clock /\ tasks[t].direction # Triage
                  \/ After(p, t).direction # Triage /\ After(p, t).entered = None
    <3>1. tasks[t] \in TaskRow
      BY <1>0
    <3>2. CASE t \notin p.what \/ p.kind \notin {"assign", "carry"}
      BY <3>2 DEF After
    <3>3. CASE t \in p.what /\ p.kind = "carry"
      <4>1. After(p, t) = [tasks[t] EXCEPT !.status = "carried_over", !.edited = clock]
        BY <3>3 DEF After
      <4> QED BY <3>1, <4>1 DEF TaskRow
    <3>4. CASE t \in p.what /\ p.kind = "assign" /\ p.to = Triage
      <4>1. After(p, t) = [tasks[t] EXCEPT !.direction = Triage, !.via = p.source, !.entered = clock]
        BY <3>4 DEF After
      <4>2. MayAssign(t, Triage, p.source)
        BY <2>2, <3>4 DEF dry_run
      <4>3. tasks[t].direction # Triage
        BY <4>2, AiPortAssumption DEF MayAssign
      <4> QED BY <3>1, <4>1, <4>3 DEF TaskRow
    <3>5. CASE t \in p.what /\ p.kind = "assign" /\ p.to # Triage
      <4>1. After(p, t) = [tasks[t] EXCEPT !.direction = p.to, !.via = None, !.entered = None]
        BY <3>5 DEF After
      <4> QED BY <3>1, <3>5, <4>1 DEF TaskRow
    <3> QED BY <3>2, <3>3, <3>4, <3>5
  <2> QED BY <2>3, <2>4 DEF NewTask
<1> QED BY <1>1, <1>2, <1>3
       DEF StoreNext, Tick, create_direction, put_ai_settings, close_week, shift_gaps, submit_direct,
           reject_proposal

\* What others do is watched.
LEMMA WatchKeeps ==
    ASSUME BaseInv, MissedInv, StoreNext, Watch,
           DOMAIN directions \subseteq DOMAIN directions',
           \A d \in DOMAIN directions : directions'[d] = directions[d],
           \A d \in DOMAIN directions' : d \notin DOMAIN directions => directions'[d] = clock,
           clock <= clock', DOMAIN tasks \subseteq DOMAIN tasks', clock' \in Nat, clock \in Nat
    PROVE  /\ DOMAIN unseen' = DOMAIN tasks'
           /\ \A t \in DOMAIN tasks' : Misses(tasks'[t], unseen'[t], directions', clock')
<1>1. /\ DOMAIN unseen' = DOMAIN tasks'
      /\ \A t \in DOMAIN tasks' : unseen'[t] = IF tasks'[t].direction # Triage THEN {}
                                               ELSE unseen[t] \cup (DOMAIN directions' \ DOMAIN directions)
  BY DEF Watch
<1>2. ASSUME NEW t \in DOMAIN tasks', t \notin DOMAIN tasks
      PROVE  Misses(tasks'[t], unseen'[t], directions', clock')
  <2>1. tasks'[t].direction = None /\ tasks'[t].evaluated = None /\ tasks'[t].entered = None
    BY <1>2, OthersMove
  <2>2. unseen'[t] = {}
    BY <1>1, <2>1, AiPortAssumption
  <2> QED BY <2>1, <2>2 DEF Misses
<1>3. ASSUME NEW t \in DOMAIN tasks
      PROVE  Misses(tasks'[t], unseen'[t], directions', clock')
  <2>0. t \in DOMAIN tasks'
    OBVIOUS
  <2>1. Misses(tasks[t], unseen[t], directions, clock)
    BY DEF MissedInv
  <2>2. /\ tasks[t].evaluated \in Nat \cup {None} /\ tasks[t].entered \in Nat \cup {None}
        /\ directions \in Seq(Nat)
    <3>1. tasks \in Seq(TaskRow) /\ directions \in Seq(Nat)
      BY DEF BaseInv, StoreType
    <3>2. tasks[t] \in TaskRow
      BY <3>1
    <3> QED BY <3>1, <3>2 DEF TaskRow
  <2>3. \A d \in DOMAIN directions : directions[d] \in Nat
    BY <2>2
  <2>4. tasks'[t].evaluated = tasks[t].evaluated
    BY OthersMove
  <2>5. CASE tasks'[t].direction # Triage /\ tasks'[t].entered = None
    <3>1. unseen'[t] = {}
      BY <1>1, <2>0, <2>5
    <3> QED BY <2>1, <2>2, <2>4, <2>5, <3>1 DEF Misses
  <2>6. CASE tasks'[t].direction = Triage /\ tasks'[t].entered = clock /\ tasks[t].direction # Triage
    <3>1. unseen'[t] = DOMAIN directions' \ DOMAIN directions
      BY <1>1, <2>0, <2>1, <2>6 DEF Misses
    <3> QED BY <2>1, <2>2, <2>4, <2>6, <3>1 DEF Misses
  <2>7. CASE tasks'[t].direction = tasks[t].direction /\ tasks'[t].entered = tasks[t].entered
    <3>1. unseen'[t] \subseteq unseen[t] \cup (DOMAIN directions' \ DOMAIN directions)
          /\ (tasks'[t].direction # Triage => unseen'[t] = {})
      BY <1>1, <2>0
    <3>2. \A d \in unseen'[t] : d \in unseen[t] \/ directions'[d] = clock
      BY <3>1
    <3>3. unseen[t] \subseteq DOMAIN directions /\ unseen'[t] \subseteq DOMAIN directions'
      BY <2>1, <3>1 DEF Misses
    <3>4. \A d \in unseen'[t] : \A at \in Nat :
              at <= clock /\ (\A e \in unseen[t] : at <= directions[e]) => at <= directions'[d]
      BY <3>2, <3>3
    <3>5. ASSUME NEW at \in {tasks[t].evaluated, tasks[t].entered}, at # None
          PROVE  at <= clock' /\ \A d \in unseen'[t] : at <= directions'[d]
      <4>1. at \in Nat /\ at <= clock /\ \A e \in unseen[t] : at <= directions[e]
        BY <2>1, <2>2, <3>5 DEF Misses
      <4> QED BY <3>4, <4>1
    <3> QED BY <2>4, <2>7, <3>1, <3>3, <3>5 DEF Misses
  <2> QED BY <2>5, <2>6, <2>7, OthersMove
<1> QED BY <1>1, <1>2, <1>3

\* An evaluation is stamped no later than any Direction it was not offered.
LEMMA EvalKeeps ==
    ASSUME BaseInv, MissedInv, IsClassify, run.phase = "items", NEW looked, record_classify_eval(looked)
    PROVE  /\ DOMAIN unseen' = DOMAIN tasks'
           /\ \A t \in DOMAIN tasks' : Misses(tasks'[t], unseen'[t], directions, clock)
<1>0. tasks \in Seq(TaskRow) /\ directions \in Seq(Nat) /\ clock \in Nat /\ DOMAIN unseen = DOMAIN tasks
  BY DEF BaseInv, StoreType, MissedInv
<1>1. run.read.started \in Nat /\ run.read.started <= clock
  BY DEF BaseInv, ReadInv
<1>2. CASE tasks' = tasks /\ unseen' = unseen
  BY <1>2 DEF MissedInv
<1> DEFINE row == [tasks[Task] EXCEPT !.evaluated = run.read.started]
<1> DEFINE left == unseen[Task] \ run.read.candidates
<1>3. CASE tasks' = [tasks EXCEPT ![Task] = row] /\ unseen' = [unseen EXCEPT ![Task] = left]
  <2>1. ASSUME Task \in DOMAIN tasks PROVE Misses(row, left, directions, clock)
    <3>1. tasks[Task] \in TaskRow /\ Misses(tasks[Task], unseen[Task], directions, clock)
      BY <1>0, <2>1 DEF MissedInv
    <3>2. /\ row.direction = tasks[Task].direction /\ row.entered = tasks[Task].entered
          /\ row.evaluated = run.read.started
      BY <3>1 DEF TaskRow
    <3>3. left \subseteq unseen[Task] /\ \A d \in left : run.read.started <= directions[d]
      BY <3>1 DEF MissedInv, Misses
    <3> HIDE DEF row, left
    <3> QED BY <1>1, <3>1, <3>2, <3>3 DEF Misses
  <2> HIDE DEF row, left
  <2>2. DOMAIN tasks' = DOMAIN tasks /\ DOMAIN unseen' = DOMAIN tasks
    BY <1>0, <1>3
  <2>3. ASSUME NEW t \in DOMAIN tasks PROVE Misses(tasks'[t], unseen'[t], directions, clock)
    <3>1. CASE t = Task
      <4>1. tasks'[t] = row /\ unseen'[t] = left
        BY <1>0, <1>3, <3>1
      <4> QED BY <2>1, <3>1, <4>1
    <3>2. CASE t # Task
      <4>1. tasks'[t] = tasks[t] /\ unseen'[t] = unseen[t]
        BY <1>0, <1>3, <3>2
      <4> QED BY <4>1 DEF MissedInv
    <3> QED BY <3>1, <3>2
  <2> QED BY <2>2, <2>3
<1> QED BY <1>2, <1>3 DEF record_classify_eval, evaluated_at

\* A Direction that a run was not offered is no older than the run.
LEMMA OfferedKeeps ==
    ASSUME BaseInv, MissedInv, [Next]_vars, IsClassify', run'.phase = "items",
           NEW d \in DOMAIN directions', d \notin run'.read.candidates
    PROVE  run'.read.started <= directions'[d]
<1>0. /\ \A e \in DOMAIN directions : directions'[e] = directions[e]
      /\ d \notin DOMAIN directions => directions'[d] = clock
  BY DirectionsGrow
<1>1. StoreType /\ LadderInv /\ ReadInv /\ LadderType
  BY DEF BaseInv, LadderInv
<1>2. IsClassify /\ ~IsPropose
  <2>1. world' = world
    BY <1>1, StoreStep
  <2> QED BY <2>1 DEF IsClassify, IsPropose
<1>3. CASE run.phase = "items" /\ run'.read = run.read
  <2>1. run.read.started <= clock
    BY <1>1, <1>2, <1>3 DEF ReadInv
  <2> QED BY <1>0, <1>2, <1>3, <2>1 DEF MissedInv
<1>4. CASE run_reads
  <2>1. run' = [run EXCEPT !.phase = "items", !.steps = plan("classify", executive),
                           !.read = [run.read EXCEPT !.candidates = direction_candidates]]
        /\ directions' = directions /\ run.phase = "started"
    BY <1>4 DEF run_reads, store
  <2>2. run.read = [started |-> run.read.started, candidates |-> run.read.candidates]
    BY <1>1, <1>2, <2>1 DEF ReadInv
  <2> DEFINE read == [run.read EXCEPT !.candidates = direction_candidates]
  <2>3. read.candidates = DOMAIN directions
    BY <2>2 DEF direction_candidates
  <2> HIDE DEF read
  <2>4. run'.read = read
    BY <1>1, <2>1 DEF LadderType, read
  <2> QED BY <2>1, <2>3, <2>4
<1>5. CASE SetsOut /\ ~run_reads
  <2>1. run.phase # "items" /\ LadderType
    BY <1>1, <1>5 DEF SetsOut
  <2>2. \/ \E x, y : run' \in {[NoRun EXCEPT !.phase = "targets", !.todo = x, !.asked = y],
                               [run EXCEPT !.phase = "targets", !.todo = x, !.asked = y],
                               [run EXCEPT !.phase = "selected", !.todo = x, !.items = y],
                               [run EXCEPT !.phase = "started", !.read = x]}
        \/ run' = [NoRun EXCEPT !.phase = "auto"]
    BY <1>2, <1>5 DEF SetsOut, trigger_classify, trigger_classify_auto, run_selects, run_dedups, run_starts,
                      trigger_propose, dedup_run, run_propose
  <2>3. run'.phase # "items"
    BY <2>1, <2>2 DEF LadderType, NoRun
  <2> QED BY <2>3
<1>6. CASE Stays \/ Decides \/ GoesOn
  <2>1. run.phase = "items" /\ run'.read = run.read
    BY <1>6 DEF Stays, Decides, GoesOn
  <2> QED BY <1>3, <2>1
<1>7. ~Submits /\ ~Leaves
  BY <1>2 DEF Submits, Leaves
<1> QED BY <1>1, <1>4, <1>5, <1>6, <1>7, RunMoves

\* Every step keeps what is known of what parked tasks have missed.
LEMMA MissedStep ==
    ASSUME BaseInv, MissedInv, [Next]_vars
    PROVE  MissedInv'
<1>0. /\ StoreType /\ LadderInv /\ ReadInv /\ Standing
      /\ StoreType' /\ world' = world /\ clock <= clock' /\ DOMAIN tasks \subseteq DOMAIN tasks'
  BY StoreStep DEF BaseInv, LadderInv
<1>1. /\ DOMAIN directions \subseteq DOMAIN directions'
      /\ \A d \in DOMAIN directions : directions'[d] = directions[d]
      /\ \A d \in DOMAIN directions' : d \notin DOMAIN directions => directions'[d] = clock
  BY DirectionsGrow
<1>2. clock \in Nat /\ clock' \in Nat /\ directions \in Seq(Nat)
  BY <1>0 DEF StoreType
<1>3. \A d \in DOMAIN directions' : directions'[d] <= clock'
  <2>1. ASSUME NEW d \in DOMAIN directions' PROVE directions'[d] <= clock'
    <3>1. CASE d \in DOMAIN directions
      <4>1. directions[d] <= clock /\ directions[d] \in Nat
        BY <1>2, <3>1 DEF MissedInv
      <4> QED BY <1>0, <1>1, <1>2, <3>1, <4>1
    <3>2. CASE d \notin DOMAIN directions
      BY <1>0, <1>1, <1>2, <3>2
    <3> QED BY <3>1, <3>2
  <2> QED BY <2>1
<1>4. /\ DOMAIN unseen' = DOMAIN tasks'
      /\ \A t \in DOMAIN tasks' : Misses(tasks'[t], unseen'[t], directions', clock')
  <2>1. CASE StoreNext /\ Watch
    BY <1>0, <1>1, <1>2, <2>1, WatchKeeps
  <2>2. CASE UNCHANGED <<clock, directions, tasks, unseen>>
    BY <2>2 DEF MissedInv
  <2>3. CASE \/ unsure \/ no_decision
             \/ \E answer \in {"ok", "rejected_by_precheck", "submit_store_error"} :
                   submit_direction_assignment(answer)
    <3>1. IsClassify /\ run.phase = "items" /\ UNCHANGED <<clock, directions>>
      BY <1>0, <2>3 DEF unsure, no_decision, submit_direction_assignment, Standing
    <3>2. PICK looked : record_classify_eval(looked)
      BY <2>3 DEF unsure, no_decision, submit_direction_assignment
    <3> QED BY <3>1, <3>2, EvalKeeps
  <2> QED BY <2>1, <2>2, <2>3
         DEF Next, Work, vars, store, ClassifyNext, trigger_classify,
             trigger_classify_auto, run_selects, run_dedups, run_starts, run_reads, no_candidates,
             ProposeNext, trigger_propose, dedup_run, run_propose, propose_decide, submit_one, propose_nothing
<1>5. IsClassify' /\ run'.phase = "items" =>
          \A d \in DOMAIN directions' \ run'.read.candidates : run'.read.started <= directions'[d]
  BY OfferedKeeps
<1> QED BY <1>3, <1>4, <1>5 DEF MissedInv

\* The largest of a set of numbers with a bound.
LEMMA BoundedMax ==
    ASSUME NEW n \in Nat, NEW S, S # {}, \A x \in S : x \in Nat /\ x <= n
    PROVE  Max(S) \in S /\ \A x \in S : x <= Max(S)
<1> DEFINE T == {n - x : x \in S}
<1>1. T \subseteq Nat /\ T # {}
  OBVIOUS
<1>2. PICK m \in T : \A k \in T : m <= k
  BY <1>1, Kept!Least
<1>3. PICK x \in S : m = n - x
  OBVIOUS
<1>4. \A y \in S : n - y \in T
  OBVIOUS
<1>5. ASSUME NEW y \in S PROVE x >= y
  <2>1. m <= n - y /\ x \in Nat /\ y \in Nat
    BY <1>2, <1>4
  <2> HIDE DEF T
  <2> QED BY <1>3, <2>1
<1>6. \E z \in S : \A y \in S : z >= y
  BY <1>5
<1>7. Max(S) \in S /\ \A y \in S : Max(S) >= y
  BY <1>6 DEF Max
<1> QED BY <1>7

\* A Direction that a parked task has missed opens the gate for it.
LEMMA MissedOpens ==
    ASSUME BaseInv, MissedInv
    PROVE  NoDirectionMissed
<1> SUFFICES ASSUME NEW t \in DOMAIN tasks, tasks[t].direction = Triage, tasks[t].via = "classify",
                    ~task_is_terminal(tasks[t].status), unseen[t] # {}
             PROVE  inbox_task(t)
  BY DEF NoDirectionMissed
<1>0. tasks \in Seq(TaskRow) /\ directions \in Seq(Nat) /\ clock \in Nat
  BY DEF BaseInv, StoreType
<1>1. PICK d \in unseen[t] : TRUE
  OBVIOUS
<1>2. Misses(tasks[t], unseen[t], directions, clock) /\ \A e \in DOMAIN directions : directions[e] <= clock
  BY DEF MissedInv
<1>3. tasks[t].evaluated \in Nat \cup {None} /\ tasks[t].entered \in Nat \cup {None}
  <2>1. tasks[t] \in TaskRow
    BY <1>0
  <2> QED BY <2>1 DEF TaskRow
<1>4. d \in DOMAIN directions /\ directions[d] \in Nat
  BY <1>0, <1>1, <1>2 DEF Misses
<1> DEFINE New == {0} \cup Range(directions)
<1> DEFINE Old == {0, tasks[t].evaluated, tasks[t].entered} \ {None}
<1>5. Max(New) \in Nat /\ directions[d] <= Max(New)
  <2>1. \A x \in New : x \in Nat /\ x <= clock
    BY <1>0, <1>2 DEF Range
  <2>2. directions[d] \in New /\ New # {}
    BY <1>4 DEF Range
  <2> HIDE DEF New
  <2>3. Max(New) \in New /\ \A x \in New : x <= Max(New)
    BY <1>0, <2>1, <2>2, BoundedMax
  <2> QED BY <2>1, <2>2, <2>3
<1>6. Max(Old) \in Nat /\ Max(Old) <= directions[d]
  <2>1. \A x \in Old : x \in Nat /\ x <= directions[d]
    BY <1>1, <1>2, <1>3, <1>4 DEF Misses
  <2>2. Old # {}
    <3>1. 0 # None
      BY AiPortAssumption
    <3>2. 0 \in Old
      BY <3>1
    <3> QED BY <3>2
  <2> HIDE DEF Old
  <2> QED BY <1>4, <2>1, <2>2, BoundedMax
<1>7. Max(New) >= Max(Old)
  <2> HIDE DEF New, Old
  <2> QED BY <1>4, <1>5, <1>6
<1> QED BY <1>7 DEF inbox_task, triage_retry_gate, max_eligible_direction_created_at

\* Whatever the order in which a task is parked, evaluated and Directions are
\* created, and however many of them share a second: a Direction that no
\* evaluation of the task was offered keeps it in the inbox (store/ai_port.rs,
\* the triage retry gate).
THEOREM NoDirectionMissedInvariant == Spec => []NoDirectionMissed
<1>1. Init => MissedInv
  <2> SUFFICES ASSUME Init PROVE MissedInv
    OBVIOUS
  <2>1. /\ world \in Worlds /\ clock = 1 /\ directions = [i \in 1..world.born |-> 0]
        /\ tasks = [i \in 1..Len(world.tasks) |-> NewTask(world.tasks[i], "planned")]
        /\ unseen = [t \in 1..Len(world.tasks) |-> {}] /\ run = NoRun
    BY DEF Init, AiPortInit, ClassifyInit, LadderInit
  <2>2. run.phase = "idle"
    BY <2>1 DEF NoRun
  <2>3. \A t \in DOMAIN tasks : Misses(tasks[t], unseen[t], directions, clock)
    BY <2>1 DEF Misses, NewTask
  <2>4. \A d \in DOMAIN directions : directions[d] <= clock
    BY <2>1
  <2>5. DOMAIN unseen = DOMAIN tasks
    BY <2>1
  <2> QED BY <2>2, <2>3, <2>4, <2>5 DEF MissedInv
<1>2. BaseInv /\ MissedInv /\ [Next]_vars => MissedInv'
  BY MissedStep
<1>3. BaseInv /\ MissedInv => NoDirectionMissed
  BY MissedOpens
<1> QED BY <1>1, <1>2, <1>3, BaseInvariant, PTL DEF Spec

-----------------------------------------------------------------------------
(* Live proposals *)

\* A week that is closed stays closed.
LEMMA WeeksClose ==
    ASSUME BaseInv, [Next]_vars, NEW w \in {"prev", "this"}, weeks'[w]
    PROVE  weeks[w]
<1>1. CASE weeks' = weeks
  BY <1>1
<1>2. CASE \E x \in DOMAIN weeks : close_week(x)
  <2>1. PICK x \in DOMAIN weeks : weeks' = [weeks EXCEPT ![x] = FALSE]
    BY <1>2 DEF close_week
  <2>2. weeks \in [{"prev", "this"} -> BOOLEAN]
    BY DEF BaseInv, StoreType
  <2> QED BY <2>1, <2>2
<1> QED BY <1>1, <1>2
       DEF Next, Work, vars, store, StoreNext, Tick, create_direction, put_ai_settings, finish_task, shift_gaps,
           submit_direct, apply_proposal, reject_proposal, ClassifyNext, trigger_classify,
           trigger_classify_auto, run_selects, run_dedups, run_starts, run_reads, no_candidates,
           submit_direction_assignment, unsure, no_decision, ProposeNext, trigger_propose, dedup_run,
           run_propose, propose_decide, submit_one, propose_nothing

\* A task may have become unfit for a proposal, never fit: of its old row and the new.
Settled(old, new) ==
    /\ new.week = old.week
    /\ new.status = "planned" => old.status = "planned"
    /\ \/ new.direction = old.direction /\ new.via = old.via
       \/ old.direction = None
       \/ new.direction = Filed

\* Acceptance leaves a task so.
LEMMA AfterSettles ==
    ASSUME BaseInv, NEW p \in ProposalRow, Known(p), dry_run(p), NEW t \in DOMAIN tasks
    PROVE  Settled(tasks[t], After(p, t))
<1>1. tasks[t] \in TaskRow
  BY DEF BaseInv, StoreType
<1>2. CASE t \notin p.what \/ p.kind \notin {"assign", "carry"}
  BY <1>2 DEF After, Settled
<1>3. CASE t \in p.what /\ p.kind = "carry"
  <2>1. After(p, t) = [tasks[t] EXCEPT !.status = "carried_over", !.edited = clock]
    BY <1>3 DEF After
  <2> QED BY <1>1, <2>1 DEF TaskRow, Settled
<1>4. CASE t \in p.what /\ p.kind = "assign"
  <2> DEFINE via == IF p.to = Triage THEN p.source ELSE None
  <2> DEFINE entered == IF p.to = Triage THEN clock ELSE None
  <2>1. After(p, t) = [tasks[t] EXCEPT !.direction = p.to, !.via = via, !.entered = entered]
    BY <1>4 DEF After
  <2> HIDE DEF via, entered
  <2>2. MayAssign(t, p.to, p.source) /\ p.to \in {Triage, Filed}
    BY <1>4 DEF dry_run, Known
  <2>3. tasks[t].direction = None \/ p.to = Filed
    BY <2>2 DEF MayAssign
  <2>4. /\ After(p, t).direction = p.to /\ After(p, t).status = tasks[t].status
        /\ After(p, t).week = tasks[t].week
    BY <1>1, <2>1 DEF TaskRow
  <2> QED BY <2>3, <2>4 DEF Settled
<1> QED BY <1>2, <1>3, <1>4

\* So does every step.
LEMMA TasksSettle ==
    ASSUME BaseInv, ProposalsKnown, [Next]_vars, NEW t \in DOMAIN tasks
    PROVE  Settled(tasks[t], tasks'[t])
<1>0. StoreType /\ tasks \in Seq(TaskRow) /\ proposals \in Seq(ProposalRow) /\ tasks[t] \in TaskRow
  BY DEF BaseInv, StoreType
<1>1. CASE tasks' = tasks
  BY <1>1 DEF Settled
<1>2. CASE \E f \in DOMAIN tasks : finish_task(f)
  <2>1. PICK f \in DOMAIN tasks :
           tasks' = [tasks EXCEPT ![f] = [tasks[f] EXCEPT !.status = "done", !.edited = clock]]
    BY <1>2 DEF finish_task
  <2> DEFINE row == [tasks[f] EXCEPT !.status = "done", !.edited = clock]
  <2>2. Settled(tasks[f], row)
    BY <1>0, <2>1 DEF TaskRow, Settled
  <2> HIDE DEF row
  <2>3. tasks' = [tasks EXCEPT ![f] = row]
    BY <2>1 DEF row
  <2>4. tasks'[t] = tasks[t] \/ (t = f /\ tasks'[t] = row)
    BY <1>0, <2>3
  <2> QED BY <2>2, <2>4 DEF Settled
<1>3. CASE \E i \in DOMAIN proposals : apply_proposal(i)
  <2>1. PICK i \in DOMAIN proposals : apply_proposal(i)
    BY <1>3
  <2>2. proposals[i] \in ProposalRow /\ tasks' = Applied(proposals[i]) /\ dry_run(proposals[i])
        /\ Known(proposals[i])
    BY <1>0, <2>1 DEF apply_proposal, ProposalsKnown
  <2>3. tasks'[t] = After(proposals[i], t)
    BY <1>0, <2>2, AppliedIs
  <2> QED BY <2>2, <2>3, AfterSettles
<1>4. CASE \E looked : record_classify_eval(looked)
  <2>1. \/ tasks' = tasks
        \/ tasks' = [tasks EXCEPT ![Task] = [tasks[Task] EXCEPT !.evaluated = run.read.started]]
    BY <1>4 DEF record_classify_eval, evaluated_at
  <2> DEFINE row == [tasks[Task] EXCEPT !.evaluated = run.read.started]
  <2>2. CASE tasks' = [tasks EXCEPT ![Task] = row]
    <3>1. Task = t => Settled(tasks[t], row)
      BY <1>0 DEF TaskRow, Settled
    <3> HIDE DEF row
    <3>2. tasks'[t] = tasks[t] \/ (t = Task /\ tasks'[t] = row)
      BY <1>0, <2>2
    <3> QED BY <3>1, <3>2 DEF Settled
  <2> QED BY <1>1, <2>1, <2>2
<1> QED BY <1>1, <1>2, <1>3, <1>4
       DEF Next, Work, vars, store, StoreNext, Tick, create_direction, put_ai_settings, shift_gaps, close_week,
           submit_direct, reject_proposal, ClassifyNext, trigger_classify,
           trigger_classify_auto, run_selects, run_dedups, run_starts, run_reads, no_candidates,
           submit_direction_assignment, unsure, no_decision, ProposeNext, trigger_propose, dedup_run,
           run_propose, propose_decide, submit_one, propose_nothing

\* A draft that a step adds to the table: the user's, or one of the run's.
AddsDirect(p) == p.source = "direct" /\ UNCHANGED ladder

AddsClassify(p) ==
    /\ IsClassify /\ item.phase = "produced" /\ run.phase = "items" /\ run.todo # <<>>
    /\ run'.todo = Tail(run.todo)
    /\ p.source = "classify" /\ p.kind = "assign" /\ p.what = {Task}

AddsPropose(p) ==
    /\ IsPropose /\ item.phase = "submitting" /\ p.source = "propose"
    /\ p.kind = "carry" => item.at = 1 /\ p.what = item.value.carry
    /\ GoesOn \/ Submits

\* A proposal never changes but in its status, and is added at the end.
LEMMA ProposalsGrow ==
    ASSUME BaseInv, LiveInv, [Next]_vars
    PROVE  /\ DOMAIN proposals \subseteq DOMAIN proposals'
           /\ \A i \in DOMAIN proposals :
                 /\ proposals'[i].source = proposals[i].source /\ proposals'[i].kind = proposals[i].kind
                 /\ proposals'[i].what = proposals[i].what /\ proposals'[i].to = proposals[i].to
                 /\ proposals'[i].status = "pending" => proposals[i].status = "pending"
           /\ \A i, j \in DOMAIN proposals' : i \notin DOMAIN proposals /\ j \notin DOMAIN proposals => i = j
           /\ \A i \in DOMAIN proposals' : i \notin DOMAIN proposals =>
                 /\ Known(proposals'[i])
                 /\ AddsDirect(proposals'[i]) \/ AddsClassify(proposals'[i]) \/ AddsPropose(proposals'[i])
<1>0. StoreType /\ LadderInv /\ ReadInv /\ Standing /\ proposals \in Seq(ProposalRow) /\ tasks \in Seq(TaskRow)
  BY DEF BaseInv, StoreType, LadderInv
<1>1. CASE proposals' = proposals
  BY <1>1
<1>2. CASE \E i \in DOMAIN proposals, s \in {"applied", "rejected"} :
              proposals' = [proposals EXCEPT ![i] = [proposals[i] EXCEPT !.status = s]]
  <2>1. PICK i \in DOMAIN proposals, s \in {"applied", "rejected"} :
           proposals' = [proposals EXCEPT ![i] = [proposals[i] EXCEPT !.status = s]]
    BY <1>2
  <2> DEFINE row == [proposals[i] EXCEPT !.status = s]
  <2>2. proposals[i] \in ProposalRow
    BY <1>0
  <2>3. /\ row.source = proposals[i].source /\ row.kind = proposals[i].kind /\ row.what = proposals[i].what
        /\ row.to = proposals[i].to /\ row.status = s
    BY <2>2 DEF ProposalRow
  <2>4. proposals' = [proposals EXCEPT ![i] = row]
    BY <2>1
  <2> HIDE DEF row
  <2>5. DOMAIN proposals' = DOMAIN proposals /\ \A j \in DOMAIN proposals :
            proposals'[j] = IF j = i THEN row ELSE proposals[j]
    BY <1>0, <2>4
  <2> QED BY <2>3, <2>5
<1>3. ASSUME NEW p \in ProposalRow, Known(p), proposals' = Append(proposals, p),
             AddsDirect(p) \/ AddsClassify(p) \/ AddsPropose(p)
      PROVE  /\ DOMAIN proposals \subseteq DOMAIN proposals'
             /\ \A i \in DOMAIN proposals : proposals'[i] = proposals[i]
             /\ \A i \in DOMAIN proposals' : i \notin DOMAIN proposals =>
                   i = Len(proposals) + 1 /\ proposals'[i] = p
  BY <1>0, <1>3
<1>4. CASE \E p \in ProposalRow : /\ Known(p) /\ proposals' = Append(proposals, p)
                                  /\ AddsDirect(p) \/ AddsClassify(p) \/ AddsPropose(p)
  <2>1. PICK p \in ProposalRow : /\ Known(p) /\ proposals' = Append(proposals, p)
                                 /\ AddsDirect(p) \/ AddsClassify(p) \/ AddsPropose(p)
    BY <1>4
  <2>2. /\ DOMAIN proposals \subseteq DOMAIN proposals'
        /\ \A i \in DOMAIN proposals : proposals'[i] = proposals[i]
        /\ \A i \in DOMAIN proposals' : i \notin DOMAIN proposals =>
              i = Len(proposals) + 1 /\ proposals'[i] = p
    BY <1>3, <2>1
  <2> QED BY <2>1, <2>2
<1>5. CASE StoreNext /\ UNCHANGED ladder
  <2>1. CASE \E t \in DOMAIN tasks, to \in {Triage, Filed} : submit_direct(t, to)
    <3>1. PICK t \in DOMAIN tasks, to \in {Triage, Filed} : submit_direct(t, to)
      BY <2>1
    <3> DEFINE p == Draft("direct", "assign", {t}, to)
    <3>2. proposals' = Append(proposals, p)
      BY <3>1 DEF submit_direct
    <3>3. Known(p) /\ AddsDirect(p)
      BY <1>5 DEF Known, Draft, AddsDirect
    <3>4. {t} \in Whats /\ clock \in Nat
      <4>1. t \in Nat
        BY <1>0
      <4> QED BY <1>0, <4>1, FS_Singleton DEF Whats, StoreType
    <3>5. p \in ProposalRow
      BY <3>4 DEF Draft, ProposalRow
    <3> HIDE DEF p
    <3> QED BY <1>4, <3>2, <3>3, <3>5
  <2> QED BY <1>1, <1>2, <1>5, <2>1
         DEF StoreNext, Tick, create_direction, put_ai_settings, finish_task, shift_gaps, close_week,
             apply_proposal, reject_proposal
<1>6. CASE \E answer \in {"ok", "rejected_by_precheck", "submit_store_error"} :
              submit_direction_assignment(answer)
  <2>1. PICK answer : submit_direction_assignment(answer)
    BY <1>6
  <2> DEFINE p == Draft("classify", "assign", {Task}, item.value)
  <2>2. proposals' \in {proposals, Append(proposals, p)}
    BY <2>1 DEF submit_direction_assignment, submit
  <2>3. /\ IsClassify /\ item.phase = "produced" /\ run.phase = "items" /\ run.todo # <<>>
        /\ item.value # "low_confidence" /\ Decided
    BY <1>0, <2>1 DEF submit_direction_assignment, Standing, Decided
  <2>4. item.value \in {Filed, Triage}
    BY <1>0, <2>3 DEF ReadInv, MayDecide
  <2>5. run.todo \in Seq(Targets) /\ LadderType
    BY <1>0 DEF LadderInv, LadderType
  <2>6. Task \in Nat /\ Task \in DOMAIN tasks
    <3>1. Head(run.todo) = run.todo[1] /\ 1 \in DOMAIN run.todo /\ run.todo[1] \in Targets
      BY <2>3, <2>5
    <3> QED BY <2>3, <3>1 DEF LiveInv, TargetsKnown, Targets, Task
  <2>7. PICK told : run' = [run EXCEPT !.todo = Tail(run.todo), !.items = run.items \o told]
    BY <2>1 DEF submit_direction_assignment, NextItem
  <2>8. run'.todo = Tail(run.todo)
    BY <2>5, <2>7 DEF LadderType
  <2>9. Known(p) /\ AddsClassify(p)
    BY <2>3, <2>4, <2>6, <2>8 DEF Known, Draft, AddsClassify
  <2>10. {Task} \in Whats /\ clock \in Nat
    BY <1>0, <2>6, FS_Singleton DEF Whats, StoreType
  <2>11. p \in ProposalRow
    BY <2>4, <2>10 DEF Draft, ProposalRow
  <2> HIDE DEF p
  <2> QED BY <1>1, <1>4, <2>2, <2>9, <2>11
<1>7. CASE \E answer \in {"ok", "rejected_by_precheck", "submit_store_error"} : submit_one(answer)
  <2>1. PICK answer : submit_one(answer)
    BY <1>7
  <2>2. IsPropose /\ ~IsClassify /\ item.phase = "submitting" /\ run.phase = "items" /\ run.todo # <<>> /\ Decided
    BY <1>0, <2>1 DEF submit_one, Standing, Decided, IsPropose, IsClassify
  <2> DEFINE kind == Attempts[item.at]
  <2> DEFINE p == DraftOf(kind)
  <2>3. proposals' \in {proposals, Append(proposals, p)}
    BY <2>1 DEF submit_one, submit
  <2>4. kind \in {"carry", "reorder", "create"} /\ (kind = "carry" => item.at = 1)
    BY <1>0, <2>2, AttemptsAre DEF ReadInv
  <2>5. item.value.carry \subseteq run.read.carry /\ run.read.carry \subseteq week_tasks("prev")
    BY <1>0, <2>2 DEF ReadInv, MayDecide, LiveInv, TargetsKnown
  <2> HIDE DEF kind
  <2>6. /\ p.source = "propose" /\ p.kind = kind
        /\ kind = "carry" => p.what = item.value.carry
    BY <2>4 DEF DraftOf, Draft
  <2>7. CASE proposals' = proposals
    BY <1>1, <2>7
  <2>8. CASE proposals' = Append(proposals, p) /\ proposals' # proposals
    <3>0. StoreType'
      BY <1>0, StoreStep
    <3>1. proposals' \in Seq(ProposalRow)
      <4>1. ProposalRow' = ProposalRow
        BY <2>1 DEF submit_one, ProposalRow, Whats
      <4> QED BY <3>0, <4>1 DEF StoreType
    <3> HIDE DEF p
    <3>2. Append(proposals, p) = proposals' /\ Append(proposals, p)[Len(proposals) + 1] = p
          /\ Len(proposals) + 1 \in DOMAIN Append(proposals, p)
      BY <1>0, <2>8
    <3>3. p \in ProposalRow
      BY <3>1, <3>2
    <3>4. GoesOn \/ Submits
      BY <1>0, <1>7, SubmitMoves
    <3>5. Known(p) /\ AddsPropose(p)
      BY <2>2, <2>4, <2>5, <2>6, <3>4 DEF Known, AddsPropose
    <3> QED BY <1>4, <2>8, <3>3, <3>5
  <2> QED BY <2>3, <2>7, <2>8
<1> QED BY <1>1, <1>5, <1>6, <1>7
       DEF Next, Work, vars, store, ClassifyNext, trigger_classify,
           trigger_classify_auto, run_selects, run_dedups, run_starts, run_reads, no_candidates,
           unsure, no_decision, ProposeNext, trigger_propose, dedup_run,
           run_propose, propose_decide, propose_nothing

\* A proposal of a run's that would apply after a step, and is an assignment or
\* carries tasks, would have applied before it.
LEMMA LiveShrinks ==
    ASSUME BaseInv, LiveInv, [Next]_vars, NEW i \in DOMAIN proposals, i \in Live',
           proposals[i].kind \in {"assign", "carry"}
    PROVE  i \in Live
<1>0. /\ StoreType /\ LadderInv /\ ReadInv /\ tasks \in Seq(TaskRow) /\ ProposalsKnown
      /\ weeks \in [{"prev", "this"} -> BOOLEAN]
  BY DEF BaseInv, StoreType, LiveInv
<1>1. StoreType' /\ DOMAIN tasks \subseteq DOMAIN tasks'
  BY <1>0, StoreStep
<1>2. /\ proposals'[i].source = proposals[i].source /\ proposals'[i].kind = proposals[i].kind
      /\ proposals'[i].what = proposals[i].what /\ proposals'[i].to = proposals[i].to
      /\ proposals'[i].status = "pending" => proposals[i].status = "pending"
  BY ProposalsGrow
<1>3. /\ proposals'[i].status = "pending" /\ proposals'[i].source \in {"classify", "propose"}
      /\ dry_run(proposals[i])'
  BY DEF Live, precheck, Pending
<1>4. Known(proposals[i])
  BY <1>0 DEF ProposalsKnown
<1>5. ASSUME NEW t \in DOMAIN tasks
      PROVE  /\ Settled(tasks[t], tasks'[t]) /\ tasks'[t].status \in {"planned", "done", "carried_over"}
             /\ tasks[t].status \in {"planned", "done", "carried_over"}
  <2>1. tasks[t] \in TaskRow /\ tasks'[t] \in TaskRow'
    BY <1>0, <1>1 DEF StoreType
  <2> QED BY <1>0, <2>1, TasksSettle DEF TaskRow
<1>6. CASE proposals[i].kind = "assign"
  <2>1. PICK t \in DOMAIN tasks : proposals[i].what = {t}
    BY <1>4, <1>6 DEF Known
  <2>2. proposals[i].source = "classify" /\ proposals[i].to \in {Triage, Filed}
    BY <1>2, <1>3, <1>4, <1>6 DEF Known
  <2> DEFINE to == proposals[i].to
  <2>3. /\ ~task_is_terminal(tasks'[t].status)
        /\ \/ tasks'[t].direction = None
           \/ /\ tasks'[t].direction = Triage /\ to # Triage
              /\ "classify" = "direct" \/ tasks'[t].via = "classify"
    BY <1>2, <1>3, <1>6, <2>1, <2>2 DEF dry_run, MayAssign, task_is_terminal
  <2>4. MayAssign(t, to, "classify")
    <3>1. ~task_is_terminal(tasks[t].status)
      BY <1>5, <2>3 DEF task_is_terminal, Settled
    <3>2. \/ tasks[t].direction = None
          \/ /\ tasks[t].direction = Triage /\ to # Triage
             /\ "classify" = "direct" \/ tasks[t].via = "classify"
      BY <1>5, <2>3, AiPortAssumption DEF Settled
    <3> QED BY <3>1, <3>2 DEF MayAssign
  <2>5. dry_run(proposals[i])
    BY <1>6, <2>1, <2>2, <2>4 DEF dry_run
  <2> QED BY <1>2, <1>3, <2>5 DEF Live, precheck, Pending
<1>7. CASE proposals[i].kind = "carry"
  <2>1. proposals[i].what \subseteq week_tasks("prev")
    BY <1>4, <1>7 DEF Known
  <2>2. weeks'["this"] /\ \A t \in proposals[i].what : tasks'[t].status = "planned" /\ weeks'[tasks'[t].week]
    BY <1>2, <1>3, <1>7 DEF dry_run
  <2>3. ASSUME NEW t \in proposals[i].what PROVE tasks[t].status = "planned" /\ weeks[tasks[t].week]
    <3>1. t \in DOMAIN tasks /\ tasks[t].week = "prev"
      BY <2>1 DEF week_tasks
    <3>2. tasks'[t].week = "prev" /\ tasks[t].status = "planned"
      BY <1>5, <2>2, <3>1 DEF Settled
    <3>3. weeks["prev"]
      BY <2>2, <3>2, WeeksClose
    <3> QED BY <3>1, <3>2, <3>3
  <2>4. weeks["this"]
    BY <2>2, WeeksClose
  <2>5. dry_run(proposals[i])
    BY <1>7, <2>3, <2>4 DEF dry_run
  <2> QED BY <1>2, <1>3, <2>5 DEF Live, precheck, Pending
<1> QED BY <1>6, <1>7

\* What is known of proposals stays so.
LEMMA KnownKept ==
    ASSUME BaseInv, LiveInv, [Next]_vars
    PROVE  ProposalsKnown' /\ week_tasks("prev") \subseteq week_tasks("prev")' /\ DOMAIN tasks \subseteq DOMAIN tasks'
<1>0. ProposalsKnown /\ StoreType /\ LadderInv /\ ReadInv
  BY DEF BaseInv, LiveInv
<1>1. DOMAIN tasks \subseteq DOMAIN tasks'
  BY <1>0, StoreStep
<1>2. week_tasks("prev") \subseteq week_tasks("prev")'
  <2>1. ASSUME NEW t \in DOMAIN tasks PROVE tasks'[t].week = tasks[t].week
    BY <1>0, TasksSettle DEF Settled
  <2> QED BY <1>1, <2>1 DEF week_tasks
<1>3. ASSUME NEW i \in DOMAIN proposals' PROVE Known(proposals[i])'
  <2>1. CASE i \in DOMAIN proposals
    <3>1. Known(proposals[i])
      BY <1>0, <2>1 DEF ProposalsKnown
    <3>2. /\ proposals'[i].source = proposals[i].source /\ proposals'[i].kind = proposals[i].kind
          /\ proposals'[i].what = proposals[i].what /\ proposals'[i].to = proposals[i].to
      BY <2>1, ProposalsGrow
    <3> QED BY <1>1, <1>2, <3>1, <3>2 DEF Known
  <2>2. CASE i \notin DOMAIN proposals
    <3>1. Known(proposals'[i])
      BY <2>2, ProposalsGrow
    <3> QED BY <1>1, <1>2, <3>1 DEF Known
  <2> QED BY <2>1, <2>2
<1> QED BY <1>1, <1>2, <1>3 DEF ProposalsKnown

\* A run's targets are known from the start.
LEMMA TargetsKept ==
    ASSUME BaseInv, LiveInv, [Next]_vars
    PROVE  TargetsKnown'
<1>0. StoreType /\ LadderInv /\ ReadInv /\ LadderType /\ Distinct /\ TargetsKnown /\ Standing
  BY DEF BaseInv, LiveInv, LadderInv
<1>1. week_tasks("prev") \subseteq week_tasks("prev")' /\ DOMAIN tasks \subseteq DOMAIN tasks'
  BY KnownKept
<1>2. world' = world /\ (IsClassify' <=> IsClassify) /\ (IsPropose' <=> IsPropose) /\ ~(IsClassify /\ IsPropose)
  BY <1>0, StoreStep DEF IsClassify, IsPropose
<1>3. run.todo \in Seq(Targets) /\ tasks \in Seq(TaskRow)
  BY <1>0 DEF LadderType, StoreType
<1>4. CASE run'.phase = run.phase /\ run'.read = run.read /\ run'.todo = run.todo
  BY <1>0, <1>1, <1>2, <1>4 DEF TargetsKnown
<1>5. CASE GoesOn
  <2>1. \A k \in DOMAIN Tail(run.todo) : Tail(run.todo)[k] = run.todo[k+1] /\ k + 1 \in DOMAIN run.todo
    BY <1>0, <1>3, <1>5, TailIs DEF GoesOn, Distinct
  <2>2. run'.phase = run.phase /\ run'.read = run.read /\ run'.todo = Tail(run.todo) /\ run.todo # <<>>
    BY <1>5 DEF GoesOn
  <2> QED BY <1>0, <1>1, <1>2, <2>1, <2>2 DEF TargetsKnown
<1>6. CASE Submits
  <2>1. /\ IsPropose /\ ~IsClassify /\ run.phase = "items" /\ run.todo # <<>>
        /\ run'.read = run.read \/ \E results : run'.read = [run.read EXCEPT !.results = results]
    BY <1>0, <1>2, <1>6 DEF Submits, Standing, Decided
  <2>2. run.read = [dedup |-> run.read.dedup, carry |-> run.read.carry, week |-> run.read.week,
                    gaps |-> run.read.gaps, results |-> run.read.results]
    BY <1>0, <2>1 DEF ReadInv
  <2>3. run'.read.carry = run.read.carry
    BY <2>1, <2>2
  <2> QED BY <1>0, <1>1, <1>2, <2>1, <2>3 DEF TargetsKnown
<1>7. CASE Leaves
  BY <1>7 DEF Leaves, TargetsKnown
<1>8. CASE \E ids \in world.requests : trigger_classify(ids)
  <2>1. PICK ids \in world.requests : trigger_classify(ids)
    BY <1>8
  <2>2. ids \in Seq(Nat)
    BY <1>0, AiPortAssumption DEF StoreType
  <2>3. /\ IsClassify /\ \A i, j \in DOMAIN ids : i # j => ids[i] # ids[j]
        /\ \A i \in DOMAIN ids : ids[i] \in DOMAIN tasks
        /\ run' = [NoRun EXCEPT !.phase = "targets", !.todo = Copies(ids), !.asked = Range(ids)]
    BY <2>1 DEF trigger_classify, select_targets, IsInjective, inbox, Range
  <2>4. run'.todo = Copies(ids)
    BY <2>3 DEF NoRun
  <2>5. DOMAIN Copies(ids) = DOMAIN ids /\ \A i \in DOMAIN ids : Copies(ids)[i].task = ids[i]
    BY <2>2, <2>3, CopiesAre
  <2> QED BY <1>1, <1>2, <2>3, <2>4, <2>5 DEF TargetsKnown
<1>9. CASE run_selects
  <2> DEFINE ids == auto_select_targets
  <2>1. IsClassify /\ run' = [run EXCEPT !.phase = "targets", !.todo = Copies(ids), !.asked = Range(ids)]
    BY <1>9 DEF run_selects
  <2>2. ids \in Seq(Nat) /\ (\A i, j \in DOMAIN ids : i # j => ids[i] # ids[j]) /\ Range(ids) \subseteq DOMAIN tasks
    BY <1>0, AutoTargets
  <2> HIDE DEF ids
  <2>3. run'.todo = Copies(ids)
    BY <1>0, <2>1 DEF LadderType
  <2>4. DOMAIN Copies(ids) = DOMAIN ids /\ \A i \in DOMAIN ids : Copies(ids)[i].task = ids[i]
    BY <2>1, <2>2, CopiesAre
  <2>5. \A i \in DOMAIN ids : ids[i] \in DOMAIN tasks
    BY <2>2 DEF Range
  <2> QED BY <1>1, <1>2, <2>1, <2>3, <2>4, <2>5 DEF TargetsKnown
<1>10. CASE run_dedups
  <2>1. PICK T, told : IsClassify /\ run' = [run EXCEPT !.phase = "selected", !.todo = Only(run.todo, T), !.items = told]
    BY <1>10 DEF run_dedups
  <2>2. run'.todo = Only(run.todo, T)
    BY <1>0, <2>1 DEF LadderType
  <2>3. Range(Only(run.todo, T)) \subseteq Range(run.todo)
    BY <1>0, <1>3, OnlyIs DEF Distinct
  <2> DEFINE o == Only(run.todo, T)
  <2> HIDE DEF o
  <2>4. run'.todo = o /\ Range(o) \subseteq Range(run.todo)
    BY <2>2, <2>3 DEF o
  <2>5. \A k \in DOMAIN o : \E m \in DOMAIN run.todo : o[k] = run.todo[m]
    BY <2>4 DEF Range
  <2> QED BY <1>0, <1>1, <1>2, <2>1, <2>4, <2>5 DEF TargetsKnown
<1>11. CASE trigger_classify_auto \/ trigger_propose \/ dedup_run
  <2>1. \/ IsClassify /\ run' = [NoRun EXCEPT !.phase = "auto"]
        \/ ~IsClassify /\ \E x, y : run' = [NoRun EXCEPT !.phase = "targets", !.todo = x, !.asked = y]
        \/ ~IsClassify /\ \E x : run' = [run EXCEPT !.phase = "selected", !.read = x]
    BY <1>2, <1>11 DEF trigger_classify_auto, trigger_propose, dedup_run
  <2>2. run'.phase # "items" /\ (IsClassify => run'.todo = <<>>)
    BY <1>0, <2>1 DEF NoRun, LadderType
  <2> QED BY <1>2, <2>2 DEF TargetsKnown
<1>12. CASE run_starts \/ run_reads
  <2>1. IsClassify /\ \E p, s, r : run' = [run EXCEPT !.phase = p, !.steps = s, !.read = r]
    <3>1. CASE run_starts
      <4>1. PICK r : run' = [run EXCEPT !.phase = "started", !.read = r]
        BY <3>1 DEF run_starts
      <4>2. run' = [run EXCEPT !.phase = "started", !.steps = run.steps, !.read = r]
        BY <1>0, <4>1 DEF LadderType
      <4> QED BY <3>1, <4>2 DEF run_starts
    <3>2. CASE run_reads
      BY <3>2 DEF run_reads
    <3> QED BY <1>12, <3>1, <3>2
  <2>2. run'.todo = run.todo
    BY <1>0, <2>1 DEF LadderType
  <2> QED BY <1>0, <1>1, <1>2, <2>1, <2>2 DEF TargetsKnown
<1>13. CASE run_propose
  <2>1. IsPropose /\ ~IsClassify
    BY <1>2, <1>13 DEF run_propose
  <2>2. PICK dedup, week, gs, results :
           \/ \E items : run' = [run EXCEPT !.phase = "items", !.todo = <<>>, !.items = items]
           \/ run' = [run EXCEPT !.phase = "items", !.steps = plan("propose", executive),
                                 !.read = [dedup |-> dedup,
                                           carry |-> carry_reflex(previous_open_week) \ run.read.dedup.carry,
                                           week |-> week, gaps |-> gs, results |-> results]]
    BY <1>13 DEF run_propose
  <2>3. CASE \E items : run' = [run EXCEPT !.phase = "items", !.todo = <<>>, !.items = items]
    <3>1. run'.todo = <<>>
      BY <1>0, <2>3 DEF LadderType
    <3> QED BY <1>2, <2>1, <3>1 DEF TargetsKnown
  <2> DEFINE carry == carry_reflex(previous_open_week) \ run.read.dedup.carry
  <2> DEFINE read == [dedup |-> dedup, carry |-> carry, week |-> week, gaps |-> gs, results |-> results]
  <2>4. CASE run' = [run EXCEPT !.phase = "items", !.steps = plan("propose", executive), !.read = read]
    <3>1. carry \subseteq week_tasks("prev")
      BY DEF carry_reflex, previous_open_week
    <3> HIDE DEF carry
    <3>2. read.carry = carry
      OBVIOUS
    <3> HIDE DEF read
    <3>3. run'.read = read
      BY <1>0, <2>4 DEF LadderType
    <3> QED BY <1>1, <1>2, <2>1, <3>1, <3>2, <3>3 DEF TargetsKnown
  <2> QED BY <2>2, <2>3, <2>4
<1>14. CASE SetsOut
  BY <1>8, <1>9, <1>10, <1>11, <1>12, <1>13, <1>14 DEF SetsOut
<1>15. CASE Stays \/ Decides
  BY <1>4, <1>15 DEF Stays, Decides
<1> QED BY <1>0, <1>5, <1>6, <1>7, <1>14, <1>15, RunMoves

\* The proposals that would apply after a step: those that would have before it,
\* and the one it adds.
LEMMA LiveIs ==
    ASSUME BaseInv, LiveInv, [Next]_vars, NEW i \in Live', proposals'[i].kind \in {"assign", "carry"}
    PROVE  /\ i \in DOMAIN proposals'
           /\ proposals'[i].source \in {"classify", "propose"}
           /\ \/ /\ i \in Live /\ i \in DOMAIN proposals
                 /\ proposals'[i].kind = proposals[i].kind /\ proposals'[i].what = proposals[i].what
              \/ /\ i \notin DOMAIN proposals
                 /\ AddsClassify(proposals'[i]) \/ AddsPropose(proposals'[i])
<1>1. i \in DOMAIN proposals' /\ proposals'[i].source \in {"classify", "propose"}
  BY DEF Live, precheck, Pending
<1>2. CASE i \in DOMAIN proposals
  <2>1. proposals'[i].kind = proposals[i].kind /\ proposals'[i].what = proposals[i].what
    BY <1>2, ProposalsGrow
  <2> QED BY <1>1, <1>2, <2>1, LiveShrinks
<1>3. CASE i \notin DOMAIN proposals
  BY <1>1, <1>3, ProposalsGrow DEF AddsDirect
<1> QED BY <1>2, <1>3

\* A classify run goes on steering clear of the assignments that would apply.
LEMMA ClassifyClear ==
    ASSUME BaseInv, LiveInv, [Next]_vars, IsClassify, run'.phase \in {"selected", "started", "items"},
           NEW k \in DOMAIN run'.todo, NEW i \in Live', proposals'[i].kind = "assign"
    PROVE  run'.todo[k].task \notin proposals'[i].what
<1>0. /\ StoreType /\ LadderInv /\ ReadInv /\ LadderType /\ Distinct /\ ProposalsKnown /\ SteersClear
      /\ run.todo \in Seq(Targets) /\ ~IsPropose
  BY DEF BaseInv, LiveInv, LadderInv, LadderType, IsClassify, IsPropose
<1>1. \/ /\ i \in Live /\ i \in DOMAIN proposals
         /\ proposals'[i].kind = proposals[i].kind /\ proposals'[i].what = proposals[i].what
      \/ /\ i \notin DOMAIN proposals
         /\ AddsClassify(proposals'[i])
  BY <1>0, LiveIs DEF AddsPropose
<1>2. CASE /\ run.phase \in {"selected", "started", "items"} /\ i \in Live
           /\ proposals'[i].kind = proposals[i].kind /\ proposals'[i].what = proposals[i].what
           /\ \E m \in DOMAIN run.todo : run'.todo[k] = run.todo[m]
  BY <1>0, <1>2 DEF SteersClear
<1>3. CASE AddsClassify(proposals'[i])
  <2>1. run'.todo = Tail(run.todo) /\ run.todo # <<>> /\ proposals'[i].what = {Task}
    BY <1>3 DEF AddsClassify
  <2>2. /\ Tail(run.todo)[k] = run.todo[k+1] /\ k + 1 \in DOMAIN run.todo /\ k \in Nat
        /\ Head(run.todo) = run.todo[1]
    BY <1>0, <2>1, TailIs DEF Distinct
  <2>3. 1 \in DOMAIN run.todo /\ k + 1 # 1
    <3>1. k \in DOMAIN Tail(run.todo)
      BY <2>1
    <3> QED BY <1>0, <2>1, <2>2, <3>1
  <2>4. run.todo[k+1].task # run.todo[1].task
    BY <1>0, <2>2, <2>3 DEF Distinct
  <2> QED BY <2>1, <2>2, <2>4 DEF Task
<1>4. CASE i \in Live /\ i \in DOMAIN proposals
           /\ proposals'[i].kind = proposals[i].kind /\ proposals'[i].what = proposals[i].what
  <2>1. CASE Stays \/ Decides
    <3>1. run' = run
      BY <2>1 DEF Stays, Decides
    <3> QED BY <1>2, <1>4, <3>1
  <2>2. CASE GoesOn
    <3>1. run'.todo = Tail(run.todo) /\ run.phase = "items" /\ run.todo # <<>>
      BY <2>2 DEF GoesOn
    <3>2. Tail(run.todo)[k] = run.todo[k+1] /\ k + 1 \in DOMAIN run.todo
      BY <1>0, <3>1, TailIs DEF Distinct
    <3> QED BY <1>2, <1>4, <3>1, <3>2
  <2>3. CASE run_starts \/ run_reads
    <3>1. run.phase \in {"selected", "started"}
      BY <2>3 DEF run_starts, run_reads
    <3>2. ASSUME run_starts PROVE run'.todo = run.todo
      <4>1. \E r : run' = [run EXCEPT !.phase = "started", !.read = r]
        BY <3>2 DEF run_starts
      <4> QED BY <1>0, <4>1 DEF LadderType
    <3>3. ASSUME run_reads PROVE run'.todo = run.todo
      <4>1. \E s, r : run' = [run EXCEPT !.phase = "items", !.steps = s, !.read = r]
        BY <3>3 DEF run_reads
      <4> QED BY <1>0, <4>1 DEF LadderType
    <3> QED BY <1>2, <1>4, <2>3, <3>1, <3>2, <3>3
  <2>4. CASE run_dedups
    <3> DEFINE kept == dedup_targets(run.asked)
    <3> DEFINE T == {c \in Range(run.todo) : c.task \in kept}
    <3> DEFINE o == Only(run.todo, T)
    <3>1. PICK told : run' = [run EXCEPT !.phase = "selected", !.todo = o, !.items = told]
      BY <2>4 DEF run_dedups
    <3>2. Range(o) \subseteq T
      BY <1>0, OnlyIs DEF Distinct
    <3>3. kept \subseteq run.asked /\ kept \cap already_pending(run.asked) = {}
      BY DEF dedup_targets
    <3> HIDE DEF o, kept
    <3>4. run'.todo = o
      BY <1>0, <3>1 DEF LadderType
    <3>5. o[k] \in Range(o)
      BY <3>4 DEF Range
    <3>6. run'.todo[k].task \in kept
      BY <3>2, <3>4, <3>5
    <3> DEFINE p == proposals[i]
    <3>7. /\ p \in ProposalRow /\ p.kind = "assign" /\ p.status = "pending" /\ dry_run(p)
          /\ p.source \in {"classify", "propose"} /\ Known(p)
      BY <1>0, <1>4 DEF Live, precheck, Pending, ProposalsKnown, StoreType
    <3>8. p.source = "classify"
      BY <3>7 DEF Known
    <3>9. PICK t \in DOMAIN tasks : p.what = {t}
      BY <3>7 DEF Known
    <3>10. [p EXCEPT !.source = "classify"] = p
      <4> HIDE DEF p
      <4> QED BY <3>7, <3>8 DEF ProposalRow
    <3>11. i \in Pending({"classify", "direct"})
      BY <1>4, <3>7, <3>8 DEF Pending
    <3>12. t \in run.asked => t \in already_pending(run.asked)
      BY <3>7, <3>9, <3>10, <3>11 DEF already_pending
    <3> QED BY <1>4, <3>3, <3>6, <3>9, <3>12
  <2>5. CASE \/ \E ids \in world.requests : trigger_classify(ids)
             \/ trigger_classify_auto \/ run_selects
    <3>1. \/ \E x, y : run' \in {[NoRun EXCEPT !.phase = "targets", !.todo = x, !.asked = y],
                                 [run EXCEPT !.phase = "targets", !.todo = x, !.asked = y]}
          \/ run' = [NoRun EXCEPT !.phase = "auto"]
      BY <2>5 DEF trigger_classify, trigger_classify_auto, run_selects
    <3>2. run'.phase \in {"targets", "auto"}
      BY <1>0, <3>1 DEF LadderType, NoRun
    <3> QED BY <3>2
  <2>6. CASE SetsOut
    BY <1>0, <2>3, <2>4, <2>5, <2>6 DEF SetsOut, trigger_propose, dedup_run, run_propose
  <2>7. ~Submits /\ ~Leaves
    BY <1>0 DEF Submits, Leaves
  <2> QED BY <1>0, <2>1, <2>2, <2>6, <2>7, RunMoves
<1> QED BY <1>1, <1>3, <1>4

\* A propose run has one item.
LEMMA OneWeek ==
    ASSUME LadderInv, IsPropose, run.todo # <<>>
    PROVE  Tail(run.todo) = <<>>
<1>1. run.todo \in Seq({"week"}) /\ \A i, j \in DOMAIN run.todo : i # j => run.todo[i] # run.todo[j]
  BY DEF LadderInv, LadderType, Distinct, Targets, IsPropose, IsClassify
<1> DEFINE todo == run.todo
<1> HIDE DEF todo
<1>2. todo \in Seq({"week"}) /\ todo # <<>> /\ \A i, j \in DOMAIN todo : i # j => todo[i] # todo[j]
  BY <1>1 DEF todo
<1>3. Len(todo) = 1
  <2>1. Len(todo) \in Nat /\ Len(todo) # 0 /\ DOMAIN todo = 1..Len(todo)
    BY <1>2
  <2>2. ASSUME Len(todo) >= 2 PROVE FALSE
    <3>1. 1 \in DOMAIN todo /\ 2 \in DOMAIN todo
      BY <2>1, <2>2
    <3>2. todo[1] = "week" /\ todo[2] = "week"
      BY <1>2, <3>1
    <3> QED BY <1>2, <3>1, <3>2
  <2> QED BY <2>1, <2>2
<1>4. Tail(todo) = <<>>
  <2>1. PICK rest : rest = Tail(todo)
    OBVIOUS
  <2>2. rest \in Seq({"week"}) /\ Len(rest) = 0
    BY <1>2, <1>3, <2>1
  <2>3. rest = <<>>
    BY <2>2
  <2> QED BY <2>1, <2>3
<1> QED BY <1>4 DEF todo

\* So does a propose run of the tasks that would be carried.
LEMMA ProposeClear ==
    ASSUME BaseInv, LiveInv, [Next]_vars, IsPropose, NEW i \in Live', proposals'[i].kind = "carry"
    PROVE  /\ run'.phase = "selected" => proposals'[i].what \subseteq run'.read.dedup.carry
           /\ run'.phase = "items" /\ CarryOpen' => proposals'[i].what \cap run'.read.carry = {}
<1>0. /\ StoreType /\ LadderInv /\ ReadInv /\ LadderType /\ Distinct /\ ProposalsKnown /\ SteersClear /\ Standing
      /\ ~IsClassify /\ item.at \in Nat \ {0}
  BY DEF BaseInv, LiveInv, LadderInv, LadderType, IsClassify, IsPropose
<1>1. \/ /\ i \in Live /\ i \in DOMAIN proposals
         /\ proposals'[i].kind = proposals[i].kind /\ proposals'[i].what = proposals[i].what
      \/ /\ i \notin DOMAIN proposals
         /\ AddsPropose(proposals'[i])
  BY <1>0, LiveIs DEF AddsClassify
<1>2. Decided => run.phase = "items" /\ run.todo # <<>>
  BY <1>0 DEF Standing, Decided
<1>3. CASE GoesOn
  <2>1. run'.todo = <<>> /\ run'.phase = "items"
    BY <1>0, <1>3, OneWeek DEF GoesOn
  <2> QED BY <2>1 DEF CarryOpen
<1>4. CASE Submits
  <2>1. run'.phase = "items" /\ run'.todo = run.todo /\ item'.phase = "submitting" /\ Decided
    BY <1>2, <1>4 DEF Submits
  <2>2. CASE item.phase = "submitting"
    <3>1. item'.at > 1
      BY <1>0, <1>4, <2>2 DEF Submits
    <3> QED BY <2>1, <3>1 DEF CarryOpen
  <2>3. CASE item.phase = "produced"
    <3>1. CarryOpen
      BY <1>2, <2>1, <2>3 DEF CarryOpen
    <3>2. /\ i \in Live /\ proposals'[i].kind = proposals[i].kind /\ proposals'[i].what = proposals[i].what
      BY <1>1, <2>3 DEF AddsPropose
    <3>3. run.read = [dedup |-> run.read.dedup, carry |-> run.read.carry, week |-> run.read.week,
                      gaps |-> run.read.gaps, results |-> run.read.results]
      BY <1>0, <1>2, <2>1 DEF ReadInv
    <3>4. run'.read.carry = run.read.carry
      BY <1>4, <3>3 DEF Submits
    <3> QED BY <1>0, <1>2, <2>1, <3>1, <3>2, <3>4 DEF SteersClear
  <2> QED BY <2>1, <2>2, <2>3 DEF Decided
<1>5. CASE Leaves
  BY <1>5 DEF Leaves
<1>6. CASE AddsPropose(proposals'[i])
  BY <1>3, <1>4, <1>6 DEF AddsPropose
<1>7. ASSUME i \in Live, proposals'[i].kind = proposals[i].kind, proposals'[i].what = proposals[i].what
      PROVE  /\ run'.phase = "selected" => proposals'[i].what \subseteq run'.read.dedup.carry
             /\ run'.phase = "items" /\ CarryOpen' => proposals'[i].what \cap run'.read.carry = {}
  <2>1. CASE Stays \/ Decides
    <3>1. run' = run
      BY <2>1 DEF Stays, Decides
    <3>2. run.phase = "items" /\ CarryOpen' => CarryOpen
      BY <2>1, <3>1 DEF Stays, Decides, CarryOpen, Decided
    <3> QED BY <1>0, <1>7, <3>1, <3>2 DEF SteersClear
  <2>2. CASE trigger_propose
    <3>1. \E x, y : run' = [NoRun EXCEPT !.phase = "targets", !.todo = x, !.asked = y]
      BY <2>2 DEF trigger_propose
    <3>2. run'.phase = "targets"
      BY <3>1 DEF NoRun
    <3> QED BY <3>2
  <2>3. CASE dedup_run
    <3>1. PICK dedup \in dedup_propose : run' = [run EXCEPT !.phase = "selected", !.read = [dedup |-> dedup]]
      BY <2>3 DEF dedup_run
    <3>2. dedup.carry = excluded_carry
      BY <3>1 DEF dedup_propose, ProposeDedup
    <3>3. run'.phase = "selected" /\ run'.read.dedup = dedup
      BY <1>0, <3>1 DEF LadderType
    <3>4. i \in Valid("carry")
      BY <1>0, <1>7 DEF Live, Valid, precheck, Pending, ProposalsKnown, Known
    <3>5. proposals[i].what \subseteq excluded_carry
      BY <3>4 DEF excluded_carry
    <3> QED BY <1>7, <3>2, <3>3, <3>5
  <2>4. CASE run_propose
    <3>1. run.phase = "selected"
      BY <2>4 DEF run_propose
    <3>2. proposals[i].what \subseteq run.read.dedup.carry
      BY <1>0, <1>7, <3>1 DEF SteersClear
    <3> DEFINE carry == carry_reflex(previous_open_week) \ run.read.dedup.carry
    <3>3. PICK dedup, week, gs, results :
             \/ \E items : run' = [run EXCEPT !.phase = "items", !.todo = <<>>, !.items = items]
             \/ run' = [run EXCEPT !.phase = "items", !.steps = plan("propose", executive),
                                   !.read = [dedup |-> dedup, carry |-> carry,
                                             week |-> week, gaps |-> gs, results |-> results]]
      BY <2>4 DEF run_propose
    <3> DEFINE read == [dedup |-> dedup, carry |-> carry, week |-> week, gaps |-> gs, results |-> results]
    <3>4. proposals[i].what \cap carry = {}
      BY <3>2
    <3> HIDE DEF carry
    <3>5. read.carry = carry
      OBVIOUS
    <3>6. CASE \E items : run' = [run EXCEPT !.phase = "items", !.todo = <<>>, !.items = items]
      <4>1. run'.todo = <<>> /\ run'.phase = "items"
        BY <1>0, <3>6 DEF LadderType
      <4> QED BY <4>1 DEF CarryOpen
    <3>7. CASE run' = [run EXCEPT !.phase = "items", !.steps = plan("propose", executive), !.read = read]
      <4> HIDE DEF read
      <4>1. run'.read = read /\ run'.phase = "items"
        BY <1>0, <3>7 DEF LadderType
      <4> QED BY <1>7, <3>4, <3>5, <4>1
    <3> QED BY <3>3, <3>6, <3>7
  <2>5. CASE SetsOut
    BY <1>0, <2>2, <2>3, <2>4, <2>5
       DEF SetsOut, trigger_classify, trigger_classify_auto, run_selects, run_dedups, run_starts, run_reads
  <2> QED BY <1>0, <1>3, <1>4, <1>5, <2>1, <2>5, RunMoves
<1> QED BY <1>1, <1>6, <1>7

\* A step that adds a proposal adds it for a task that no other of its kind names.
LEMMA NewIsClear ==
    ASSUME BaseInv, LiveInv, [Next]_vars, NEW i \in Live', NEW j \in Live',
           i \notin DOMAIN proposals, j \in Live, j \in DOMAIN proposals,
           proposals'[i].kind = proposals[j].kind, proposals'[j].what = proposals[j].what,
           AddsClassify(proposals'[i]) \/ AddsPropose(proposals'[i]),
           proposals'[i].kind \in {"assign", "carry"}, Known(proposals'[i])
    PROVE  proposals'[i].what \cap proposals'[j].what = {}
<1>0. ReadInv /\ SteersClear /\ Standing /\ run.todo \in Seq(Targets)
  BY DEF BaseInv, LiveInv, LadderInv, LadderType
<1>1. CASE AddsClassify(proposals'[i])
  <2>1. /\ IsClassify /\ run.phase = "items" /\ run.todo # <<>> /\ proposals'[i].kind = "assign"
        /\ proposals'[i].what = {Task}
    BY <1>1 DEF AddsClassify
  <2>2. 1 \in DOMAIN run.todo /\ Head(run.todo) = run.todo[1]
    BY <1>0, <2>1
  <2>3. run.todo[1].task \notin proposals[j].what
    BY <1>0, <2>1, <2>2 DEF SteersClear
  <2> QED BY <2>1, <2>2, <2>3 DEF Task
<1>2. CASE AddsPropose(proposals'[i])
  <2>1. /\ IsPropose /\ item.phase = "submitting" /\ proposals'[i].kind = "carry"
        /\ item.at = 1 /\ proposals'[i].what = item.value.carry
    BY <1>2 DEF AddsPropose, Known
  <2>2. Decided /\ run.phase = "items" /\ run.todo # <<>> /\ CarryOpen
    BY <1>0, <2>1 DEF Decided, Standing, CarryOpen
  <2>3. proposals[j].what \cap run.read.carry = {}
    BY <1>0, <2>1, <2>2 DEF SteersClear
  <2>4. item.value.carry \subseteq run.read.carry
    BY <1>0, <2>1, <2>2 DEF ReadInv, MayDecide, IsClassify, IsPropose
  <2> QED BY <2>1, <2>3, <2>4
<1> QED BY <1>1, <1>2

\* Every step keeps at most one live proposal of a kind for a task.
LEMMA OneLiveStep ==
    ASSUME BaseInv, LiveInv, [Next]_vars
    PROVE  OneLiveProposal'
<1>1. SUFFICES ASSUME NEW i \in Live', NEW j \in Live', i # j,
                      proposals'[i].kind = proposals'[j].kind, proposals'[i].kind \in {"assign", "carry"}
               PROVE  proposals'[i].what \cap proposals'[j].what = {}
  BY DEF OneLiveProposal, Live
<1>2. /\ i \in DOMAIN proposals' /\ j \in DOMAIN proposals'
      /\ \/ /\ i \in Live /\ i \in DOMAIN proposals
            /\ proposals'[i].kind = proposals[i].kind /\ proposals'[i].what = proposals[i].what
         \/ /\ i \notin DOMAIN proposals
            /\ AddsClassify(proposals'[i]) \/ AddsPropose(proposals'[i])
  BY <1>1, LiveIs
<1>3. \/ /\ j \in Live /\ j \in DOMAIN proposals
         /\ proposals'[j].kind = proposals[j].kind /\ proposals'[j].what = proposals[j].what
      \/ /\ j \notin DOMAIN proposals
         /\ AddsClassify(proposals'[j]) \/ AddsPropose(proposals'[j])
  BY <1>1, LiveIs
<1>4. /\ i \notin DOMAIN proposals => Known(proposals'[i])
      /\ j \notin DOMAIN proposals => Known(proposals'[j])
      /\ i \in DOMAIN proposals \/ j \in DOMAIN proposals
  BY <1>1, <1>2, ProposalsGrow
<1>5. CASE i \in DOMAIN proposals /\ j \in DOMAIN proposals
  BY <1>1, <1>2, <1>3, <1>5 DEF LiveInv, OneLiveProposal, Live
<1>6. CASE i \notin DOMAIN proposals
  <2>1. j \in DOMAIN proposals
    BY <1>4, <1>6
  <2>2. proposals'[i].kind = proposals[j].kind /\ proposals'[j].what = proposals[j].what /\ j \in Live
    BY <1>1, <1>3, <2>1
  <2>3. AddsClassify(proposals'[i]) \/ AddsPropose(proposals'[i])
    BY <1>2, <1>6
  <2> QED BY <1>1, <1>4, <1>6, <2>1, <2>2, <2>3, NewIsClear
<1>7. CASE j \notin DOMAIN proposals
  <2>1. i \in DOMAIN proposals
    BY <1>4, <1>7
  <2>2. proposals'[j].kind = proposals[i].kind /\ proposals'[i].what = proposals[i].what /\ i \in Live
    BY <1>1, <1>2, <2>1
  <2>3. AddsClassify(proposals'[j]) \/ AddsPropose(proposals'[j])
    BY <1>3, <1>7
  <2>4. proposals'[j].what \cap proposals'[i].what = {}
    BY <1>1, <1>4, <1>7, <2>1, <2>2, <2>3, NewIsClear
  <2> QED BY <2>4
<1> QED BY <1>5, <1>6, <1>7

\* Every step keeps what is known of the proposals.
LEMMA LiveStep ==
    ASSUME BaseInv, LiveInv, [Next]_vars
    PROVE  LiveInv'
<1>0. (IsClassify' <=> IsClassify) /\ (IsPropose' <=> IsPropose)
  BY StoreStep DEF BaseInv, IsClassify, IsPropose
<1>1. ProposalsKnown' /\ TargetsKnown'
  BY KnownKept, TargetsKept
<1>2. SteersClear'
  <2>1. IsClassify /\ run'.phase \in {"selected", "started", "items"} =>
          \A k \in DOMAIN run'.todo, i \in Live' :
              proposals'[i].kind = "assign" => run'.todo[k].task \notin proposals'[i].what
    BY ClassifyClear
  <2>2. IsPropose => \A i \in Live' : proposals'[i].kind = "carry" =>
           /\ run'.phase = "selected" => proposals'[i].what \subseteq run'.read.dedup.carry
           /\ run'.phase = "items" /\ CarryOpen' => proposals'[i].what \cap run'.read.carry = {}
    BY ProposeClear
  <2> QED BY <1>0, <2>1, <2>2 DEF SteersClear
<1> QED BY <1>1, <1>2, OneLiveStep DEF LiveInv

\* For every set of worlds, any number of tasks, proposals and runs, and whatever
\* the user submits, accepts, rejects and edits between a run's dedup and its
\* submissions: of the runs' pending proposals that would still apply no two
\* assign, and no two carry, the same task (http/ai_classify.rs dedup_targets,
\* http/ai_propose.rs dedup_propose).
THEOREM OneLiveProposalInvariant == Spec => []OneLiveProposal
<1>1. Init => LiveInv
  <2> SUFFICES ASSUME Init PROVE LiveInv
    OBVIOUS
  <2>1. proposals = <<>> /\ run.phase = "idle" /\ run.todo = <<>>
    BY DEF Init, AiPortInit, LadderInit, NoRun
  <2>2. Live = {} /\ precheck(Pending({"classify", "propose"})) = {}
    BY <2>1 DEF Live, precheck, Pending
  <2> QED BY <2>1, <2>2 DEF LiveInv, ProposalsKnown, TargetsKnown, SteersClear, OneLiveProposal
<1>2. BaseInv /\ LiveInv /\ [Next]_vars => LiveInv'
  BY LiveStep
<1>3. LiveInv => OneLiveProposal
  BY DEF LiveInv
<1> QED BY <1>1, <1>2, <1>3, BaseInvariant, PTL DEF Spec

-----------------------------------------------------------------------------
(* The call log: why a rung was reached *)

\* A log that grows keeps its failures, and the row it grows by may be one.
LEMMA FailedGrows ==
    ASSUME NEW S, NEW cs \in Seq(S), NEW r \in S, NEW n \in Nat, n <= Len(cs), NEW e, NEW t
    PROVE  /\ FailedIn(Append(cs, r), n, e, t) <=> FailedIn(cs, n, e, t)
           /\ FailedIn(cs, n, e, t) => FailedIn(Append(cs, r), Len(Append(cs, r)), e, t)
           /\ r.engine = e /\ Failed(r) /\ r.item = t => FailedIn(Append(cs, r), Len(Append(cs, r)), e, t)
<1> DEFINE m == Len(cs)
<1> DEFINE more == Append(cs, r)
<1>1. m \in Nat /\ Len(more) = m + 1 /\ more[m+1] = r /\ \A i \in 1..m : more[i] = cs[i]
  OBVIOUS
<1> HIDE DEF m, more
<1>2. n <= m
  BY DEF m
<1>3. \A j \in 1..n : more[j] = cs[j] /\ j \in 1..Len(more)
  BY <1>1, <1>2
<1>4. Len(more) \in 1..Len(more) /\ more[Len(more)] = r
  BY <1>1
<1>5. FailedIn(more, n, e, t) <=> FailedIn(cs, n, e, t)
  BY <1>3 DEF FailedIn
<1>6. FailedIn(cs, n, e, t) => FailedIn(more, Len(more), e, t)
  BY <1>3 DEF FailedIn
<1>7. r.engine = e /\ Failed(r) /\ r.item = t => FailedIn(more, Len(more), e, t)
  BY <1>4 DEF FailedIn
<1> QED BY <1>5, <1>6, <1>7 DEF more

\* A row that is explained by the log before it stays so.
LEMMA ExplainedGrows ==
    ASSUME NEW S, NEW cs \in Seq(S), NEW r \in S, NEW steps, NEW q, NEW i \in Nat \ {0}, i <= Len(cs) + 1,
           Explained(cs, steps, q, i)
    PROVE  Explained(Append(cs, r), steps, q, i)
<1>1. i - 1 \in Nat /\ i - 1 <= Len(cs)
  OBVIOUS
<1>2. \A j \in 1..i-1 : Append(cs, r)[j] = cs[j]
  BY <1>1
<1>3. \A e, t : FailedIn(Append(cs, r), i - 1, e, t) <=> FailedIn(cs, i - 1, e, t)
  BY <1>1, FailedGrows
<1> QED BY <1>2, <1>3 DEF Explained

\* So does the next row, after one that leaves nothing undecided.
LEMMA ExplainedNext ==
    ASSUME NEW S, NEW cs \in Seq(S), NEW r \in S, NEW steps, NEW q, r.kind # "undecided",
           Explained(cs, steps, q, Len(cs) + 1)
    PROVE  Explained(Append(cs, r), steps, q, Len(Append(cs, r)) + 1)
<1> DEFINE m == Len(cs)
<1> DEFINE more == Append(cs, r)
<1>1. m \in Nat /\ m <= m /\ Len(more) = m + 1 /\ more[m+1] = r /\ \A i \in 1..m : more[i] = cs[i]
  OBVIOUS
<1>2. \A e, t : FailedIn(cs, m, e, t) => FailedIn(more, Len(more), e, t)
  BY <1>1, FailedGrows
<1>3. Explained(cs, steps, q, m + 1)
  OBVIOUS
<1> HIDE DEF m, more
<1>4. (m + 1) - 1 = m /\ (Len(more) + 1) - 1 = Len(more)
  BY <1>1
<1>5. \A j \in 1..Len(more) : more[j].kind = "undecided" => j \in 1..m /\ more[j] = cs[j]
  BY <1>1
<1>6. Explained(more, steps, q, Len(more) + 1)
  BY <1>2, <1>3, <1>4, <1>5 DEF Explained
<1> QED BY <1>6 DEF more

\* A log of explained rows grows by an explained row.
LEMMA AllExplainedAppend ==
    ASSUME NEW S, NEW cs \in Seq(S), NEW r \in S, NEW steps, AllExplained(cs, steps),
           Explained(cs, steps, r, Len(cs) + 1)
    PROVE  AllExplained(Append(cs, r), steps)
<1>1. ASSUME NEW i \in DOMAIN Append(cs, r) PROVE Explained(Append(cs, r), steps, Append(cs, r)[i], i)
  <2>1. i \in Nat \ {0} /\ i <= Len(cs) + 1
    OBVIOUS
  <2>2. CASE i = Len(cs) + 1
    <3>1. Append(cs, r)[i] = r
      BY <2>2
    <3> QED BY <2>1, <2>2, <3>1, ExplainedGrows
  <2>3. CASE i # Len(cs) + 1
    <3>1. i \in DOMAIN cs /\ Append(cs, r)[i] = cs[i]
      BY <2>1, <2>3
    <3>2. Explained(cs, steps, cs[i], i)
      BY <3>1 DEF AllExplained
    <3> QED BY <2>1, <3>1, <3>2, ExplainedGrows
  <2> QED BY <2>2, <2>3
<1> QED BY <1>1 DEF AllExplained

\* An engine out of the run stays on record.
LEMMA SkippingGrows ==
    ASSUME NEW S, NEW cs \in Seq(S), NEW r \in S, NEW skip, Skipping(cs, skip)
    PROVE  /\ Skipping(Append(cs, r), skip)
           /\ opens_circuit(r.kind) => Skipping(Append(cs, r), skip \cup {r.engine})
<1>1. DOMAIN cs \subseteq DOMAIN Append(cs, r) /\ \A i \in DOMAIN cs : Append(cs, r)[i] = cs[i]
  OBVIOUS
<1>2. Len(cs) + 1 \in DOMAIN Append(cs, r) /\ Append(cs, r)[Len(cs) + 1] = r
  OBVIOUS
<1> QED BY <1>1, <1>2 DEF Skipping

\* The largest of a set of numbers, if it is known.
LEMMA MaxIs ==
    ASSUME NEW S \in SUBSET Nat, NEW m \in S, \A x \in S : x <= m
    PROVE  Max(S) = m
<1>1. PICK x : x = Max(S)
  OBVIOUS
<1>2. S # {} /\ m \in Nat /\ \A y \in S : y \in Nat /\ y <= m
  OBVIOUS
<1>3. x \in S /\ \A y \in S : y <= x
  BY <1>1, <1>2, BoundedMax
<1>4. x <= m /\ m <= x /\ x \in Nat
  BY <1>2, <1>3
<1> QED BY <1>1, <1>2, <1>4

\* The models above a model's rung, or above the last one, are those before it.
LEMMA AboveIs ==
    ASSUME NEW steps, IsPlan(steps), NEW at \in DOMAIN steps, NEW r,
           \/ steps[at] \in Engines /\ r.engine = steps[at]
           \/ steps[at] = "fallback" /\ r.engine = "reflex"
    PROVE  AboveIn(steps, r) = {k \in DOMAIN steps : k < at /\ steps[k] \in Engines}
<1>1. steps \in Seq(Rungs) /\ \A j, k \in DOMAIN steps : j < k => Rank[steps[j]] < Rank[steps[k]]
  BY DEF IsPlan, PlanBelow
<1>2. Rank["decisive"] = 0 /\ Rank["executive"] = 1 /\ Rank["local"] = 2 /\ Rank["fallback"] = 3
  BY DEF Rank
<1>3. ASSUME NEW k \in DOMAIN steps, steps[k] \in Engines
      PROVE  steps[k] # r.engine /\ (r.engine = "reflex" \/ steps[k] = "executive") <=> k < at
  <2>0. k \in Nat /\ at \in Nat
    BY <1>1
  <2>1. CASE k = at
    BY <1>3, <2>0, <2>1 DEF Engines
  <2>2. CASE k < at
    <3>1. Rank[steps[k]] < Rank[steps[at]]
      BY <1>1, <2>2
    <3> QED BY <1>2, <1>3, <2>2, <3>1 DEF Engines
  <2>3. CASE at < k
    <3>1. Rank[steps[at]] < Rank[steps[k]]
      BY <1>1, <2>3
    <3>2. ~(k < at)
      BY <2>0, <2>3
    <3> QED BY <1>2, <1>3, <3>1, <3>2 DEF Engines
  <2> QED BY <2>0, <2>1, <2>2, <2>3
<1> QED BY <1>3 DEF AboveIn

\* A row that names what its rung stands in for is explained.
LEMMA RungExplains ==
    ASSUME NEW cs, Len(cs) \in Nat, NEW steps, IsPlan(steps), NEW at \in DOMAIN steps, NEW r,
           \/ steps[at] \in Engines /\ r.engine = steps[at]
           \/ steps[at] = "fallback" /\ r.engine = "reflex",
           StandsIn(cs, steps, at, r.fallback_from, r.item)
    PROVE  Explained(cs, steps, r, Len(cs) + 1)
<1> DEFINE A == AboveIn(steps, r)
<1>1. A = {k \in DOMAIN steps : k < at /\ steps[k] \in Engines}
  BY AboveIs
<1>2. steps \in Seq(Rungs)
  BY DEF IsPlan, PlanBelow
<1>3. (Len(cs) + 1) - 1 = Len(cs)
  OBVIOUS
<1> HIDE DEF A
<1>4. CASE r.fallback_from = None /\ \A k \in DOMAIN steps : k < at => steps[k] \notin Engines
  <2>1. A = {}
    BY <1>1, <1>4
  <2> QED BY <1>4, <2>1 DEF Explained, A
<1>5. CASE /\ r.fallback_from \in Engines
           /\ \E k \in DOMAIN steps :
                 /\ k < at /\ steps[k] = r.fallback_from
                 /\ \A m \in DOMAIN steps : k < m /\ m < at => steps[m] \notin Engines
           /\ FailedIn(cs, Len(cs), r.fallback_from, r.item)
  <2>1. PICK k \in DOMAIN steps :
                 /\ k < at /\ steps[k] = r.fallback_from
                 /\ \A m \in DOMAIN steps : k < m /\ m < at => steps[m] \notin Engines
    BY <1>5
  <2>2. A \in SUBSET Nat /\ k \in A
    BY <1>1, <1>2, <1>5, <2>1
  <2>3. \A m \in A : m <= k
    BY <1>1, <1>2, <2>1
  <2>4. Max(A) = k
    BY <2>2, <2>3, MaxIs
  <2>5. A # {}
    BY <2>2
  <2> QED BY <1>3, <1>5, <2>1, <2>4, <2>5 DEF Explained, A
<1> QED BY <1>4, <1>5 DEF StandsIn

\* The rules that decide outright come first.
LEMMA DecisiveFirst ==
    ASSUME NEW steps, IsPlan(steps), NEW at \in DOMAIN steps, steps[at] = "decisive"
    PROVE  at = 1
<1>1. /\ steps \in Seq(Rungs) /\ (\A j, k \in DOMAIN steps : j < k => Rank[steps[j]] < Rank[steps[k]])
      /\ Rank["decisive"] = 0 /\ \A x \in Rungs : Rank[x] \in Nat
  BY DEF IsPlan, PlanBelow, Rank, Rungs
<1>2. at \in Nat /\ 1 <= at /\ 1 \in DOMAIN steps /\ steps[1] \in Rungs
  BY <1>1
<1>3. ~(1 < at)
  BY <1>1, <1>2
<1> QED BY <1>2, <1>3

\* A rung that is not a model's hands on what it stands in for.
LEMMA StandsOn ==
    ASSUME NEW cs, NEW steps, DOMAIN steps \subseteq Nat, NEW at \in Nat, NEW from, NEW target,
           at \in DOMAIN steps => steps[at] \notin Engines,
           StandsIn(cs, steps, at, from, target)
    PROVE  StandsIn(cs, steps, at + 1, from, target)
<1>1. \A k \in DOMAIN steps : (k < at + 1 <=> k < at \/ k = at) /\ (k < at => k < at + 1)
  OBVIOUS
<1>2. CASE from = None /\ \A k \in DOMAIN steps : k < at => steps[k] \notin Engines
  BY <1>1, <1>2 DEF StandsIn
<1>3. CASE /\ from \in Engines
           /\ \E k \in DOMAIN steps :
                 /\ k < at /\ steps[k] = from
                 /\ \A m \in DOMAIN steps : k < m /\ m < at => steps[m] \notin Engines
           /\ FailedIn(cs, Len(cs), from, target)
  <2>1. PICK k \in DOMAIN steps : /\ k < at /\ steps[k] = from
                                  /\ \A m \in DOMAIN steps : k < m /\ m < at => steps[m] \notin Engines
    BY <1>3
  <2>2. k < at + 1 /\ \A m \in DOMAIN steps : k < m /\ m < at + 1 => steps[m] \notin Engines
    BY <1>1, <2>1
  <2> QED BY <1>3, <2>1, <2>2 DEF StandsIn
<1> QED BY <1>2, <1>3 DEF StandsIn

\* The rung below a model that has failed stands in for it.
LEMMA StandsAfter ==
    ASSUME NEW cs, NEW steps, DOMAIN steps \subseteq Nat, NEW at \in DOMAIN steps, NEW target,
           steps[at] \in Engines, FailedIn(cs, Len(cs), steps[at], target)
    PROVE  StandsIn(cs, steps, at + 1, steps[at], target)
<1>1. at < at + 1 /\ \A m \in DOMAIN steps : ~(at < m /\ m < at + 1)
  OBVIOUS
<1> QED BY <1>1 DEF StandsIn

\* What a rung stands in for is on record still when the log has grown.
LEMMA StandsGrows ==
    ASSUME NEW S, NEW cs \in Seq(S), NEW r \in S, NEW steps, NEW at, NEW from, NEW target,
           StandsIn(cs, steps, at, from, target)
    PROVE  StandsIn(Append(cs, r), steps, at, from, target)
<1>1. Len(cs) \in Nat /\ Len(cs) <= Len(cs)
  OBVIOUS
<1>2. FailedIn(cs, Len(cs), from, target) => FailedIn(Append(cs, r), Len(Append(cs, r)), from, target)
  BY <1>1, FailedGrows
<1> QED BY <1>2 DEF StandsIn

\* The first rung stands in for none.
LEMMA TopStands ==
    ASSUME NEW cs, NEW steps \in Seq(Rungs), NEW target
    PROVE  StandsIn(cs, steps, 1, None, target)
BY DEF StandsIn

\* A ladder that has not been entered has nothing to explain.
LEMMA AuditFresh ==
    ASSUME LadderInv', calls' = <<>>, st' = RunState, item' = AtTop
    PROVE  AuditInv'
<1>1. item'.phase = "step" /\ item'.at = 1 /\ item'.failed_from = None /\ st'.skip = {}
  BY DEF AtTop, RunState
<1>2. Skipping(calls', st'.skip) /\ AllExplained(calls', run'.steps) /\ ~Decided'
  BY <1>1 DEF Skipping, AllExplained, Decided
<1>3. run'.phase = "items" /\ run'.todo # <<>> => StandsIn(calls', run'.steps, 1, None, Head(run'.todo))
  <2>1. run'.phase = "items" /\ run'.todo # <<>> => run'.steps \in Seq(Rungs)
    BY DEF LadderInv, Standing, IsPlan, PlanBelow
  <2> QED BY <2>1, TopStands
<1> QED BY <1>1, <1>2, <1>3 DEF AuditInv

\* The log stays, and what is to come is explained as it was.
LEMMA AuditStays ==
    ASSUME AuditInv, run'.phase = run.phase, run'.steps = run.steps, run'.todo = run.todo,
           calls' = calls, st'.skip = st.skip,
           \/ item' = item
           \/ item'.phase \in {"nothing", "deferred", "aborted"}
           \/ item.phase = "step" /\ item'.phase = "waiting" /\ item'.at = item.at
              /\ item'.failed_from = item.failed_from
           \/ item.phase = "produced" /\ item'.phase = "submitting" /\ item'.row = item.row
    PROVE  AuditInv'
BY DEF AuditInv, Decided

\* A decision is ready.
LEMMA AuditProduced ==
    ASSUME AuditInv, run' = run, calls' = calls, st' = st, item'.phase = "produced",
           Explained(calls, run.steps, item'.row, Len(calls) + 1)
    PROVE  AuditInv'
BY DEF AuditInv, Decided

\* A row is written, and the item goes one rung down or ends.
LEMMA AuditDown ==
    ASSUME AuditInv, LadderType, run' = run, NEW r \in CallRow, calls' = Append(calls, r),
           Explained(calls, run.steps, r, Len(calls) + 1), Skipping(calls', st'.skip),
           \/ item'.phase \in {"nothing", "deferred", "aborted"}
           \/ /\ item'.phase = "step" /\ item'.at = item.at + 1
              /\ StandsIn(calls', run.steps, item'.at, item'.failed_from, Head(run.todo))
    PROVE  AuditInv'
<1>1. calls \in Seq(CallRow) /\ item.at \in Nat \ {0} /\ item.at + 1 # 1
  BY DEF LadderType
<1>2. AllExplained(calls, run.steps)
  BY DEF AuditInv
<1>3. AllExplained(calls', run.steps)
  BY <1>1, <1>2, AllExplainedAppend
<1>4. ~Decided'
  BY DEF Decided
<1> QED BY <1>1, <1>3, <1>4 DEF AuditInv

\* The item is settled, with a row or without.
LEMMA AuditNext ==
    ASSUME AuditInv, LadderInv, run.phase = "items", run.todo # <<>>,
           run'.steps = run.steps, run'.todo = Tail(run.todo),
           item' = AtTop, st' = st,
           \/ calls' = calls
           \/ \E r \in CallRow : /\ calls' = Append(calls, r) /\ r.item = Head(run.todo)
                                 /\ Explained(calls, run.steps, r, Len(calls) + 1)
    PROVE  AuditInv'
<1>0. /\ calls \in Seq(CallRow) /\ run.todo \in Seq(Targets)
      /\ \A i, j \in DOMAIN run.todo : i # j => run.todo[i] # run.todo[j]
  BY DEF LadderInv, LadderType, Distinct
<1>1. Range(Tail(run.todo)) \subseteq Range(run.todo) /\ Head(run.todo) \notin Range(Tail(run.todo))
  BY <1>0, TailIs
<1>2. \A j \in DOMAIN calls : calls[j].item \notin Range(Tail(run.todo))
  BY <1>1 DEF LadderInv, PastCalls, AllPast, PastCall
<1>3. Skipping(calls, st.skip) /\ AllExplained(calls, run.steps)
  BY DEF AuditInv
<1>4. /\ Skipping(calls', st.skip) /\ AllExplained(calls', run.steps)
      /\ \A j \in DOMAIN calls' : calls'[j].item \notin Range(Tail(run.todo))
  <2>1. CASE calls' = calls
    BY <1>2, <1>3, <2>1
  <2>2. CASE \E r \in CallRow : /\ calls' = Append(calls, r) /\ r.item = Head(run.todo)
                                /\ Explained(calls, run.steps, r, Len(calls) + 1)
    <3>1. PICK r \in CallRow : /\ calls' = Append(calls, r) /\ r.item = Head(run.todo)
                               /\ Explained(calls, run.steps, r, Len(calls) + 1)
      BY <2>2
    <3>2. Skipping(calls', st.skip) /\ AllExplained(calls', run.steps)
      BY <1>0, <1>3, <3>1, SkippingGrows, AllExplainedAppend
    <3>3. \A j \in DOMAIN calls' : calls'[j] = r \/ (j \in DOMAIN calls /\ calls'[j] = calls[j])
      BY <1>0, <3>1
    <3> QED BY <1>1, <1>2, <3>1, <3>2, <3>3
  <2> QED BY <2>1, <2>2
<1>5. item'.phase = "step" /\ item'.at = 1 /\ item'.failed_from = None /\ ~Decided'
  BY DEF AtTop, Decided
<1>6. StandsIn(calls', run.steps, 1, None, Head(run'.todo))
  <2>1. run.steps \in Seq(Rungs)
    BY DEF LadderInv, Standing, IsPlan, PlanBelow
  <2> QED BY <2>1, TopStands
<1> QED BY <1>4, <1>5, <1>6 DEF AuditInv

\* A rung that is being tried is one of the run's plan.
LEMMA RungIs ==
    ASSUME LadderInv, NEW steps, Rung(steps)
    PROVE  /\ run.phase = "items" /\ run.todo # <<>> /\ item.phase = "step"
           /\ IsPlan(run.steps) /\ item.at \in DOMAIN run.steps /\ run.steps[item.at] \in steps
           /\ item.at \in Nat /\ DOMAIN run.steps \subseteq Nat
<1>1. /\ run.phase = "items" /\ run.todo # <<>> /\ item.phase = "step" /\ IsPlan(run.steps)
      /\ run.steps[item.at] \in steps /\ item.at <= Len(run.steps) /\ item.at \in Nat \ {0}
  BY DEF Rung, Climbing, LadderInv, LadderType, Standing
<1>2. run.steps \in Seq(Rungs)
  BY <1>1 DEF IsPlan, PlanBelow
<1> QED BY <1>1, <1>2

\* The rules' rows are explained, and so is what follows them.
LEMMA AuditReflex ==
    ASSUME LadderInv, AuditInv, NEW v, ReflexDecisive(v) \/ ReflexFallback(v)
    PROVE  AuditInv'
<1>0. LadderType /\ calls \in Seq(CallRow) /\ item.failed_from \in Engines \cup {None} /\ Len(calls) \in Nat
  BY DEF LadderInv, LadderType
<1>1. Rung({"decisive"}) \/ Rung({"fallback"})
  BY DEF ReflexDecisive, ReflexFallback
<1>2. /\ run' = run /\ st' = st /\ run.phase = "items" /\ run.todo # <<>> /\ item.phase = "step"
      /\ IsPlan(run.steps) /\ item.at \in DOMAIN run.steps /\ run.steps[item.at] \notin Engines
      /\ item.at \in Nat /\ DOMAIN run.steps \subseteq Nat
  BY <1>1, RungIs DEF ReflexDecisive, ReflexFallback, Engines
<1>3. StandsIn(calls, run.steps, item.at, item.failed_from, Head(run.todo))
  BY <1>2 DEF AuditInv
<1>4. ASSUME NEW from \in Engines \cup {None}, NEW kind \in {"ok", "undecided", "no_match"},
             \/ ReflexDecisive(v) /\ from = None /\ kind # "no_match"
             \/ ReflexFallback(v) /\ from = item.failed_from
      PROVE  /\ Row("reflex", from, None, kind) \in CallRow
             /\ Explained(calls, run.steps, Row("reflex", from, None, kind), Len(calls) + 1)
  <2> DEFINE r == Row("reflex", from, None, kind)
  <2>1. kind \in CallKinds
    BY DEF CallKinds
  <2>2. /\ r \in CallRow /\ r.item = Head(run.todo) /\ r.engine = "reflex" /\ r.fallback_from = from
        /\ r.kind = kind
    <3>1. r \in CallRow /\ r.item = Head(run.todo) /\ r.engine = "reflex" /\ r.kind = kind
      <4>1. "reflex" \in Engines \cup {"reflex"} /\ None \in {None, "local", "remote"} /\ run.todo # <<>>
        BY <1>2
      <4>2. r \in CallRow
        BY <2>1, <4>1, RowIs
      <4>3. r.item = Head(run.todo) /\ r.engine = "reflex" /\ r.kind = kind
        BY DEF Row
      <4> QED BY <4>2, <4>3
    <3>2. r.fallback_from = from
      BY DEF Row
    <3> QED BY <3>1, <3>2
  <2> HIDE DEF r
  <2>3. CASE ReflexDecisive(v) /\ from = None /\ kind # "no_match"
    <3>1. run.steps[item.at] = "decisive"
      BY <2>3, RungIs DEF ReflexDecisive
    <3>2. item.at = 1
      BY <1>2, <3>1, DecisiveFirst
    <3>3. Head(run.todo) \in Range(run.todo)
      <4>1. run.todo \in Seq(Targets)
        BY <1>0 DEF LadderType
      <4> QED BY <1>2, <4>1 DEF Range
    <3>4. \A j \in DOMAIN calls : calls[j].item # r.item
      BY <1>2, <2>2, <3>2, <3>3 DEF AuditInv
    <3>5. 1..(Len(calls) + 1) - 1 = DOMAIN calls
      BY <1>0
    <3> QED BY <2>2, <2>3, <3>1, <3>2, <3>4, <3>5 DEF Explained, r
  <2>4. CASE ReflexFallback(v) /\ from = item.failed_from
    <3>1. run.steps[item.at] = "fallback"
      BY <2>4, RungIs DEF ReflexFallback
    <3>2. StandsIn(calls, run.steps, item.at, r.fallback_from, r.item)
      BY <1>3, <2>2, <2>4
    <3>3. Explained(calls, run.steps, r, Len(calls) + 1)
      BY <1>0, <1>2, <2>2, <3>1, <3>2, RungExplains
    <3> QED BY <2>2, <3>3 DEF r
  <2> QED BY <1>4, <2>3, <2>4
<1>5. PICK from \in Engines \cup {None}, kind \in {"undecided", "no_match"} :
          /\ \/ ReflexDecisive(v) /\ from = None /\ kind # "no_match"
             \/ ReflexFallback(v) /\ from = item.failed_from
          /\ \/ Produced(v, Row("reflex", from, None, "ok"))
             \/ Down(Row("reflex", from, None, kind), item.failed_from, item.deterministic)
  <2>1. CASE ReflexDecisive(v)
    <3>1. \/ Produced(v, Row("reflex", None, None, "ok"))
          \/ Down(Row("reflex", None, None, "undecided"), item.failed_from, item.deterministic)
      BY <2>1 DEF ReflexDecisive
    <3> QED BY <2>1, <3>1
  <2>2. CASE ReflexFallback(v)
    <3>1. \/ Produced(v, Row("reflex", item.failed_from, None, "ok"))
          \/ Down(Row("reflex", item.failed_from, None, "no_match"), item.failed_from, item.deterministic)
      BY <2>2 DEF ReflexFallback
    <3> QED BY <1>0, <2>2, <3>1
  <2> QED BY <2>1, <2>2
<1>6. CASE Produced(v, Row("reflex", from, None, "ok"))
  <2> DEFINE r == Row("reflex", from, None, "ok")
  <2>1. Explained(calls, run.steps, r, Len(calls) + 1)
    BY <1>4, <1>5
  <2>2. calls' = calls /\ item' = [item EXCEPT !.phase = "produced", !.value = v, !.row = r]
    BY <1>6 DEF Produced
  <2> HIDE DEF r
  <2>3. item'.phase = "produced" /\ item'.row = r
    BY <1>0, <2>2 DEF LadderType
  <2> QED BY <1>2, <2>1, <2>2, <2>3, AuditProduced
<1>7. CASE Down(Row("reflex", from, None, kind), item.failed_from, item.deterministic)
  <2> DEFINE r == Row("reflex", from, None, kind)
  <2>1. r \in CallRow /\ Explained(calls, run.steps, r, Len(calls) + 1)
    BY <1>4, <1>5
  <2>2. calls' = Append(calls, r) /\ item' = [item EXCEPT !.phase = "step", !.at = @ + 1,
            !.failed_from = item.failed_from, !.deterministic = item.deterministic]
    BY <1>7 DEF Down
  <2> HIDE DEF r
  <2>3. item'.phase = "step" /\ item'.at = item.at + 1 /\ item'.failed_from = item.failed_from
    BY <1>0, <2>2 DEF LadderType
  <2>4. StandsIn(calls, run.steps, item.at + 1, item.failed_from, Head(run.todo))
    BY <1>2, <1>3, StandsOn
  <2>5. StandsIn(calls', run.steps, item'.at, item'.failed_from, Head(run.todo))
    BY <1>0, <2>1, <2>2, <2>3, <2>4, StandsGrows
  <2>6. Skipping(calls', st'.skip)
    BY <1>0, <1>2, <2>1, <2>2, SkippingGrows DEF AuditInv
  <2> QED BY <1>0, <1>2, <2>1, <2>2, <2>3, <2>5, <2>6, AuditDown
<1> QED BY <1>5, <1>6, <1>7

\* A model that was asked: its rung, and the row of its answer, whatever that is.
LEMMA AskedExplains ==
    ASSUME LadderInv, AuditInv, Waiting, NEW tier \in {None, "local", "remote"}, NEW kind \in CallKinds
    PROVE  /\ item.at \in DOMAIN run.steps /\ run.steps[item.at] = Asked /\ Asked \in Engines
           /\ DOMAIN run.steps \subseteq Nat
           /\ Row(Asked, item.failed_from, tier, kind) \in CallRow
           /\ Row(Asked, item.failed_from, tier, kind).engine = Asked
           /\ Row(Asked, item.failed_from, tier, kind).item = Head(run.todo)
           /\ Row(Asked, item.failed_from, tier, kind).kind = kind
           /\ Explained(calls, run.steps, Row(Asked, item.failed_from, tier, kind), Len(calls) + 1)
<1>0. /\ LadderType /\ Len(calls) \in Nat /\ item.failed_from \in Engines \cup {None}
      /\ run.phase = "items" /\ run.todo # <<>> /\ item.phase = "waiting"
      /\ IsPlan(run.steps) /\ item.at \in DOMAIN run.steps /\ Asked \in Engines
  BY DEF LadderInv, LadderType, Waiting, Standing
<1>1. DOMAIN run.steps \subseteq Nat /\ run.steps[item.at] = Asked
  <2>1. run.steps \in Seq(Rungs)
    BY <1>0 DEF IsPlan, PlanBelow
  <2> QED BY <2>1 DEF Asked
<1> DEFINE r == Row(Asked, item.failed_from, tier, kind)
<1>2. /\ r \in CallRow /\ r.item = Head(run.todo) /\ r.engine = Asked
      /\ r.fallback_from = item.failed_from /\ r.kind = kind
  <2>1. run.todo # <<>> /\ Asked \in Engines \cup {"reflex"} /\ item.failed_from \in Engines \cup {None}
    BY <1>0
  <2>2. r.item = Head(run.todo) /\ r.engine = Asked /\ r.fallback_from = item.failed_from /\ r.kind = kind
    BY DEF Row
  <2>3. r \in CallRow
    BY <2>1, RowIs
  <2> QED BY <2>2, <2>3
<1> HIDE DEF r
<1>3. StandsIn(calls, run.steps, item.at, r.fallback_from, r.item)
  BY <1>0, <1>2 DEF AuditInv
<1>4. Explained(calls, run.steps, r, Len(calls) + 1)
  BY <1>0, <1>1, <1>2, <1>3, RungExplains
<1> QED BY <1>0, <1>1, <1>2, <1>4 DEF r

\* The row of a model's failure is written and the next rung is tried.
LEMMA AuditFails ==
    ASSUME LadderType, AuditInv, run' = run, item.at \in DOMAIN run.steps, run.steps[item.at] = Asked,
           Asked \in Engines, DOMAIN run.steps \subseteq Nat, NEW r \in CallRow, r.engine = Asked,
           r.item = Head(run.todo), Failed(r), Explained(calls, run.steps, r, Len(calls) + 1),
           calls' = Append(calls, r), Skipping(calls', st'.skip), NEW det,
           item' = [item EXCEPT !.phase = "step", !.at = @ + 1, !.failed_from = Asked, !.deterministic = det]
    PROVE  AuditInv'
<1>1. calls \in Seq(CallRow) /\ Len(calls) \in Nat /\ Len(calls) <= Len(calls)
  BY DEF LadderType
<1>2. FailedIn(calls', Len(calls'), Asked, Head(run.todo))
  BY <1>1, FailedGrows
<1>3. StandsIn(calls', run.steps, item.at + 1, Asked, Head(run.todo))
  BY <1>2, StandsAfter
<1>4. PICK e : e = Asked
  OBVIOUS
<1>5. item' = [item EXCEPT !.phase = "step", !.at = @ + 1, !.failed_from = e, !.deterministic = det]
  BY <1>4
<1>6. item'.phase = "step" /\ item'.at = item.at + 1 /\ item'.failed_from = e
  BY <1>5 DEF LadderType
<1> QED BY <1>3, <1>4, <1>6, AuditDown

\* A reply's row is explained, and so is what follows it.
LEMMA AuditReply ==
    ASSUME LadderInv, AuditInv, NEW tier \in {"local", "remote"}, NEW v, reply(tier, v)
    PROVE  AuditInv'
<1>0. LadderType /\ calls \in Seq(CallRow) /\ Waiting /\ run' = run /\ st' = st
  BY DEF LadderInv, LadderType, reply
<1>1. PICK kind \in {"privacy_tripwire", "bad_output"}, det \in {item.deterministic, TRUE} :
          \/ Produced(v, Row(Asked, item.failed_from, tier, "ok"))
          \/ Down(Row(Asked, item.failed_from, tier, kind), Asked, det)
  BY DEF reply
<1>2. "ok" \in CallKinds /\ kind \in CallKinds /\ kind \notin {"ok", "rejected_by_precheck", "submit_store_error"}
  BY DEF CallKinds
<1>3. CASE Produced(v, Row(Asked, item.failed_from, tier, "ok"))
  <2> DEFINE r == Row(Asked, item.failed_from, tier, "ok")
  <2>1. Explained(calls, run.steps, r, Len(calls) + 1)
    BY <1>0, <1>2, AskedExplains
  <2>2. calls' = calls /\ item' = [item EXCEPT !.phase = "produced", !.value = v, !.row = r]
    BY <1>3 DEF Produced
  <2> HIDE DEF r
  <2>3. item'.phase = "produced" /\ item'.row = r
    BY <1>0, <2>2 DEF LadderType
  <2> QED BY <1>0, <2>1, <2>2, <2>3, AuditProduced
<1>4. CASE Down(Row(Asked, item.failed_from, tier, kind), Asked, det)
  <2> DEFINE r == Row(Asked, item.failed_from, tier, kind)
  <2>1. /\ item.at \in DOMAIN run.steps /\ run.steps[item.at] = Asked /\ Asked \in Engines
        /\ DOMAIN run.steps \subseteq Nat
        /\ r \in CallRow /\ r.engine = Asked /\ r.item = Head(run.todo) /\ r.kind = kind
        /\ Explained(calls, run.steps, r, Len(calls) + 1)
    BY <1>0, <1>2, AskedExplains
  <2>2. calls' = Append(calls, r) /\ item' = [item EXCEPT !.phase = "step", !.at = @ + 1,
            !.failed_from = Asked, !.deterministic = det]
    BY <1>4 DEF Down
  <2> HIDE DEF r
  <2>3. Skipping(calls', st'.skip)
    BY <1>0, <2>1, <2>2, SkippingGrows DEF AuditInv
  <2> QED BY <1>0, <1>2, <2>1, <2>2, <2>3, AuditFails DEF Failed
<1> QED BY <1>1, <1>3, <1>4

\* So is a failure's.
LEMMA AuditFailure ==
    ASSUME LadderInv, AuditInv, NEW f \in ModelFailure, model_failure(f)
    PROVE  AuditInv'
<1>0. LadderType /\ calls \in Seq(CallRow) /\ Waiting /\ run' = run /\ st \in RunStates
  BY DEF LadderInv, LadderType, RunStates, model_failure
<1>1. f \in CallKinds /\ f \notin {"ok", "rejected_by_precheck", "submit_store_error"}
  BY DEF CallKinds, ModelFailure, Aborting, Deferring, Degrading
<1> DEFINE r == Row(Asked, item.failed_from, None, f)
<1>2. /\ item.at \in DOMAIN run.steps /\ run.steps[item.at] = Asked /\ Asked \in Engines
      /\ DOMAIN run.steps \subseteq Nat
      /\ r \in CallRow /\ r.engine = Asked /\ r.item = Head(run.todo) /\ r.kind = f
      /\ Explained(calls, run.steps, r, Len(calls) + 1)
  BY <1>0, <1>1, AskedExplains
<1>3. calls' = Append(calls, r)
  BY DEF model_failure, Down
<1>4. \/ st' = [st EXCEPT !.aborted = TRUE] /\ item' = [item EXCEPT !.phase = "aborted"]
      \/ st' = [st EXCEPT !.models_off = TRUE] /\ item' = [item EXCEPT !.phase = "deferred"]
      \/ Down(r, Asked, item.deterministic)
         /\ st' = [st EXCEPT !.skip = @ \cup (IF opens_circuit(f) THEN {Asked} ELSE {})]
  BY DEF model_failure, Ended
<1> HIDE DEF r
<1>5. Skipping(calls', st.skip) /\ (opens_circuit(f) => Skipping(calls', st.skip \cup {Asked}))
  BY <1>0, <1>2, <1>3, SkippingGrows DEF AuditInv
<1>6. CASE \/ st' = [st EXCEPT !.aborted = TRUE] /\ item' = [item EXCEPT !.phase = "aborted"]
           \/ st' = [st EXCEPT !.models_off = TRUE] /\ item' = [item EXCEPT !.phase = "deferred"]
  <2>1. st'.skip = st.skip
    BY <1>0, <1>6 DEF RunStates
  <2>2. item'.phase \in {"aborted", "deferred"}
    BY <1>0, <1>6 DEF LadderType
  <2> QED BY <1>0, <1>2, <1>3, <1>5, <2>1, <2>2, AuditDown
<1>7. CASE Down(r, Asked, item.deterministic)
           /\ st' = [st EXCEPT !.skip = @ \cup (IF opens_circuit(f) THEN {Asked} ELSE {})]
  <2>1. calls' = Append(calls, r) /\ item' = [item EXCEPT !.phase = "step", !.at = @ + 1,
            !.failed_from = Asked, !.deterministic = item.deterministic]
    BY <1>7 DEF Down
  <2>2. st'.skip = st.skip \cup (IF opens_circuit(f) THEN {Asked} ELSE {})
    BY <1>0, <1>7 DEF RunStates
  <2>3. Skipping(calls', st'.skip)
    <3>1. CASE opens_circuit(f)
      BY <1>5, <2>2, <3>1
    <3>2. CASE ~opens_circuit(f)
      <4>1. st'.skip = st.skip
        BY <2>2, <3>2
      <4> QED BY <1>5, <4>1
    <3> QED BY <3>1, <3>2
  <2> QED BY <1>0, <1>1, <1>2, <2>1, <2>3, AuditFails DEF Failed
<1> QED BY <1>4, <1>6, <1>7

\* An engine passed over is on record as out of the run.
LEMMA AuditCircuit ==
    ASSUME LadderInv, AuditInv, circuit_open
    PROVE  AuditInv'
<1>0. LadderType /\ calls \in Seq(CallRow) /\ run' = run /\ st' = st /\ calls' = calls /\ Rung(Engines)
      /\ run.steps[item.at] \in st.skip /\ item' = [item EXCEPT !.at = @ + 1, !.failed_from = run.steps[item.at]]
  BY DEF LadderInv, LadderType, circuit_open
<1>1. /\ run.phase = "items" /\ run.todo # <<>> /\ item.phase = "step"
      /\ item.at \in DOMAIN run.steps /\ run.steps[item.at] \in Engines
      /\ item.at \in Nat \ {0} /\ DOMAIN run.steps \subseteq Nat
  BY <1>0, RungIs DEF LadderType
<1>2. PICK j \in DOMAIN calls : calls[j].engine = run.steps[item.at] /\ opens_circuit(calls[j].kind)
  BY <1>0 DEF AuditInv, Skipping
<1>3. FailedIn(calls, Len(calls), run.steps[item.at], Head(run.todo))
  <2>1. j \in 1..Len(calls)
    BY <1>0
  <2>2. Failed(calls[j])
    BY <1>2 DEF Failed, opens_circuit
  <2> QED BY <1>2, <2>1, <2>2 DEF FailedIn
<1>4. StandsIn(calls, run.steps, item.at + 1, run.steps[item.at], Head(run.todo))
  BY <1>1, <1>3, StandsAfter
<1>5. item'.phase = "step" /\ item'.at = item.at + 1 /\ item'.failed_from = run.steps[item.at] /\ item'.at # 1
  <2> DEFINE e == run.steps[item.at]
  <2>1. item' = [item EXCEPT !.at = @ + 1, !.failed_from = e]
    BY <1>0
  <2> HIDE DEF e
  <2>2. item'.phase = "step" /\ item'.at = item.at + 1 /\ item'.failed_from = e
    BY <1>0, <1>1, <2>1 DEF LadderType
  <2> QED BY <1>1, <2>2 DEF e
<1>6. ~Decided'
  BY <1>5 DEF Decided
<1> QED BY <1>0, <1>4, <1>5, <1>6 DEF AuditInv

\* A decision's row is explained as its draft row was, whatever the submission's answer.
LEMMA InsertedExplains ==
    ASSUME StoreType, LadderInv, AuditInv, Decided, NEW is_first \in BOOLEAN,
           NEW answer \in {"ok", "rejected_by_precheck", "submit_store_error"}
    PROVE  /\ \E r \in CallRow : /\ insert_call_row(answer, is_first) = Append(calls, r)
                                 /\ r.item = Head(run.todo) /\ r.kind = answer
                                 /\ Explained(calls, run.steps, r, Len(calls) + 1)
           /\ item.row \in CallRow /\ item.row.item = Head(run.todo)
           /\ Explained(calls, run.steps, item.row, Len(calls) + 1)
<1>1. RowReady /\ Explained(calls, run.steps, item.row, Len(calls) + 1)
  BY DEF LadderInv, Standing, AuditInv
<1>2. Len(proposals) + 1 \in Nat
  BY DEF StoreType
<1> DEFINE pr == IF answer = "ok" THEN Len(proposals) + 1 ELSE None
<1> DEFINE r == [item.row EXCEPT !.kind = answer, !.is_first = is_first, !.proposal = pr]
<1>3. insert_call_row(answer, is_first) = Append(calls, r)
  BY DEF insert_call_row
<1>4. pr \in Nat \cup {None} /\ answer \in CallKinds
  BY <1>2 DEF CallKinds
<1> HIDE DEF pr
<1>5. r \in CallRow /\ r.item = item.row.item /\ r.engine = item.row.engine /\ r.kind = answer
      /\ r.fallback_from = item.row.fallback_from
  BY <1>1, <1>4 DEF RowReady, CallRow
<1> HIDE DEF r
<1>6. AboveIn(run.steps, r) = AboveIn(run.steps, item.row)
  BY <1>5 DEF AboveIn
<1>7. Explained(calls, run.steps, r, Len(calls) + 1)
  BY <1>1, <1>5, <1>6 DEF Explained
<1> QED BY <1>1, <1>3, <1>5, <1>7 DEF RowReady

\* An item is settled.
LEMMA AuditSettles ==
    ASSUME StoreType, LadderInv, ReadInv, AuditInv,
           \/ no_candidates \/ unsure \/ no_decision \/ propose_decide \/ propose_nothing
           \/ \E answer \in {"ok", "rejected_by_precheck", "submit_store_error"} :
                 submit_direction_assignment(answer) \/ submit_one(answer)
    PROVE  AuditInv'
<1>0. LadderType /\ Standing /\ calls \in Seq(CallRow) /\ st' = st
  BY DEF LadderInv, LadderType, no_candidates, unsure, no_decision, propose_decide, propose_nothing,
         submit_direction_assignment, submit_one
<1>1. run.phase = "items" /\ run.todo # <<>>
  BY <1>0 DEF no_candidates, Climbing, unsure, no_decision, propose_decide, propose_nothing,
              submit_direction_assignment, submit_one, Standing
<1>2. ASSUME NEW told, NextItem(told) PROVE item' = AtTop /\ run'.todo = Tail(run.todo) /\ run'.steps = run.steps
  <2>1. PICK x : x = run.items \o told
    OBVIOUS
  <2>2. run' = [run EXCEPT !.todo = Tail(@), !.items = x] /\ item' = AtTop
    BY <1>2, <2>1 DEF NextItem
  <2> QED BY <1>0, <2>2 DEF LadderType
<1>3. CASE no_candidates \/ no_decision \/ propose_nothing
  <2>1. calls' = calls /\ \E told : NextItem(told)
    BY <1>3 DEF no_candidates, no_decision, propose_nothing
  <2> QED BY <1>0, <1>1, <1>2, <2>1, AuditNext
<1>4. CASE unsure \/ (propose_decide /\ Attempts = <<>>)
  <2>1. Decided /\ calls' = Append(calls, item.row) /\ \E told : NextItem(told)
    BY <1>4 DEF unsure, propose_decide, Decided
  <2>2. /\ item.row \in CallRow /\ item.row.item = Head(run.todo)
        /\ Explained(calls, run.steps, item.row, Len(calls) + 1)
    BY <2>1, InsertedExplains
  <2> QED BY <1>0, <1>1, <1>2, <2>1, <2>2, AuditNext
<1>5. CASE propose_decide /\ Attempts # <<>>
  <2>1. /\ run' = run /\ calls' = calls /\ item.phase = "produced"
        /\ item' = [item EXCEPT !.phase = "submitting", !.at = 1]
    BY <1>5 DEF propose_decide
  <2>2. item'.phase = "submitting" /\ item'.row = item.row
    BY <1>0, <2>1 DEF LadderType
  <2> QED BY <1>0, <2>1, <2>2, AuditStays
<1>6. CASE \E answer \in {"ok", "rejected_by_precheck", "submit_store_error"} :
              submit_direction_assignment(answer)
  <2>1. PICK answer \in {"ok", "rejected_by_precheck", "submit_store_error"} :
           submit_direction_assignment(answer)
    BY <1>6
  <2>2. Decided /\ calls' = insert_call_row(answer, TRUE) /\ \E told : NextItem(told)
    BY <2>1 DEF submit_direction_assignment, Decided
  <2>3. PICK r \in CallRow : /\ insert_call_row(answer, TRUE) = Append(calls, r)
                             /\ r.item = Head(run.todo)
                             /\ Explained(calls, run.steps, r, Len(calls) + 1)
    BY <2>2, InsertedExplains
  <2> QED BY <1>0, <1>1, <1>2, <2>2, <2>3, AuditNext
<1>7. CASE \E answer \in {"ok", "rejected_by_precheck", "submit_store_error"} : submit_one(answer)
  <2>1. PICK answer \in {"ok", "rejected_by_precheck", "submit_store_error"} : submit_one(answer)
    BY <1>7
  <2>2. PICK is_first \in BOOLEAN : is_first = (item.at = 1)
    OBVIOUS
  <2>3. Decided /\ calls' = insert_call_row(answer, is_first) /\ item.phase = "submitting"
    BY <2>1, <2>2 DEF submit_one, Decided
  <2>4. PICK r \in CallRow : /\ insert_call_row(answer, is_first) = Append(calls, r)
                             /\ r.item = Head(run.todo) /\ r.kind = answer
                             /\ Explained(calls, run.steps, r, Len(calls) + 1)
    BY <2>3, InsertedExplains
  <2>5. PICK results :
           \/ NextItem(Report(results))
           \/ item' = [item EXCEPT !.at = @ + 1] /\ run' = [run EXCEPT !.read.results = results]
    BY <2>1 DEF submit_one
  <2>6. CASE NextItem(Report(results))
    <3>1. item' = AtTop /\ run'.todo = Tail(run.todo) /\ run'.steps = run.steps
      BY <1>2, <2>6
    <3> QED BY <1>0, <1>1, <2>3, <2>4, <3>1, AuditNext
  <2>7. CASE item' = [item EXCEPT !.at = @ + 1] /\ run' = [run EXCEPT !.read.results = results]
    <3>1. PICK read : read = [run.read EXCEPT !.results = results]
      OBVIOUS
    <3>2. run' = [run EXCEPT !.read = read]
      BY <2>7, <3>1
    <3>3. run'.steps = run.steps
      BY <1>0, <3>2 DEF LadderType
    <3>4. item'.phase = "submitting" /\ item'.row = item.row
      BY <1>0, <2>3, <2>7 DEF LadderType
    <3>5. Skipping(calls, st.skip) /\ AllExplained(calls, run.steps)
          /\ Explained(calls, run.steps, item.row, Len(calls) + 1)
      BY <2>3 DEF AuditInv
    <3>6. calls' = Append(calls, r) /\ r.kind # "undecided"
      BY <2>3, <2>4
    <3>7. Skipping(calls', st'.skip) /\ AllExplained(calls', run'.steps)
      BY <1>0, <2>4, <3>3, <3>5, <3>6, SkippingGrows, AllExplainedAppend
    <3>8. Explained(calls', run'.steps, item'.row, Len(calls') + 1)
      BY <1>0, <3>3, <3>4, <3>5, <3>6, ExplainedNext
    <3> QED BY <3>4, <3>7, <3>8 DEF AuditInv
  <2> QED BY <2>5, <2>6, <2>7
<1> QED BY <1>3, <1>4, <1>5, <1>6, <1>7

\* Every step keeps the log explained.
LEMMA AuditStep ==
    ASSUME BaseInv, AuditInv, [Next]_vars
    PROVE  AuditInv'
<1>0. StoreType /\ LadderInv /\ ReadInv /\ LadderType /\ Standing /\ st \in RunStates
  BY DEF BaseInv, LadderInv, LadderType, RunStates
<1>1. LadderInv'
  BY <1>0, LadderStep
<1>2. CASE UNCHANGED ladder \/ UNCHANGED vars
  BY <1>2, AuditStays DEF ladder, vars
<1>3. CASE circuit_open
  BY <1>0, <1>3, AuditCircuit
<1>4. CASE defer_item \/ exhausted \/ aborted_item
  <2>1. /\ run' = run /\ calls' = calls
        /\ st' = st \/ st' = [st EXCEPT !.models_off = TRUE]
        /\ \E o \in {"nothing", "deferred", "aborted"} : item' = [item EXCEPT !.phase = o]
    BY <1>4 DEF defer_item, exhausted, aborted_item, Ended
  <2>2. st'.skip = st.skip
    BY <1>0, <2>1 DEF RunStates
  <2>3. item'.phase \in {"nothing", "deferred", "aborted"}
    BY <1>0, <2>1 DEF LadderType
  <2> QED BY <2>1, <2>2, <2>3, AuditStays
<1>5. CASE complete
  <2>1. /\ run' = run /\ calls' = calls /\ st' = [st EXCEPT !.calls_left = @ - 1]
        /\ item.phase = "step" /\ item' = [item EXCEPT !.phase = "waiting"]
    BY <1>5 DEF complete, Rung, Climbing
  <2>2. st'.skip = st.skip
    BY <1>0, <2>1 DEF RunStates
  <2>3. item'.phase = "waiting" /\ item'.at = item.at /\ item'.failed_from = item.failed_from
    BY <1>0, <2>1 DEF LadderType
  <2> QED BY <2>1, <2>2, <2>3, AuditStays
<1>6. CASE deadline
  <2>1. run' = run /\ calls' = calls /\ item' = item /\ st' = [st EXCEPT !.late = TRUE]
    BY <1>6 DEF deadline
  <2>2. st'.skip = st.skip
    BY <1>0, <2>1 DEF RunStates
  <2> QED BY <2>1, <2>2, AuditStays
<1>7. CASE cancel_run \/ run_ends
  <2>1. calls' = <<>> /\ st' = RunState /\ item' = AtTop
    BY <1>7 DEF cancel_run, run_ends, LeaveSlot
  <2> QED BY <1>1, <2>1, AuditFresh
<1>8. CASE \E f \in world.failures : model_failure(f)
  <2>1. PICK f \in world.failures : model_failure(f)
    BY <1>8
  <2>2. f \in ModelFailure
    BY <1>0, LadderAssumption DEF StoreType
  <2> QED BY <1>0, <2>1, <2>2, AuditFailure
<1>9. CASE LadderNext
  BY <1>3, <1>4, <1>5, <1>6, <1>7, <1>8, <1>9 DEF LadderNext
<1>10. CASE Reply
  <2>1. PICK tier, v : tier \in {"local", "remote"} /\ reply(tier, v)
    BY <1>10 DEF Reply, Tiers
  <2> QED BY <1>0, <2>1, AuditReply
<1>11. CASE \/ \E ids \in world.requests : trigger_classify(ids)
            \/ trigger_classify_auto \/ run_selects \/ run_dedups \/ run_starts \/ run_reads
            \/ trigger_propose \/ dedup_run \/ run_propose
  <2>1. run.phase # "items" /\ st' = st /\ item' = item /\ calls' = calls
    BY <1>11 DEF trigger_classify, trigger_classify_auto, run_selects, run_dedups, run_starts, run_reads,
                 trigger_propose, dedup_run, run_propose
  <2>2. calls' = <<>> /\ st' = RunState /\ item' = AtTop
    BY <1>0, <2>1 DEF Standing
  <2> QED BY <1>1, <2>2, AuditFresh
<1>12. CASE \E v : ReflexDecisive(v) \/ ReflexFallback(v)
  BY <1>0, <1>12, AuditReflex
<1> QED BY <1>0, <1>2, <1>9, <1>10, <1>11, <1>12, AuditSettles DEF Next, Work, ClassifyNext, ProposeNext

\* Whatever fails, in every set of worlds and whatever the plan of the run: each
\* row of the call log names the last model above it in the plan as the one it
\* stands in for, or none if there is none, and that model is on record before it
\* as having failed, for the same item or for the whole run (ai/ladder.rs,
\* fallback_from of run_item and its circuit breaker).
THEOREM AuditExplainsInvariant == Spec => []AuditExplains
<1>1. Init => AuditInv
  <2> SUFFICES ASSUME Init PROVE AuditInv
    OBVIOUS
  <2>1. run.phase = "idle" /\ st.skip = {} /\ item.phase = "step" /\ calls = <<>>
    BY DEF Init, LadderInit, NoRun, RunState, AtTop
  <2> QED BY <2>1 DEF AuditInv, Skipping, AllExplained, Decided
<1>2. BaseInv /\ AuditInv /\ [Next]_vars => AuditInv'
  BY AuditStep
<1>3. AuditInv => AuditExplains
  <2> SUFFICES ASSUME AuditInv, NEW i \in DOMAIN calls
               PROVE  \/ /\ calls[i].engine = "reflex" /\ calls[i].fallback_from = None
                         /\ run.steps[1] = "decisive" /\ calls[i].kind # "no_match"
                         /\ \A j \in 1..i-1 : calls[j].item = calls[i].item => calls[j].kind # "undecided"
                      \/ /\ Above(calls[i]) = {} /\ calls[i].fallback_from = None
                      \/ /\ Above(calls[i]) # {} /\ calls[i].fallback_from = run.steps[Max(Above(calls[i]))]
                         /\ \E j \in 1..i-1 :
                               /\ calls[j].engine = calls[i].fallback_from /\ Failed(calls[j])
                               /\ calls[j].item = calls[i].item \/ opens_circuit(calls[j].kind)
    BY DEF AuditExplains
  <2>1. Explained(calls, run.steps, calls[i], i)
    BY DEF AuditInv, AllExplained
  <2>2. Above(calls[i]) = AboveIn(run.steps, calls[i])
    BY DEF Above, AboveIn
  <2> QED BY <2>1, <2>2 DEF Explained, FailedIn
<1> QED BY <1>1, <1>2, <1>3, BaseInvariant, PTL DEF Spec

-----------------------------------------------------------------------------
(* What a run reports *)

\* What propose reports of, and what can be said of a target.
Kinds == {"carry", "reorder", "create"}

Outcomes == {"skipped", "proposed", "rejected", "nothing", "deferred", "aborted"}

ReportItem ==
    [target : IF IsClassify THEN Nat ELSE Kinds,
     result : Outcomes,
     reason : {None, "dedup", "suppressed_rejected", "undetermined", "low_confidence"}]

\* A result for each kind.
IsResults(f, S) == DOMAIN f = Kinds /\ \A k \in Kinds : f[k] \in S

\* A log is linked to proposals of the capability's, to each of them once.
LinksHold(cs, ps) ==
    /\ \A i \in Linked(cs) : cs[i].proposal \in DOMAIN ps /\ ps[cs[i].proposal].source = world.cap
    /\ \A i, j \in Linked(cs) : i # j => cs[i].proposal # cs[j].proposal

\* Items of classify that tell of as many proposals as the log is linked to, and of each.
ToldByItems(items, cs, ps) ==
    /\ Proposed(items) = Cardinality(Linked(cs))
    /\ \A i \in Linked(cs) : \E j \in DOMAIN items :
          items[j].result = "proposed" /\ ps[cs[i].proposal].what = {items[j].target}

\* Results that say so of kinds of proposals.
ToldKinds(results) == {m \in DOMAIN ProposeKind : results[ProposeKind[m]] = "proposed"}

\* So do results of propose, kind by kind.
ToldByKind(results, cs, ps) ==
    /\ Cardinality(ToldKinds(results)) = Cardinality(Linked(cs))
    /\ \A i \in Linked(cs) : LET kind == ps[cs[i].proposal].kind
                              IN  kind \in Kinds /\ results[kind] = "proposed"

\* Nothing but what was aborted comes after an aborted item.
AbortedLast(items) ==
    \A i, j \in DOMAIN items : i < j /\ items[i].result = "aborted" => items[j].result = "aborted"

\* Each target is reported once or still to settle.
Covers(items, todo, asked) ==
    /\ \A j, k \in DOMAIN items : j # k => items[j].target # items[k].target
    /\ \A j \in DOMAIN items, k \in DOMAIN todo : items[j].target # todo[k].task
    /\ asked = {items[j].target : j \in DOMAIN items} \cup {todo[k].task : k \in DOMAIN todo}

\* A classify run so far: its items cover what is no longer to do, and all of
\* them tell the truth.  The first ones are what was skipped.
ClassifyReport ==
    /\ Covers(run.items, run.todo, run.asked)
    /\ AbortedLast(run.items)
    /\ ToldByItems(run.items, calls, proposals)
    /\ \A j \in DOMAIN run.items : run.items[j].result = "aborted" => st.aborted
    /\ run.phase \in {"idle", "auto", "targets"} => run.items = <<>>

\* A propose run: it reports in one go, and keeps what is settled of each kind in
\* the results it has read.  A kind told of as proposed is not submitted again.
ProposeReport ==
    /\ run.phase # "idle" => run.asked = Kinds
    /\ run.phase \in {"targets", "selected"} => run.todo # <<>>
    /\ run.phase # "items" \/ run.todo # <<>> => run.items = <<>>
    /\ run.phase = "items" /\ run.todo = <<>> => \E results :
          /\ IsResults(results, Outcomes)
          /\ run.items = Report(results)
          /\ ToldByKind(results, calls, proposals)
          /\ AbortedLast(run.items)
    /\ run.phase = "items" /\ run.todo # <<>> =>
          /\ IsResults(run.read.results, Outcomes \ {"deferred", "aborted"})
          /\ ToldByKind(run.read.results, calls, proposals)
          /\ \A k \in Kinds : run.read.results[k] = "proposed" =>
                item.phase = "submitting" /\ \A m \in DOMAIN Attempts : m >= item.at => Attempts[m] # k

\* What a run has reported, and is about to, is true to its log and to the store.
RunReport ==
    /\ run.items \in Seq(ReportItem)
    /\ LinksHold(calls, proposals)
    /\ IsClassify => ClassifyReport
    /\ IsPropose => ProposeReport
    /\ item.phase = "aborted" => st.aborted

\* A run is on record once it is over, and whoever polls has read that record.
PollInv ==
    /\ poll = [record |-> poll.record, calls |-> poll.calls]
    /\ run.last # None => run.phase = "idle"
    /\ run.last # None /\ run.last.record.state = "done" =>
          Proposed(run.last.record.items) = Cardinality(Linked(run.last.calls))
    /\ poll.record # None /\ poll.record.state = "done" => run.last # None /\ poll.record = run.last.record

ReportInv == RunReport /\ PollInv

\* As many items as targets, when no two share one.
LEMMA TargetsCounted ==
    ASSUME NEW S, NEW items \in Seq(S), \A j, k \in DOMAIN items : j # k => items[j].target # items[k].target
    PROVE  Len(items) = Cardinality({items[j].target : j \in DOMAIN items})
<1> DEFINE n == Len(items)
<1> DEFINE T == {items[j].target : j \in DOMAIN items}
<1> DEFINE f == [j \in 1..n |-> items[j].target]
<1>1. n \in Nat /\ DOMAIN items = 1..n
  OBVIOUS
<1>2. f \in Bijection(1..n, T)
  BY <1>1 DEF Bijection, Injection, Surjection, IsInjective
<1>3. ExistsBijection(1..n, T)
  BY <1>2 DEF ExistsBijection
<1> HIDE DEF T, n
<1>4. Cardinality(T) = n
  BY <1>1, <1>3, FS_CountingElements
<1> QED BY <1>4 DEF T, n

\* A row more leaves the linked rows where they are.
LEMMA LinkedKept ==
    ASSUME NEW cs \in Seq(CallRow), NEW r \in CallRow, NEW longer, longer = Append(cs, r)
    PROVE  \A i \in Linked(cs) : longer[i] = cs[i]
<1>1. \A i \in DOMAIN cs : longer[i] = cs[i]
  OBVIOUS
<1>2. Linked(cs) \subseteq DOMAIN cs
  BY DEF Linked
<1> QED BY <1>1, <1>2

\* What it links.
LEMMA LinkedAppend ==
    ASSUME NEW cs \in Seq(CallRow), NEW r \in CallRow, NEW longer, longer = Append(cs, r)
    PROVE  /\ IsFiniteSet(Linked(cs)) /\ Cardinality(Linked(cs)) \in Nat
           /\ Len(cs) + 1 \notin Linked(cs)
           /\ longer[Len(cs) + 1] = r
           /\ r.proposal = None => Linked(longer) = Linked(cs)
           /\ r.proposal # None => Linked(longer) = Linked(cs) \cup {Len(cs) + 1}
<1> DEFINE n == Len(cs)
<1>1. n \in Nat /\ DOMAIN cs = 1..n /\ DOMAIN longer = 1..n+1 /\ longer[n+1] = r
      /\ \A i \in 1..n : longer[i] = cs[i]
  OBVIOUS
<1> HIDE DEF n
<1>2. IsFiniteSet(Linked(cs)) /\ n + 1 \notin Linked(cs) /\ Linked(cs) \subseteq 1..n
  <2>1. IsFiniteSet(1..n)
    BY <1>1, FS_Interval
  <2>2. Linked(cs) \subseteq 1..n
    BY <1>1 DEF Linked
  <2> QED BY <1>1, <2>1, <2>2, FS_Subset
<1>3. Cardinality(Linked(cs)) \in Nat
  BY <1>2, FS_CardinalityType
<1>4. r.proposal # None => Linked(longer) = Linked(cs) \cup {n + 1}
  BY <1>1 DEF Linked
<1>5. r.proposal = None => Linked(longer) = Linked(cs)
  BY <1>1 DEF Linked
<1> QED BY <1>1, <1>2, <1>3, <1>4, <1>5 DEF n

\* What one item more tells.
LEMMA ProposedAppend ==
    ASSUME NEW items \in Seq(ReportItem), NEW x \in ReportItem
    PROVE  /\ x.result # "proposed" => Proposed(Append(items, x)) = Proposed(items)
           /\ x.result = "proposed" => Proposed(Append(items, x)) = Proposed(items) + 1
<1> DEFINE n == Len(items)
<1> DEFINE more == Append(items, x)
<1> DEFINE P(s) == {i \in DOMAIN s : s[i].result = "proposed"}
<1>1. n \in Nat /\ DOMAIN items = 1..n /\ DOMAIN more = 1..n+1 /\ more[n+1] = x
      /\ \A i \in 1..n : more[i] = items[i]
  OBVIOUS
<1> HIDE DEF n, more
<1>2. IsFiniteSet(P(items)) /\ n + 1 \notin P(items)
  <2>1. IsFiniteSet(1..n)
    BY <1>1, FS_Interval
  <2>2. P(items) \subseteq 1..n
    BY <1>1
  <2> HIDE DEF P
  <2> QED BY <1>1, <2>1, <2>2, FS_Subset
<1>3. x.result = "proposed" => P(more) = P(items) \cup {n + 1}
  BY <1>1
<1>4. x.result # "proposed" => P(more) = P(items)
  BY <1>1
<1>5. Proposed(more) = Cardinality(P(more)) /\ Proposed(items) = Cardinality(P(items))
  BY DEF Proposed
<1> HIDE DEF P
<1>6. Cardinality(P(items) \cup {n + 1}) = Cardinality(P(items)) + 1
  BY <1>2, FS_AddElement
<1> QED BY <1>3, <1>4, <1>5, <1>6 DEF more

\* Nothing is linked, and nothing told, before the first row.
LEMMA NothingLinked ==
    /\ Linked(<<>>) = {} /\ Cardinality(Linked(<<>>)) = 0
    /\ \A ps : LinksHold(<<>>, ps)
    /\ \A items, ps : (\A j \in DOMAIN items : items[j].result # "proposed") => ToldByItems(items, <<>>, ps)
    /\ \A results, ps : (\A k \in Kinds : results[k] # "proposed") => ToldByKind(results, <<>>, ps)
<1>1. Linked(<<>>) = {} /\ Cardinality({}) = 0
  BY FS_EmptySet DEF Linked
<1>2. ASSUME NEW items, \A j \in DOMAIN items : items[j].result # "proposed" PROVE Proposed(items) = 0
  <2>1. {i \in DOMAIN items : items[i].result = "proposed"} = {}
    BY <1>2
  <2> QED BY <1>1, <2>1 DEF Proposed
<1>3. ASSUME NEW results, \A k \in Kinds : results[k] # "proposed" PROVE ToldKinds(results) = {}
  BY <1>3 DEF ToldKinds, ProposeKind, Kinds
<1>4. \A ps : LinksHold(<<>>, ps)
  BY <1>1 DEF LinksHold
<1>5. \A items, ps : (\A j \in DOMAIN items : items[j].result # "proposed") => ToldByItems(items, <<>>, ps)
  BY <1>1, <1>2 DEF ToldByItems
<1>6. \A results, ps : (\A k \in Kinds : results[k] # "proposed") => ToldByKind(results, <<>>, ps)
  BY <1>1, <1>3 DEF ToldByKind
<1> QED BY <1>1, <1>4, <1>5, <1>6

\* Proposals are never taken back or rewritten.
LEMMA LinksGrow ==
    ASSUME NEW cs, NEW ps, NEW qs, LinksHold(cs, ps), DOMAIN ps \subseteq DOMAIN qs,
           \A i \in DOMAIN ps : qs[i].source = ps[i].source /\ qs[i].kind = ps[i].kind /\ qs[i].what = ps[i].what
    PROVE  /\ LinksHold(cs, qs)
           /\ \A items : ToldByItems(items, cs, ps) => ToldByItems(items, cs, qs)
           /\ \A results : ToldByKind(results, cs, ps) => ToldByKind(results, cs, qs)
<1>1. \A i \in Linked(cs) : cs[i].proposal \in DOMAIN ps
  BY DEF LinksHold
<1>2. LinksHold(cs, qs)
  BY DEF LinksHold
<1>3. \A items : ToldByItems(items, cs, ps) => ToldByItems(items, cs, qs)
  BY <1>1 DEF ToldByItems
<1>4. \A results : ToldByKind(results, cs, ps) => ToldByKind(results, cs, qs)
  BY <1>1 DEF ToldByKind
<1> QED BY <1>2, <1>3, <1>4

\* A row without a proposal changes nothing.
LEMMA UnlinkedRow ==
    ASSUME NEW cs \in Seq(CallRow), NEW r \in CallRow, r.proposal = None, NEW ps, LinksHold(cs, ps)
    PROVE  /\ LinksHold(Append(cs, r), ps)
           /\ \A items : ToldByItems(items, cs, ps) => ToldByItems(items, Append(cs, r), ps)
           /\ \A results : ToldByKind(results, cs, ps) => ToldByKind(results, Append(cs, r), ps)
<1> DEFINE more == Append(cs, r)
<1>0. more = Append(cs, r)
  OBVIOUS
<1> HIDE DEF more
<1>a. \A i \in Linked(cs) : more[i] = cs[i]
  BY <1>0, LinkedKept
<1>b. Linked(more) = Linked(cs)
  BY <1>0, LinkedAppend
<1>1. Linked(more) = Linked(cs) /\ \A i \in Linked(cs) : more[i] = cs[i]
  BY <1>a, <1>b
<1>2. LinksHold(more, ps)
  BY <1>1 DEF LinksHold
<1>3. \A items : ToldByItems(items, cs, ps) => ToldByItems(items, more, ps)
  BY <1>1 DEF ToldByItems
<1>4. \A results : ToldByKind(results, cs, ps) => ToldByKind(results, more, ps)
  BY <1>1 DEF ToldByKind
<1> QED BY <1>2, <1>3, <1>4 DEF more

\* A row with the proposal it was submitted as.
LEMMA LinkedRow ==
    ASSUME NEW cs \in Seq(CallRow), NEW r \in CallRow, NEW ps \in Seq(ProposalRow), NEW p \in ProposalRow,
           r.proposal = Len(ps) + 1, p.source = world.cap, LinksHold(cs, ps)
    PROVE  LinksHold(Append(cs, r), Append(ps, p))
<1> DEFINE more == Append(cs, r)
<1> DEFINE qs == Append(ps, p)
<1>0. r.proposal # None /\ more = Append(cs, r)
  BY AiPortAssumption
<1> HIDE DEF more
<1>c. Linked(more) = Linked(cs) \cup {Len(cs) + 1}
  BY <1>0, LinkedAppend
<1>d. more[Len(cs) + 1] = r /\ Len(cs) + 1 \notin Linked(cs)
  BY <1>0, LinkedAppend
<1>1. /\ Linked(more) = Linked(cs) \cup {Len(cs) + 1} /\ more[Len(cs) + 1] = r
      /\ Len(cs) + 1 \notin Linked(cs)
  BY <1>c, <1>d
<1>a. \A i \in Linked(cs) : more[i] = cs[i]
  BY <1>0, LinkedKept
<1>2. /\ DOMAIN qs = DOMAIN ps \cup {Len(ps) + 1} /\ Len(ps) + 1 \notin DOMAIN ps /\ qs[Len(ps) + 1] = p
      /\ \A i \in DOMAIN ps : qs[i] = ps[i]
  OBVIOUS
<1> HIDE DEF more, qs
<1>3. \A i \in Linked(cs) : cs[i].proposal \in DOMAIN ps /\ ps[cs[i].proposal].source = world.cap
  BY DEF LinksHold
<1>4. ASSUME NEW i \in Linked(more) PROVE more[i].proposal \in DOMAIN qs /\ qs[more[i].proposal].source = world.cap
  BY <1>1, <1>a, <1>2, <1>3, <1>4
<1>5. ASSUME NEW i \in Linked(more), NEW j \in Linked(more), i # j PROVE more[i].proposal # more[j].proposal
  <2>1. CASE i \in Linked(cs) /\ j \in Linked(cs)
    BY <1>1, <1>a, <1>5, <2>1 DEF LinksHold
  <2>2. CASE i \in Linked(cs) /\ j = Len(cs) + 1
    BY <1>1, <1>a, <1>2, <1>3, <2>2
  <2>3. CASE j \in Linked(cs) /\ i = Len(cs) + 1
    BY <1>1, <1>a, <1>2, <1>3, <2>3
  <2> QED BY <1>1, <1>a, <1>5, <2>1, <2>2, <2>3
<1> QED BY <1>4, <1>5 DEF LinksHold, more, qs

\* The item that tells of it.
LEMMA ItemTells ==
    ASSUME NEW cs \in Seq(CallRow), NEW r \in CallRow, NEW ps \in Seq(ProposalRow), NEW p \in ProposalRow,
           r.proposal = Len(ps) + 1, LinksHold(cs, ps),
           NEW items \in Seq(ReportItem), NEW x \in ReportItem, x.result = "proposed", p.what = {x.target},
           ToldByItems(items, cs, ps)
    PROVE  ToldByItems(Append(items, x), Append(cs, r), Append(ps, p))
<1> DEFINE more == Append(cs, r)
<1> DEFINE qs == Append(ps, p)
<1> DEFINE told == Append(items, x)
<1>0. r.proposal # None /\ more = Append(cs, r)
  BY AiPortAssumption
<1> HIDE DEF more
<1>c. Linked(more) = Linked(cs) \cup {Len(cs) + 1}
  BY <1>0, LinkedAppend
<1>d. more[Len(cs) + 1] = r /\ Len(cs) + 1 \notin Linked(cs)
  BY <1>0, LinkedAppend
<1>e. IsFiniteSet(Linked(cs))
  BY <1>0, LinkedAppend
<1>f. Cardinality(Linked(cs) \cup {Len(cs) + 1}) = Cardinality(Linked(cs)) + 1
  BY <1>d, <1>e, FS_AddElement
<1>1. /\ Linked(more) = Linked(cs) \cup {Len(cs) + 1} /\ more[Len(cs) + 1] = r
      /\ Len(cs) + 1 \notin Linked(cs)
      /\ Cardinality(Linked(more)) = Cardinality(Linked(cs)) + 1
  BY <1>c, <1>d, <1>f
<1>a. \A i \in Linked(cs) : more[i] = cs[i]
  BY <1>0, LinkedKept
<1>2. qs[Len(ps) + 1] = p /\ \A i \in DOMAIN ps : qs[i] = ps[i]
  OBVIOUS
<1>3. /\ DOMAIN told = DOMAIN items \cup {Len(items) + 1} /\ told[Len(items) + 1] = x
      /\ \A j \in DOMAIN items : told[j] = items[j]
  OBVIOUS
<1>4. Proposed(told) = Proposed(items) + 1
  BY ProposedAppend
<1> HIDE DEF more, qs, told
<1>5. \A i \in Linked(cs) : cs[i].proposal \in DOMAIN ps
  BY DEF LinksHold
<1>6. ASSUME NEW i \in Linked(more)
      PROVE  \E j \in DOMAIN told : told[j].result = "proposed" /\ qs[more[i].proposal].what = {told[j].target}
  <2>1. CASE i \in Linked(cs)
    <3>1. PICK j \in DOMAIN items : items[j].result = "proposed" /\ ps[cs[i].proposal].what = {items[j].target}
      BY <2>1 DEF ToldByItems
    <3> QED BY <1>1, <1>a, <1>2, <1>3, <1>5, <2>1, <3>1
  <2>2. CASE i = Len(cs) + 1
    BY <1>1, <1>a, <1>2, <1>3, <2>2
  <2> QED BY <1>1, <1>a, <2>1, <2>2
<1>7. Proposed(told) = Cardinality(Linked(more))
  BY <1>1, <1>a, <1>4 DEF ToldByItems
<1> QED BY <1>6, <1>7 DEF ToldByItems, more, qs, told

\* An item that tells of none.
LEMMA ItemTellsNone ==
    ASSUME NEW cs, NEW ps, NEW items \in Seq(ReportItem), NEW x \in ReportItem, x.result # "proposed", ToldByItems(items, cs, ps)
    PROVE  ToldByItems(Append(items, x), cs, ps)
<1> DEFINE told == Append(items, x)
<1>1. DOMAIN items \subseteq DOMAIN told /\ \A j \in DOMAIN items : told[j] = items[j]
  OBVIOUS
<1>2. Proposed(told) = Proposed(items)
  BY ProposedAppend
<1> HIDE DEF told
<1> QED BY <1>1, <1>2 DEF ToldByItems, told

\* An initial segment is finite.
LEMMA UpTo == ASSUME NEW n \in Nat PROVE IsFiniteSet(1..n)
BY FS_Interval

\* Telling of one kind more.
LEMMA ToldKindsAdd ==
    ASSUME NEW results, DOMAIN results = Kinds, NEW k \in Kinds, NEW o, results[k] # "proposed"
    PROVE  /\ o = "proposed" => Cardinality(ToldKinds([results EXCEPT ![k] = o])) = Cardinality(ToldKinds(results)) + 1
           /\ o # "proposed" => ToldKinds([results EXCEPT ![k] = o]) = ToldKinds(results)
<1> DEFINE next == [results EXCEPT ![k] = o]
<1>1. next[k] = o /\ \A l \in Kinds : l # k => next[l] = results[l]
  OBVIOUS
<1> HIDE DEF next
<1>2. /\ DOMAIN ProposeKind = 1..3 /\ \A m \in 1..3 : ProposeKind[m] \in Kinds
      /\ \A l, m \in 1..3 : ProposeKind[l] = ProposeKind[m] => l = m
      /\ \E m \in 1..3 : ProposeKind[m] = k
  BY DEF ProposeKind, Kinds
<1>3. PICK m \in 1..3 : ProposeKind[m] = k
  BY <1>2
<1>4. IsFiniteSet(ToldKinds(results)) /\ m \notin ToldKinds(results)
  <2>0. IsFiniteSet(1..3)
    BY UpTo
  <2>1. ToldKinds(results) \subseteq 1..3
    BY <1>2 DEF ToldKinds
  <2>2. m \notin ToldKinds(results)
    BY <1>3 DEF ToldKinds
  <2> QED BY <2>0, <2>1, <2>2, FS_Subset
<1>5. o = "proposed" => ToldKinds(next) = ToldKinds(results) \cup {m}
  BY <1>1, <1>2, <1>3 DEF ToldKinds
<1>6. o # "proposed" => ToldKinds(next) = ToldKinds(results)
  BY <1>1, <1>2, <1>3 DEF ToldKinds
<1>7. Cardinality(ToldKinds(results) \cup {m}) = Cardinality(ToldKinds(results)) + 1
  BY <1>4, FS_AddElement
<1> QED BY <1>5, <1>6, <1>7 DEF next

\* The result that tells of a proposal, kind by kind.
LEMMA KindTells ==
    ASSUME NEW cs \in Seq(CallRow), NEW r \in CallRow, NEW ps \in Seq(ProposalRow), NEW p \in ProposalRow,
           r.proposal = Len(ps) + 1, LinksHold(cs, ps),
           NEW results, DOMAIN results = Kinds, p.kind \in Kinds, results[p.kind] # "proposed",
           ToldByKind(results, cs, ps)
    PROVE  ToldByKind([results EXCEPT ![p.kind] = "proposed"], Append(cs, r), Append(ps, p))
<1> DEFINE more == Append(cs, r)
<1> DEFINE qs == Append(ps, p)
<1> DEFINE next == [results EXCEPT ![p.kind] = "proposed"]
<1>0. r.proposal # None /\ more = Append(cs, r)
  BY AiPortAssumption
<1> HIDE DEF more
<1>c. Linked(more) = Linked(cs) \cup {Len(cs) + 1}
  BY <1>0, LinkedAppend
<1>d. more[Len(cs) + 1] = r /\ Len(cs) + 1 \notin Linked(cs)
  BY <1>0, LinkedAppend
<1>e. IsFiniteSet(Linked(cs))
  BY <1>0, LinkedAppend
<1>f. Cardinality(Linked(cs) \cup {Len(cs) + 1}) = Cardinality(Linked(cs)) + 1
  BY <1>d, <1>e, FS_AddElement
<1>1. /\ Linked(more) = Linked(cs) \cup {Len(cs) + 1} /\ more[Len(cs) + 1] = r
      /\ Len(cs) + 1 \notin Linked(cs)
      /\ Cardinality(Linked(more)) = Cardinality(Linked(cs)) + 1
  BY <1>c, <1>d, <1>f
<1>a. \A i \in Linked(cs) : more[i] = cs[i]
  BY <1>0, LinkedKept
<1>2. qs[Len(ps) + 1] = p /\ \A i \in DOMAIN ps : qs[i] = ps[i]
  OBVIOUS
<1>3. /\ next[p.kind] = "proposed"
      /\ \A k : results[k] = "proposed" /\ k \in Kinds => next[k] = "proposed"
  OBVIOUS
<1>b. Cardinality(ToldKinds(next)) = Cardinality(ToldKinds(results)) + 1
  BY ToldKindsAdd
<1> HIDE DEF qs, next
<1>4. \A i \in Linked(cs) : cs[i].proposal \in DOMAIN ps
  BY DEF LinksHold
<1>5. \A i \in Linked(cs) : results[ps[cs[i].proposal].kind] = "proposed" /\ ps[cs[i].proposal].kind \in Kinds
  BY DEF ToldByKind
<1>6. ASSUME NEW i \in Linked(more) 
      PROVE  qs[more[i].proposal].kind \in Kinds /\ next[qs[more[i].proposal].kind] = "proposed"
  <2>1. CASE i \in Linked(cs)
    BY <1>2, <1>3, <1>4, <1>5, <1>a, <2>1
  <2>2. CASE i = Len(cs) + 1
    BY <1>1, <1>2, <1>3, <2>2
  <2> QED BY <1>1, <2>1, <2>2
<1>7. Cardinality(ToldKinds(next)) = Cardinality(Linked(more))
  BY <1>1, <1>b DEF ToldByKind
<1> QED BY <1>6, <1>7 DEF ToldByKind, more, qs, next

\* Proposals are never taken back or rewritten but in their status.
Grown ==
    /\ DOMAIN proposals \subseteq DOMAIN proposals'
    /\ \A i \in DOMAIN proposals : /\ proposals'[i].source = proposals[i].source
                                   /\ proposals'[i].kind = proposals[i].kind
                                   /\ proposals'[i].what = proposals[i].what

\* What a report of results says.
LEMMA ReportIs ==
    ASSUME ~IsClassify, NEW results, IsResults(results, Outcomes)
    PROVE  /\ Report(results) \in Seq(ReportItem) /\ Len(Report(results)) = 3
           /\ DOMAIN Report(results) = 1..3
           /\ \A m \in 1..3 : /\ Report(results)[m].target = ProposeKind[m]
                              /\ Report(results)[m].result = results[ProposeKind[m]]
           /\ Proposed(Report(results)) = Cardinality(ToldKinds(results))
           /\ (\A k \in Kinds : results[k] # "aborted") \/ (\A k \in Kinds : results[k] = "aborted")
              => AbortedLast(Report(results))
<1> DEFINE x(m) == ProposeItem(ProposeKind[m], results[ProposeKind[m]])
<1> DEFINE t == Report(results)
<1>1. DOMAIN ProposeKind = 1..3 /\ \A m \in 1..3 : ProposeKind[m] \in Kinds
  BY DEF ProposeKind, Kinds
<1>2. t = [m \in 1..3 |-> x(m)]
  BY <1>1 DEF Report
<1>3. ASSUME NEW m \in 1..3
      PROVE  x(m) \in ReportItem /\ x(m).target = ProposeKind[m] /\ x(m).result = results[ProposeKind[m]]
  <2> DEFINE k == ProposeKind[m]
  <2>1. k \in Kinds /\ results[k] \in Outcomes
    BY <1>1, <1>3 DEF IsResults
  <2> HIDE DEF k
  <2>2. ProposeItem(k, results[k]) = [target |-> k, result |-> results[k],
                                      reason |-> IF results[k] = "skipped" THEN "dedup" ELSE None]
    BY DEF ProposeItem, AiRunItem
  <2>3. ProposeItem(k, results[k]) \in ReportItem
    BY <2>1, <2>2 DEF ReportItem
  <2> QED BY <2>2, <2>3 DEF k
<1> HIDE DEF x
<1>4. t \in Seq(ReportItem) /\ Len(t) = 3 /\ DOMAIN t = 1..3 /\ \A m \in 1..3 : t[m] = x(m)
  BY <1>2, <1>3
<1> HIDE DEF t
<1>5. {i \in DOMAIN t : t[i].result = "proposed"} = ToldKinds(results)
  BY <1>1, <1>3, <1>4 DEF ToldKinds
<1>6. Proposed(t) = Cardinality(ToldKinds(results))
  BY <1>5 DEF Proposed
<1>7. (\A k \in Kinds : results[k] # "aborted") \/ (\A k \in Kinds : results[k] = "aborted") => AbortedLast(t)
  BY <1>1, <1>3, <1>4 DEF AbortedLast
<1> QED BY <1>3, <1>4, <1>6, <1>7 DEF t

\* A step that settles nothing and sets nothing up.
LEMMA ReportStays ==
    ASSUME LadderInv, RunReport, world' = world, run' = run, Grown, st.aborted => st'.aborted,
           calls' = calls \/ \E r \in CallRow : r.proposal = None /\ calls' = Append(calls, r),
           item'.phase = "aborted" => st'.aborted,
           item' = item \/ item.phase # "submitting"
    PROVE  RunReport'
<1>0. calls \in Seq(CallRow) /\ (IsClassify' <=> IsClassify) /\ (IsPropose' <=> IsPropose)
  BY DEF LadderInv, LadderType, IsClassify, IsPropose
<1>1. /\ LinksHold(calls, proposals')
      /\ \A items : ToldByItems(items, calls, proposals) => ToldByItems(items, calls, proposals')
      /\ \A results : ToldByKind(results, calls, proposals) => ToldByKind(results, calls, proposals')
  BY LinksGrow DEF RunReport, Grown
<1>2. /\ LinksHold(calls', proposals')
      /\ \A items : ToldByItems(items, calls, proposals') => ToldByItems(items, calls', proposals')
      /\ \A results : ToldByKind(results, calls, proposals') => ToldByKind(results, calls', proposals')
  <2>1. CASE calls' = calls
    BY <1>1, <2>1
  <2>2. CASE \E r \in CallRow : r.proposal = None /\ calls' = Append(calls, r)
    BY <1>0, <1>1, <2>2, UnlinkedRow
  <2> QED BY <2>1, <2>2
<1>3. (run.items \in Seq(ReportItem))' /\ LinksHold(calls, proposals)'
  BY <1>0, <1>2 DEF RunReport, ReportItem, LinksHold
<1>4. ASSUME IsClassify PROVE ClassifyReport'
  <2>1. ClassifyReport
    BY <1>4 DEF RunReport
  <2>2. ToldByItems(run.items, calls', proposals')
    BY <1>1, <1>2, <2>1 DEF ClassifyReport
  <2> QED BY <2>1, <2>2 DEF ClassifyReport, ToldByItems
<1>5. ASSUME IsPropose PROVE ProposeReport'
  <2>1. ProposeReport
    BY <1>5 DEF RunReport
  <2>2. \A results : ToldByKind(results, calls, proposals) => ToldByKind(results, calls, proposals)'
    BY <1>1, <1>2 DEF ToldByKind
  <2>3. item' = item => Attempts' = Attempts
    BY DEF Attempts
  <2>4. run.phase = "items" /\ run.todo # <<>> =>
          \A k \in Kinds : run.read.results[k] = "proposed" =>
             item'.phase = "submitting" /\ \A m \in DOMAIN Attempts' : m >= item'.at => Attempts'[m] # k
    <3> HIDE DEF Attempts
    <3> QED BY <2>1, <2>3 DEF ProposeReport
  <2> HIDE DEF Attempts
  <2>5. (run.phase = "items" /\ run.todo = <<>> => \E results :
          /\ IsResults(results, Outcomes)
          /\ run.items = Report(results)
          /\ ToldByKind(results, calls, proposals)
          /\ AbortedLast(run.items))'
    BY <2>1, <2>2 DEF ProposeReport, Report, ProposeItem
  <2>6. (run.phase = "items" /\ run.todo # <<>> =>
          /\ IsResults(run.read.results, Outcomes \ {"deferred", "aborted"})
          /\ ToldByKind(run.read.results, calls, proposals))'
    BY <2>1, <2>2 DEF ProposeReport
  <2> QED BY <2>1, <2>4, <2>5, <2>6 DEF ProposeReport
<1> QED BY <1>0, <1>3, <1>4, <1>5 DEF RunReport

\* A run that is over leaves an empty slot.
LEMMA ReportFresh ==
    ASSUME world' = world, calls' = <<>>, item'.phase = "step",
           run'.phase = "idle", run'.todo = <<>>, run'.items = <<>>, run'.asked = {}
    PROVE  RunReport'
<1>1. /\ run'.items \in Seq(ReportItem') /\ LinksHold(<<>>, proposals') /\ DOMAIN <<>> = {}
      /\ ToldByItems(<<>>, <<>>, proposals')
  BY NothingLinked
<1>2. LinksHold(calls, proposals)'
  BY <1>1 DEF LinksHold
<1>3. ClassifyReport'
  BY <1>1 DEF ClassifyReport, Covers, AbortedLast, ToldByItems
<1>4. ProposeReport'
  BY DEF ProposeReport
<1> QED BY <1>1, <1>2, <1>3, <1>4 DEF RunReport

\* Before a classify run takes up its first task.
LEMMA ClassifyOut ==
    ASSUME LadderInv, RunReport, IsClassify, world' = world, UNCHANGED <<proposals, st, item, calls>>,
           run.phase # "items", run'.items \in Seq(ReportItem), Covers(run'.items, run'.todo, run'.asked),
           \A j \in DOMAIN run'.items : run'.items[j].result \notin {"proposed", "aborted"},
           run'.phase \in {"idle", "auto", "targets"} => run'.items = <<>>
    PROVE  RunReport'
<1>1. calls = <<>> /\ item.phase = "step" /\ ~IsPropose
  BY DEF LadderInv, Standing, AtTop, IsPropose, IsClassify
<1>2. ToldByItems(run'.items, <<>>, proposals) /\ AbortedLast(run'.items) /\ LinksHold(<<>>, proposals)
  BY NothingLinked DEF AbortedLast
<1>3. (ToldByItems(run.items, calls, proposals) /\ LinksHold(calls, proposals))'
  BY <1>1, <1>2 DEF ToldByItems, LinksHold
<1>4. ClassifyReport'
  BY <1>2, <1>3 DEF ClassifyReport
<1>5. ~IsPropose' /\ ReportItem' = ReportItem /\ item'.phase # "aborted"
  BY <1>1 DEF IsPropose, ReportItem, IsClassify
<1> QED BY <1>3, <1>4, <1>5 DEF RunReport

\* The targets of a fresh run.
LEMMA FreshCovers ==
    ASSUME IsClassify, NEW ids \in Seq(Nat), \A i, j \in DOMAIN ids : i # j => ids[i] # ids[j]
    PROVE  Covers(<<>>, Copies(ids), Range(ids))
<1>1. DOMAIN Copies(ids) = DOMAIN ids /\ \A i \in DOMAIN ids : Copies(ids)[i].task = ids[i]
  BY CopiesAre
<1>2. DOMAIN <<>> = {}
  OBVIOUS
<1>3. Range(ids) = {Copies(ids)[k].task : k \in DOMAIN Copies(ids)}
  BY <1>1 DEF Range
<1> QED BY <1>2, <1>3 DEF Covers

\* How the targets left out are reported.
LEMMA SkippedIs ==
    ASSUME IsClassify, NEW out \in Seq(Targets)
    PROVE  /\ build_classify_run_items(out) \in Seq(ReportItem)
           /\ DOMAIN build_classify_run_items(out) = DOMAIN out
           /\ \A i \in DOMAIN out : /\ build_classify_run_items(out)[i].target = out[i].task
                                    /\ build_classify_run_items(out)[i].result = "skipped"
<1> DEFINE x(i) == AiRunItem(out[i].task, "skipped",
                             IF out[i].task \in already_pending(run.asked) THEN "dedup"
                             ELSE "suppressed_rejected")
<1>1. build_classify_run_items(out) = [i \in 1..Len(out) |-> x(i)] /\ DOMAIN out = 1..Len(out) /\ Len(out) \in Nat
  BY DEF build_classify_run_items
<1>2. ASSUME NEW i \in 1..Len(out)
      PROVE  x(i) \in ReportItem /\ x(i).target = out[i].task /\ x(i).result = "skipped"
  <2>1. out[i].task \in Nat
    <3>1. out[i] \in Targets
      OBVIOUS
    <3>2. Targets = [task : Nat, parked : BOOLEAN]
      BY DEF Targets
    <3> QED BY <3>1, <3>2
  <2> QED BY <2>1 DEF AiRunItem, ReportItem, Outcomes
<1> HIDE DEF x
<1> QED BY <1>1, <1>2

\* A classify run sets out.
LEMMA ClassifySetsOutReport ==
    ASSUME BaseInv, RunReport, world' = world,
           \/ \E ids \in world.requests : trigger_classify(ids)
           \/ trigger_classify_auto \/ run_selects \/ run_dedups \/ run_starts \/ run_reads
    PROVE  RunReport'
<1>1. LadderType /\ Distinct /\ StoreType /\ LadderInv
  BY DEF BaseInv, LadderInv
<1>2. IsClassify /\ ~IsPropose /\ ClassifyReport /\ run.items \in Seq(ReportItem)
  BY DEF trigger_classify, trigger_classify_auto, run_selects, run_dedups, run_starts, run_reads,
         RunReport, IsClassify, IsPropose
<1>3. UNCHANGED <<proposals, st, item, calls>> /\ run.phase # "items"
  BY DEF trigger_classify, trigger_classify_auto, run_selects, run_dedups, run_starts, run_reads, store
<1>4. DOMAIN <<>> = {} /\ <<>> \in Seq(ReportItem)
  OBVIOUS
<1>5. CASE \E ids \in world.requests : trigger_classify(ids)
  <2>1. PICK ids \in world.requests : trigger_classify(ids)
    BY <1>5
  <2>2. ids \in Seq(Nat) /\ \A i, j \in DOMAIN ids : i # j => ids[i] # ids[j]
    <3>1. ids \in Seq(Nat)
      BY <1>1, AiPortAssumption DEF StoreType
    <3> QED BY <2>1, <3>1 DEF trigger_classify, select_targets, IsInjective
  <2>3. run' = [NoRun EXCEPT !.phase = "targets", !.todo = Copies(ids), !.asked = Range(ids)]
    BY <2>1 DEF trigger_classify
  <2>4. run'.items = <<>> /\ run'.todo = Copies(ids) /\ run'.asked = Range(ids)
    BY <2>3 DEF NoRun
  <2> QED BY <1>1, <1>2, <1>3, <1>4, <2>2, <2>4, FreshCovers, ClassifyOut
<1>6. CASE trigger_classify_auto
  <2>1. run'.items = <<>> /\ run'.todo = <<>> /\ run'.asked = {}
    BY <1>6 DEF trigger_classify_auto, NoRun
  <2>2. Covers(<<>>, <<>>, {})
    BY <1>4 DEF Covers
  <2> QED BY <1>1, <1>2, <1>3, <1>4, <2>1, <2>2, ClassifyOut
<1>7. CASE run_selects
  <2> DEFINE ids == auto_select_targets
  <2>1. ids \in Seq(Nat) /\ \A i, j \in DOMAIN ids : i # j => ids[i] # ids[j]
    BY <1>1, AutoTargets
  <2>2. run' = [run EXCEPT !.phase = "targets", !.todo = Copies(ids), !.asked = Range(ids)]
    BY <1>7 DEF run_selects
  <2> HIDE DEF ids
  <2>3. run'.items = run.items /\ run'.todo = Copies(ids) /\ run'.asked = Range(ids)
    BY <1>1, <2>2 DEF LadderType
  <2>4. run.items = <<>>
    BY <1>2, <1>7 DEF run_selects, ClassifyReport
  <2> QED BY <1>1, <1>2, <1>3, <1>4, <2>1, <2>3, <2>4, FreshCovers, ClassifyOut
<1>8. CASE run_dedups
  <2> DEFINE kept == dedup_targets(run.asked)
  <2> DEFINE A == {c \in Range(run.todo) : c.task \in kept}
  <2> DEFINE B == {c \in Range(run.todo) : c.task \in run.asked \ kept}
  <2> DEFINE left == Only(run.todo, A)
  <2> DEFINE out == Only(run.todo, B)
  <2> DEFINE items == build_classify_run_items(out)
  <2>1. run.phase = "targets"
        /\ run' = [run EXCEPT !.phase = "selected", !.todo = left, !.items = items]
    BY <1>8 DEF run_dedups
  <2>2. kept \subseteq run.asked
    BY DEF dedup_targets
  <2>3. /\ run.todo \in Seq(Targets)
        /\ \A i, j \in DOMAIN run.todo : i # j => run.todo[i] # run.todo[j]
        /\ \A x, y \in Range(run.todo) : x # y => x.task # y.task
    BY <1>1, <1>2 DEF LadderType, Distinct, Range
  <2>4. \A t \in run.asked : \E c \in Range(run.todo) : c.task = t
    <3>1. run.items = <<>> /\ Covers(run.items, run.todo, run.asked)
      BY <1>2, <2>1 DEF ClassifyReport
    <3> QED BY <1>4, <3>1 DEF Covers, Range
  <2>5. /\ \A c : c \in A <=> c \in Range(run.todo) /\ c.task \in kept
        /\ \A c : c \in B <=> c \in Range(run.todo) /\ c.task \in run.asked \ kept
    OBVIOUS
  <2> HIDE DEF kept, A, B
  <2>6. Range(left) = Range(run.todo) \cap A
    BY <2>3, OnlyIs
  <2>7. /\ out \in Seq(Targets) /\ Range(out) = Range(run.todo) \cap B
        /\ \A i, j \in DOMAIN out : i # j => out[i] # out[j]
    BY <2>3, OnlyIs
  <2> HIDE DEF left, out
  <2>8. /\ items \in Seq(ReportItem) /\ DOMAIN items = DOMAIN out
        /\ \A i \in DOMAIN items : items[i].target = out[i].task /\ items[i].result = "skipped"
    BY <1>2, <2>7, SkippedIs
  <2> HIDE DEF items
  <2>9. /\ \A c : c \in Range(left) <=> \E i \in DOMAIN left : left[i] = c
        /\ \A c : c \in Range(out) <=> \E i \in DOMAIN out : out[i] = c
    BY DEF Range
  <2>10. /\ \A i \in DOMAIN left : left[i].task \in kept
         /\ \A c \in Range(run.todo) : c.task \in kept => \E i \in DOMAIN left : left[i] = c
    BY <2>5, <2>6, <2>9
  <2>11. /\ \A i \in DOMAIN out : out[i] \in Range(run.todo) /\ out[i].task \in run.asked \ kept
         /\ \A c \in Range(run.todo) : c.task \in run.asked \ kept => \E i \in DOMAIN out : out[i] = c
    BY <2>5, <2>7, <2>9
  <2>12. Covers(items, left, run.asked)
    <3> DEFINE S == Range(run.todo)
    <3> DEFINE asked == run.asked
    <3>1. \A x, y \in S : x # y => x.task # y.task
      BY <2>3
    <3>2. \A t \in asked : \E c \in S : c.task = t
      BY <2>4
    <3>3. \A i \in DOMAIN left : left[i].task \in kept
      BY <2>10
    <3>4. \A c \in S : c.task \in kept => \E i \in DOMAIN left : left[i] = c
      BY <2>10
    <3>5. \A i \in DOMAIN out : out[i] \in S /\ out[i].task \in asked \ kept
      BY <2>11
    <3>6. \A c \in S : c.task \in asked \ kept => \E i \in DOMAIN out : out[i] = c
      BY <2>11
    <3>7. \A i, j \in DOMAIN out : i # j => out[i] # out[j]
      BY <2>7
    <3>8. DOMAIN items = DOMAIN out /\ \A i \in DOMAIN items : items[i].target = out[i].task
      BY <2>8
    <3>9. kept \subseteq asked
      BY <2>2
    <3> HIDE DEF S, asked
    <3>10. \A j, k \in DOMAIN items : j # k => items[j].target # items[k].target
      BY <3>1, <3>5, <3>7, <3>8
    <3>11. \A j \in DOMAIN items, k \in DOMAIN left : items[j].target # left[k].task
      BY <3>3, <3>5, <3>8
    <3> DEFINE told == {items[j].target : j \in DOMAIN items} \cup {left[k].task : k \in DOMAIN left}
    <3>12. told \subseteq asked
      BY <3>3, <3>5, <3>8, <3>9
    <3>13. ASSUME NEW t \in asked PROVE t \in told
      <4>1. PICK c \in S : c.task = t
        BY <3>2
      <4>2. (\E i \in DOMAIN left : left[i] = c) \/ (\E i \in DOMAIN out : out[i] = c)
        BY <3>4, <3>6, <4>1
      <4> QED BY <3>8, <4>1, <4>2
    <3>14. asked = told
      BY <3>12, <3>13
    <3> QED BY <3>10, <3>11, <3>14 DEF Covers, asked
  <2>13. run'.items = items /\ run'.todo = left /\ run'.asked = run.asked /\ run'.phase = "selected"
    BY <1>1, <2>1 DEF LadderType
  <2> QED BY <1>1, <1>2, <1>3, <2>8, <2>12, <2>13, ClassifyOut
<1>9. CASE run_starts \/ run_reads
  <2>1. run'.items = run.items /\ run'.todo = run.todo /\ run'.asked = run.asked /\ run'.phase \in {"started", "items"}
    <3>1. CASE run_starts
      <4> DEFINE read == [started |-> clock, candidates |-> {}]
      <4>1. run' = [run EXCEPT !.phase = "started", !.read = read]
        BY <3>1 DEF run_starts
      <4> HIDE DEF read
      <4> QED BY <1>1, <4>1 DEF LadderType
    <3>2. CASE run_reads
      <4> DEFINE steps == plan("classify", executive)
      <4> DEFINE read == [run.read EXCEPT !.candidates = direction_candidates]
      <4>1. run' = [run EXCEPT !.phase = "items", !.steps = steps, !.read = read]
        BY <3>2 DEF run_reads
      <4> HIDE DEF read, steps
      <4> QED BY <1>1, <4>1 DEF LadderType
    <3> QED BY <1>9, <3>1, <3>2
  <2>2. calls = <<>> /\ ~st.aborted
    BY <1>1, <1>3 DEF LadderInv, Standing, RunState
  <2>3. Proposed(run.items) = 0 /\ Covers(run.items, run.todo, run.asked)
    BY <1>2, <2>2, NothingLinked DEF ClassifyReport, ToldByItems
  <2>4. \A j \in DOMAIN run.items : run.items[j].result \notin {"proposed", "aborted"}
    <3>1. {j \in DOMAIN run.items : run.items[j].result = "proposed"} = {}
      <4> DEFINE P == {j \in DOMAIN run.items : run.items[j].result = "proposed"}
      <4>1. Cardinality(P) = 0
        BY <2>3 DEF Proposed
      <4>2. DOMAIN run.items = 1..Len(run.items) /\ Len(run.items) \in Nat
        BY <1>2
      <4>3. IsFiniteSet(1..Len(run.items)) /\ P \subseteq 1..Len(run.items)
        BY <4>2, UpTo
      <4> HIDE DEF P
      <4>4. P = {}
        BY <4>1, <4>3, FS_Subset, FS_EmptySet
      <4> QED BY <4>4 DEF P
    <3> QED BY <1>2, <2>2, <3>1 DEF ClassifyReport
  <2> QED BY <1>1, <1>2, <1>3, <2>1, <2>3, <2>4, ClassifyOut
<1> QED BY <1>5, <1>6, <1>7, <1>8, <1>9

\* Settling a target moves it from what is to settle to what is reported.
LEMMA CoversOn ==
    ASSUME NEW items \in Seq(ReportItem), NEW x \in ReportItem, NEW todo \in Seq(Targets), todo # <<>>,
           \A i, j \in DOMAIN todo : i # j => todo[i].task # todo[j].task,
           x.target = Head(todo).task, NEW asked, Covers(items, todo, asked)
    PROVE  Covers(Append(items, x), Tail(todo), asked)
<1> DEFINE told == Append(items, x)
<1> DEFINE left == Tail(todo)
<1> DEFINE n == Len(items)
<1>1. /\ DOMAIN told = DOMAIN items \cup {n + 1} /\ told[n + 1] = x /\ n + 1 \notin DOMAIN items
      /\ \A j \in DOMAIN items : told[j] = items[j]
  OBVIOUS
<1>2. Head(todo) = todo[1] /\ 1 \in DOMAIN todo /\ DOMAIN todo = 1..Len(todo) /\ Len(todo) \in Nat
  OBVIOUS
<1>3. \A k \in DOMAIN left : left[k] = todo[k + 1] /\ k + 1 \in DOMAIN todo /\ k + 1 # 1
  OBVIOUS
<1>4. \A k \in DOMAIN todo : k = 1 \/ \E m \in DOMAIN left : left[m] = todo[k]
  <2>1. ASSUME NEW k \in DOMAIN todo, k # 1 PROVE k - 1 \in DOMAIN left /\ left[k - 1] = todo[k]
    <3>1. k \in 2..Len(todo) /\ k - 1 \in 1..Len(todo)-1 /\ (k - 1) + 1 = k
      BY <1>2, <2>1
    <3>2. DOMAIN left = 1..Len(todo)-1
      OBVIOUS
    <3> QED BY <1>3, <3>1, <3>2
  <2> QED BY <2>1
<1> HIDE DEF told, left, n
<1>5. /\ \A j, k \in DOMAIN items : j # k => items[j].target # items[k].target
      /\ \A j \in DOMAIN items, k \in DOMAIN todo : items[j].target # todo[k].task
      /\ asked = {items[j].target : j \in DOMAIN items} \cup {todo[k].task : k \in DOMAIN todo}
  BY DEF Covers
<1>6. \A j, k \in DOMAIN told : j # k => told[j].target # told[k].target
  BY <1>1, <1>2, <1>5
<1>7. \A j \in DOMAIN told, k \in DOMAIN left : told[j].target # left[k].task
  BY <1>1, <1>2, <1>3, <1>5
<1> DEFINE all == {told[j].target : j \in DOMAIN told} \cup {left[k].task : k \in DOMAIN left}
<1>8. ASSUME NEW t \in asked PROVE t \in all
  <2>1. CASE \E j \in DOMAIN items : t = items[j].target
    BY <1>1, <2>1
  <2>2. CASE \E k \in DOMAIN todo : t = todo[k].task
    BY <1>1, <1>2, <1>4, <2>2
  <2> QED BY <1>5, <2>1, <2>2
<1>9. ASSUME NEW t \in all PROVE t \in asked
  <2>1. CASE \E j \in DOMAIN told : t = told[j].target
    BY <1>1, <1>2, <1>5, <2>1
  <2>2. CASE \E k \in DOMAIN left : t = left[k].task
    BY <1>3, <1>5, <2>2
  <2> QED BY <2>1, <2>2
<1>10. asked = all
  BY <1>8, <1>9
<1> QED BY <1>6, <1>7, <1>10 DEF Covers, told, left

\* A task is settled, and the report tells how.
LEMMA TellsOn ==
    ASSUME LadderInv, RunReport, IsClassify, world' = world, st' = st, run.phase = "items", run.todo # <<>>,
           NEW x \in ReportItem, x.target = Head(run.todo).task, x.result = "aborted" <=> st.aborted,
           run' = [run EXCEPT !.todo = Tail(run.todo), !.items = run.items \o <<x>>], item' = AtTop,
           LinksHold(calls', proposals'), ToldByItems(Append(run.items, x), calls', proposals')
    PROVE  RunReport'
<1>1. LadderType /\ Distinct /\ run.items \in Seq(ReportItem) /\ ClassifyReport
  BY DEF LadderInv, RunReport
<1> DEFINE items == run.items \o <<x>>
<1>2. items = Append(run.items, x)
  BY <1>1
<1> HIDE DEF items
<1>3. run' = [run EXCEPT !.todo = Tail(run.todo), !.items = items]
  BY DEF items
<1>4. run'.items = items /\ run'.todo = Tail(run.todo) /\ run'.asked = run.asked /\ run'.phase = "items"
  BY <1>1, <1>3 DEF LadderType
<1>5. items \in Seq(ReportItem)
  BY <1>1, <1>2
<1>6. Covers(items, Tail(run.todo), run.asked)
  <2>1. run.todo \in Seq(Targets) /\ \A i, j \in DOMAIN run.todo : i # j => run.todo[i].task # run.todo[j].task
    BY <1>1 DEF LadderType, Distinct
  <2>2. Covers(run.items, run.todo, run.asked)
    BY <1>1 DEF ClassifyReport
  <2> QED BY <1>1, <1>2, <2>1, <2>2, CoversOn
<1>7. /\ DOMAIN items = DOMAIN run.items \cup {Len(run.items) + 1} /\ items[Len(run.items) + 1] = x
      /\ \A j \in DOMAIN run.items : items[j] = run.items[j] /\ j < Len(run.items) + 1
  BY <1>1, <1>2
<1>8. \A j \in DOMAIN items : items[j].result = "aborted" => st.aborted
  BY <1>1, <1>7 DEF ClassifyReport
<1>9. AbortedLast(items)
  <2>1. SUFFICES ASSUME NEW i \in DOMAIN items, NEW j \in DOMAIN items, i < j, items[i].result = "aborted"
                 PROVE  items[j].result = "aborted"
    BY DEF AbortedLast
  <2>2. CASE j = Len(run.items) + 1
    BY <1>7, <1>8, <2>1, <2>2
  <2>3. CASE j \in DOMAIN run.items
    <3>1. i \in DOMAIN run.items
      BY <1>1, <1>7, <2>1, <2>3
    <3> QED BY <1>1, <1>7, <2>1, <2>3, <3>1 DEF ClassifyReport, AbortedLast
  <2> QED BY <1>7, <2>2, <2>3
<1>10. ToldByItems(items, calls', proposals')
  BY <1>2
<1>11. (ToldByItems(run.items, calls, proposals) /\ LinksHold(calls, proposals))'
  BY <1>4, <1>10 DEF ToldByItems, LinksHold
<1>12. ClassifyReport'
  BY <1>4, <1>6, <1>8, <1>9, <1>11 DEF ClassifyReport
<1>13. ~IsPropose' /\ ReportItem' = ReportItem /\ item'.phase # "aborted"
  BY DEF IsPropose, ReportItem, IsClassify, AtTop
<1> QED BY <1>4, <1>5, <1>11, <1>12, <1>13 DEF RunReport

\* The row a submission writes.
LEMMA SubmittedRow ==
    ASSUME LadderInv, proposals \in Seq(ProposalRow), Decided, NEW answer \in {"ok", "rejected_by_precheck", "submit_store_error"},
           NEW b \in BOOLEAN
    PROVE  \E r \in CallRow : /\ insert_call_row(answer, b) = Append(calls, r)
                              /\ answer = "ok" => r.proposal = Len(proposals) + 1
                              /\ answer # "ok" => r.proposal = None
<1> DEFINE at == IF answer = "ok" THEN Len(proposals) + 1 ELSE None
<1> DEFINE r == [item.row EXCEPT !.kind = answer, !.is_first = b, !.proposal = at]
<1>1. item.row \in CallRow
  BY DEF LadderInv, Standing, RowReady
<1>2. at \in Nat \cup {None}
  OBVIOUS
<1>3. insert_call_row(answer, b) = Append(calls, r)
  BY DEF insert_call_row
<1>4. (answer = "ok" => at = Len(proposals) + 1) /\ (answer # "ok" => at = None)
  OBVIOUS
<1> HIDE DEF at
<1>5. r \in CallRow /\ r.proposal = at
  BY <1>1, <1>2 DEF CallRow, CallKinds
<1> HIDE DEF r
<1> QED BY <1>3, <1>4, <1>5

\* A classify run settles a task.
LEMMA ClassifySettlesReport ==
    ASSUME BaseInv, LiveInv, RunReport, world' = world,
           \/ no_candidates \/ unsure \/ no_decision
           \/ \E answer \in {"ok", "rejected_by_precheck", "submit_store_error"} :
                 submit_direction_assignment(answer)
    PROVE  RunReport'
<1>0. LadderInv /\ LadderType /\ Standing /\ ReadInv /\ StoreType /\ proposals \in Seq(ProposalRow)
  BY DEF BaseInv, LadderInv, StoreType
<1>1. IsClassify /\ run.phase = "items" /\ run.todo # <<>> /\ st' = st /\ item' = AtTop
  BY <1>0 DEF no_candidates, unsure, no_decision, submit_direction_assignment, Standing, Climbing, NextItem
<1>2. ClassifyReport /\ run.items \in Seq(ReportItem) /\ LinksHold(calls, proposals) /\ calls \in Seq(CallRow)
      /\ ToldByItems(run.items, calls, proposals)
  BY <1>0, <1>1 DEF RunReport, ClassifyReport, LadderType
<1>3. Task \in Nat /\ Task = Head(run.todo).task
  <2>1. Head(run.todo) \in Targets
    BY <1>0, <1>1 DEF LadderType
  <2>2. Targets = [task : Nat, parked : BOOLEAN]
    BY <1>1 DEF Targets
  <2> QED BY <2>1, <2>2 DEF Task
<1>4. ASSUME NEW result \in Outcomes, NEW reason \in {None, "undetermined", "low_confidence"}
      PROVE  /\ AiRunItem(Task, result, reason) \in ReportItem
             /\ AiRunItem(Task, result, reason).target = Task /\ AiRunItem(Task, result, reason).result = result
  BY <1>1, <1>3, <1>4 DEF AiRunItem, ReportItem
<1>5. CASE no_candidates \/ no_decision
  <2>1. PICK result \in {"nothing", "deferred", "aborted"}, reason \in {None, "undetermined"} :
           run' = [run EXCEPT !.todo = Tail(run.todo), !.items = run.items \o <<AiRunItem(Task, result, reason)>>]
           /\ (result = "aborted" <=> st.aborted)
    <3>1. CASE no_candidates
      BY <3>1 DEF no_candidates, NextItem, ClassifyItem, item_result_str, Climbing
    <3>2. CASE no_decision
      <4>1. item.phase \in {"nothing", "deferred", "aborted"} /\ item_result_str(item.phase) = item.phase
        BY <3>2 DEF no_decision, item_result_str
      <4>2. item.phase = "aborted" <=> st.aborted
        BY <1>0, <4>1 DEF Standing, RunReport
      <4> QED BY <3>2, <4>1, <4>2 DEF no_decision, NextItem, ClassifyItem
    <3> QED BY <1>5, <3>1, <3>2
  <2> DEFINE x == AiRunItem(Task, result, reason)
  <2>2. x \in ReportItem /\ x.target = Task /\ x.result = result
    BY <1>4 DEF Outcomes
  <2>3. run' = [run EXCEPT !.todo = Tail(run.todo), !.items = run.items \o <<x>>]
    BY <2>1
  <2> HIDE DEF x
  <2>4. calls' = calls /\ proposals' = proposals
    BY <1>5 DEF no_candidates, no_decision, store
  <2>5. ToldByItems(Append(run.items, x), calls, proposals)
    BY <1>2, <2>2, ItemTellsNone
  <2> QED BY <1>0, <1>1, <1>2, <1>3, <2>1, <2>2, <2>3, <2>4, <2>5, TellsOn
<1>6. CASE unsure
  <2> DEFINE x == AiRunItem(Task, "nothing", "low_confidence")
  <2>1. run' = [run EXCEPT !.todo = Tail(run.todo), !.items = run.items \o <<x>>]
    BY <1>6 DEF unsure, NextItem, ClassifyItem, item_result_str
  <2>2. x \in ReportItem /\ x.target = Task /\ x.result = "nothing"
    BY <1>4 DEF Outcomes
  <2> HIDE DEF x
  <2>3. /\ calls' = Append(calls, item.row) /\ proposals' = proposals /\ item.row \in CallRow
        /\ item.row.proposal = None /\ ~st.aborted
    BY <1>0, <1>6 DEF unsure, Standing, Decided, RowReady
  <2>4. LinksHold(calls', proposals')
    BY <1>2, <2>3, UnlinkedRow
  <2>5. ToldByItems(run.items, calls', proposals')
    BY <1>2, <2>3, UnlinkedRow
  <2>6. ToldByItems(Append(run.items, x), calls', proposals')
    BY <1>2, <2>2, <2>5, ItemTellsNone
  <2> QED BY <1>0, <1>1, <1>3, <2>1, <2>2, <2>3, <2>4, <2>6, TellsOn
<1>7. CASE \E answer \in {"ok", "rejected_by_precheck", "submit_store_error"} :
              submit_direction_assignment(answer)
  <2>1. PICK answer \in {"ok", "rejected_by_precheck", "submit_store_error"} :
           submit_direction_assignment(answer)
    BY <1>7
  <2> DEFINE p == Draft("classify", "assign", {Task}, item.value)
  <2> DEFINE x == AiRunItem(Task, item_result_str(answer), None)
  <2>2. /\ item.phase = "produced" /\ item.value # "low_confidence" /\ Decided /\ ~st.aborted
        /\ calls' = insert_call_row(answer, TRUE)
        /\ proposals' = IF answer = "ok" THEN Append(proposals, p) ELSE proposals
        /\ run' = [run EXCEPT !.todo = Tail(run.todo), !.items = run.items \o <<x>>]
    BY <1>0, <2>1 DEF submit_direction_assignment, submit, NextItem, ClassifyItem, Decided, Standing
  <2>3. item_result_str(answer) = IF answer = "ok" THEN "proposed" ELSE "rejected"
    BY DEF item_result_str
  <2>4. x \in ReportItem /\ x.target = Task /\ x.result = IF answer = "ok" THEN "proposed" ELSE "rejected"
    BY <1>4, <2>3 DEF Outcomes
  <2>5. PICK r \in CallRow : /\ calls' = Append(calls, r)
                             /\ answer = "ok" => r.proposal = Len(proposals) + 1
                             /\ answer # "ok" => r.proposal = None
    BY <1>0, <2>2, SubmittedRow
  <2>6. /\ p \in ProposalRow /\ p.source = world.cap /\ p.what = {Task}
    <3>1. item.value \in {Filed, Triage}
      BY <1>0, <1>1, <2>2 DEF ReadInv, MayDecide
    <3>2. Task \in DOMAIN tasks
      <4>1. Head(run.todo) = run.todo[1] /\ 1 \in DOMAIN run.todo
        BY <1>0, <1>1 DEF LadderType
      <4> QED BY <1>1, <4>1 DEF LiveInv, TargetsKnown, Task
    <3>3. {Task} \in Whats /\ clock \in Nat
      BY <1>0, <1>3, FS_Singleton DEF Whats, StoreType
    <3> QED BY <1>1, <3>1, <3>3 DEF Draft, ProposalRow, IsClassify
  <2> HIDE DEF p, x
  <2>7. CASE answer = "ok"
    <3>1. LinksHold(Append(calls, r), Append(proposals, p))
      BY <1>0, <1>2, <2>5, <2>6, <2>7, LinkedRow
    <3>2. p.what = {x.target}
      BY <2>4, <2>6
    <3>3. ToldByItems(Append(run.items, x), Append(calls, r), Append(proposals, p))
      BY <1>0, <1>2, <2>4, <2>5, <2>6, <2>7, <3>2, ItemTells
    <3> QED BY <1>0, <1>1, <1>3, <2>2, <2>4, <2>5, <2>7, <3>1, <3>3, TellsOn
  <2>8. CASE answer # "ok"
    <3>1. LinksHold(calls', proposals')
      BY <1>2, <2>2, <2>5, <2>8, UnlinkedRow
    <3>2. ToldByItems(run.items, calls', proposals')
      BY <1>2, <2>2, <2>5, <2>8, UnlinkedRow
    <3>3. ToldByItems(Append(run.items, x), calls', proposals')
      BY <1>2, <2>4, <2>8, <3>2, ItemTellsNone
    <3> QED BY <1>0, <1>1, <1>3, <2>2, <2>4, <2>8, <3>1, <3>3, TellsOn
  <2> QED BY <2>7, <2>8
<1> QED BY <1>5, <1>6, <1>7

\* A propose run sets out.
LEMMA ProposeSetsOutReport ==
    ASSUME LadderInv, RunReport, world' = world, trigger_propose \/ dedup_run \/ run_propose
    PROVE  RunReport'
<1>1. LadderType /\ IsPropose /\ ~IsClassify /\ run.phase # "items" /\ UNCHANGED <<proposals, st, item, calls>>
  BY DEF LadderInv, trigger_propose, dedup_run, run_propose, IsPropose, IsClassify, store
<1>2. calls = <<>> /\ item.phase = "step" /\ ProposeReport
  BY <1>1 DEF LadderInv, Standing, AtTop, RunReport
<1>3. Kinds = Range(ProposeKind)
  BY DEF Kinds, ProposeKind, Range
<1>4. LinksHold(<<>>, proposals) /\ <<>> \in Seq(ReportItem)
  BY NothingLinked
<1>5. LinksHold(calls, proposals)' /\ ReportItem' = ReportItem /\ ~IsClassify' /\ item'.phase # "aborted"
  BY <1>1, <1>2, <1>4 DEF LinksHold, ReportItem, IsClassify
<1>6. CASE trigger_propose
  <2>1. run' = [NoRun EXCEPT !.phase = "targets", !.todo = <<"week">>, !.asked = Range(ProposeKind)]
    BY <1>6 DEF trigger_propose
  <2>2. run'.phase = "targets" /\ run'.items = <<>> /\ run'.todo # <<>> /\ run'.asked = Kinds
    BY <1>3, <2>1 DEF NoRun
  <2>3. ProposeReport'
    BY <2>2 DEF ProposeReport
  <2> QED BY <1>4, <1>5, <2>2, <2>3 DEF RunReport
<1>7. CASE dedup_run
  <2>1. run.phase = "targets"
    BY <1>7 DEF dedup_run
  <2>2. PICK read : run' = [run EXCEPT !.phase = "selected", !.read = read]
    BY <1>7 DEF dedup_run
  <2>3. run'.phase = "selected" /\ run'.items = run.items /\ run'.todo = run.todo /\ run'.asked = run.asked
    BY <1>1, <2>2 DEF LadderType
  <2>4. run.items = <<>> /\ run.todo # <<>> /\ run.asked = Kinds
    BY <1>2, <2>1 DEF ProposeReport
  <2>5. ProposeReport'
    BY <2>3, <2>4 DEF ProposeReport
  <2> QED BY <1>4, <1>5, <2>3, <2>4, <2>5 DEF RunReport
<1>8. CASE run_propose
  <2> DEFINE dedup == run.read.dedup
  <2> DEFINE results == NotTried(dedup)
  <2>1. run.items = <<>> /\ run.todo # <<>> /\ run.asked = Kinds
    BY <1>2, <1>8 DEF ProposeReport, run_propose
  <2>2. PICK steps, c, w, g :
           \/ run' = [run EXCEPT !.phase = "items", !.todo = <<>>, !.items = Report(results)]
           \/ run' = [run EXCEPT !.phase = "items", !.steps = steps,
                                 !.read = [dedup |-> dedup, carry |-> c, week |-> w, gaps |-> g, results |-> results]]
    BY <1>8 DEF run_propose
  <2>3. /\ IsResults(results, Outcomes \ {"deferred", "aborted"}) /\ IsResults(results, Outcomes)
        /\ \A k \in Kinds : results[k] # "proposed" /\ results[k] # "aborted"
    BY DEF NotTried, IsResults, Kinds, Outcomes
  <2>4. ToldByKind(results, <<>>, proposals)
    BY <2>3, NothingLinked
  <2> HIDE DEF dedup, results
  <2>5. Report(results) \in Seq(ReportItem)
    BY <1>1, <2>3, ReportIs
  <2>6. AbortedLast(Report(results))
    BY <1>1, <2>3, ReportIs
  <2>7. CASE run' = [run EXCEPT !.phase = "items", !.todo = <<>>, !.items = Report(results)]
    <3>1. run'.phase = "items" /\ run'.todo = <<>> /\ run'.items = Report(results) /\ run'.asked = run.asked
      BY <1>1, <2>7 DEF LadderType
    <3>2. (\E res : /\ IsResults(res, Outcomes) /\ run.items = Report(res)
                    /\ ToldByKind(res, calls, proposals) /\ AbortedLast(run.items))'
      BY <1>1, <1>2, <2>3, <2>4, <2>6, <3>1 DEF Report, ProposeItem, ToldByKind
    <3>3. ProposeReport'
      BY <2>1, <3>1, <3>2 DEF ProposeReport
    <3> QED BY <1>5, <2>5, <3>1, <3>3 DEF RunReport
  <2>8. CASE run' = [run EXCEPT !.phase = "items", !.steps = steps,
                                !.read = [dedup |-> dedup, carry |-> c, week |-> w, gaps |-> g, results |-> results]]
    <3> DEFINE read == [dedup |-> dedup, carry |-> c, week |-> w, gaps |-> g, results |-> results]
    <3>0. read.results = results /\ run' = [run EXCEPT !.phase = "items", !.steps = steps, !.read = read]
      BY <2>8
    <3> HIDE DEF read
    <3>1. run'.phase = "items" /\ run'.todo = run.todo /\ run'.items = <<>> /\ run'.asked = run.asked
          /\ run'.read.results = results
      BY <1>1, <2>1, <3>0 DEF LadderType
    <3>2. (ToldByKind(run.read.results, calls, proposals))'
      BY <1>1, <1>2, <2>4, <3>1 DEF ToldByKind
    <3>3. ProposeReport'
      BY <2>1, <2>3, <3>1, <3>2 DEF ProposeReport
    <3> QED BY <1>4, <1>5, <3>1, <3>3 DEF RunReport
  <2> QED BY <2>2, <2>7, <2>8
<1> QED BY <1>6, <1>7, <1>8

\* A week is proposed for once.
LEMMA WeekIsLast ==
    ASSUME LadderInv, IsPropose, run.todo # <<>>
    PROVE  Tail(run.todo) = <<>>
<1>1. /\ run.todo \in Seq({"week"})
      /\ \A i, j \in DOMAIN run.todo : i # j => run.todo[i] # run.todo[j]
  BY DEF LadderInv, LadderType, Distinct, Targets, IsPropose, IsClassify
<1>2. Len(run.todo) <= 1
  <2> SUFFICES ASSUME Len(run.todo) > 1 PROVE FALSE
    BY <1>1
  <2>1. 1 \in DOMAIN run.todo /\ 2 \in DOMAIN run.todo /\ run.todo[1] = "week" /\ run.todo[2] = "week"
    BY <1>1
  <2> QED BY <1>1, <2>1
<1> QED BY <1>1, <1>2

\* A propose run comes to its report.
LEMMA ProposeEnds ==
    ASSUME LadderInv, RunReport, IsPropose, run.phase = "items", run.todo # <<>>, world' = world, item' = AtTop,
           NEW results, IsResults(results, Outcomes),
           run' = [run EXCEPT !.todo = Tail(run.todo), !.items = run.items \o Report(results)],
           (\A k \in Kinds : results[k] # "aborted") \/ (\A k \in Kinds : results[k] = "aborted"),
           LinksHold(calls', proposals'), ToldByKind(results, calls', proposals')
    PROVE  RunReport'
<1>1. LadderType /\ ProposeReport /\ ~IsClassify
  BY DEF LadderInv, RunReport, IsPropose, IsClassify
<1>2. Report(results) \in Seq(ReportItem)
  BY <1>1, ReportIs
<1>3. AbortedLast(Report(results))
  BY <1>1, ReportIs
<1>4. run.items = <<>> /\ run.asked = Kinds
  BY <1>1 DEF ProposeReport
<1> DEFINE items == run.items \o Report(results)
<1>5. items = Report(results)
  BY <1>2, <1>4
<1>6. run' = [run EXCEPT !.todo = Tail(run.todo), !.items = items]
  OBVIOUS
<1> HIDE DEF items
<1>7. run'.phase = "items" /\ run'.todo = <<>> /\ run'.items = Report(results) /\ run'.asked = Kinds
  BY <1>1, <1>4, <1>5, <1>6, WeekIsLast DEF LadderType
<1>8. (\E res : /\ IsResults(res, Outcomes) /\ run.items = Report(res)
                /\ ToldByKind(res, calls, proposals) /\ AbortedLast(run.items))'
  BY <1>3, <1>7 DEF Report, ProposeItem, ToldByKind
<1>9. ProposeReport'
  BY <1>7, <1>8 DEF ProposeReport
<1>10. LinksHold(calls, proposals)' /\ ReportItem' = ReportItem /\ ~IsClassify' /\ item'.phase # "aborted"
  BY <1>1 DEF LinksHold, ReportItem, IsClassify, AtTop
<1> QED BY <1>2, <1>7, <1>9, <1>10 DEF RunReport

\* A decision calls for each kind once.
LEMMA AttemptsDistinct == \A j, k \in DOMAIN Attempts : j # k => Attempts[j] # Attempts[k]
<1> DEFINE S == {"carry", "reorder", "create"}
<1> DEFINE A == IF item.value.carry # {} THEN <<"carry">> ELSE <<>>
<1> DEFINE B == IF item.value.order /\ ~run.read.dedup.reorder THEN <<"reorder">> ELSE <<>>
<1> DEFINE C == IF item.value.create # {} /\ ~run.read.dedup.create THEN <<"create">> ELSE <<>>
<1>1. ASSUME NEW x \in S PROVE <<x>> \in Seq(S) /\ DOMAIN <<x>> = {1} /\ <<x>>[1] = x
  OBVIOUS
<1>2. <<>> \in Seq(S) /\ DOMAIN <<>> = {}
  OBVIOUS
<1>3. A \in Seq(S) /\ \A k \in DOMAIN A : k = 1 /\ A[k] = "carry"
  BY <1>1, <1>2
<1>4. B \in Seq(S) /\ \A k \in DOMAIN B : k = 1 /\ B[k] = "reorder"
  BY <1>1, <1>2
<1>5. C \in Seq(S) /\ \A k \in DOMAIN C : k = 1 /\ C[k] = "create"
  BY <1>1, <1>2
<1>6. Attempts = (A \o B) \o C
  BY DEF Attempts
<1> HIDE DEF A, B, C
<1>7. A \o B \in Seq(S) /\ (A \o B) \o C \in Seq(S)
  BY <1>3, <1>4, <1>5
<1>8. ASSUME NEW k \in DOMAIN (A \o B)
      PROVE  k \in Nat /\ (((A \o B)[k] = "carry" /\ k = 1) \/ ((A \o B)[k] = "reorder" /\ k = Len(A) + 1))
  BY <1>3, <1>4, <1>7, Joined
<1>9. ASSUME NEW k \in DOMAIN ((A \o B) \o C)
      PROVE  \/ ((A \o B) \o C)[k] = "carry" /\ k = 1
             \/ ((A \o B) \o C)[k] = "reorder" /\ k = Len(A) + 1
             \/ ((A \o B) \o C)[k] = "create" /\ k = Len(A \o B) + 1
  <2>1. CASE k \in DOMAIN (A \o B) /\ ((A \o B) \o C)[k] = (A \o B)[k]
    BY <1>8, <2>1
  <2>2. CASE k > Len(A \o B) /\ k - Len(A \o B) \in DOMAIN C /\ ((A \o B) \o C)[k] = C[k - Len(A \o B)]
    <3>1. k \in Nat /\ Len(A \o B) \in Nat
      BY <1>7
    <3> QED BY <1>5, <2>2, <3>1
  <2> QED BY <1>5, <1>7, <2>1, <2>2, Joined
<1> QED BY <1>6, <1>9

\* A result that tells of no proposal.
LEMMA KindTellsNone ==
    ASSUME NEW cs, NEW ps, NEW results, DOMAIN results = Kinds, NEW k \in Kinds, results[k] # "proposed",
           NEW o, o # "proposed", ToldByKind(results, cs, ps)
    PROVE  ToldByKind([results EXCEPT ![k] = o], cs, ps)
<1> DEFINE next == [results EXCEPT ![k] = o]
<1>1. \A l \in Kinds : l # k => next[l] = results[l]
  OBVIOUS
<1>2. ToldKinds(next) = ToldKinds(results)
  BY ToldKindsAdd
<1> HIDE DEF next
<1>3. \A i \in Linked(cs) : ps[cs[i].proposal].kind \in Kinds /\ results[ps[cs[i].proposal].kind] = "proposed"
  BY DEF ToldByKind
<1>4. \A i \in Linked(cs) : ps[cs[i].proposal].kind \in Kinds /\ next[ps[cs[i].proposal].kind] = "proposed"
  BY <1>1, <1>3
<1> QED BY <1>2, <1>4 DEF ToldByKind, next

\* Results of which none is a proposal, for a log that is linked to none.
LEMMA NoneTold ==
    ASSUME NEW cs, NEW ps, NEW old, NEW results, ToldByKind(old, cs, ps),
           \A k \in Kinds : old[k] # "proposed", \A k \in Kinds : results[k] # "proposed"
    PROVE  ToldByKind(results, cs, ps)
<1>1. Linked(cs) = {}
  BY DEF ToldByKind
<1>2. ToldKinds(results) = {}
  BY DEF ToldKinds, ProposeKind, Kinds
<1> QED BY <1>1, <1>2, FS_EmptySet DEF ToldByKind

\* What a propose run submits is a proposal of its own, of the kind at hand.
LEMMA DraftIs ==
    ASSUME NEW kind \in Kinds
    PROVE  DraftOf(kind).source = "propose" /\ DraftOf(kind).kind = kind
BY DEF DraftOf, Draft, Kinds

\* A propose run that decides nothing reports so.
LEMMA NothingReported ==
    ASSUME BaseInv, RunReport, world' = world, propose_nothing
    PROVE  RunReport'
<1>0. LadderInv /\ Standing
  BY DEF BaseInv, LadderInv
<1>1. /\ IsPropose /\ run.phase = "items" /\ run.todo # <<>> /\ item' = AtTop
      /\ item.phase \in {"nothing", "deferred", "aborted"} /\ calls' = calls /\ proposals' = proposals
  BY <1>0 DEF propose_nothing, Standing, NextItem, store
<1>2. ProposeReport /\ LinksHold(calls, proposals)
  BY <1>1 DEF RunReport
<1>3. /\ IsResults(run.read.results, Outcomes \ {"deferred", "aborted"})
      /\ ToldByKind(run.read.results, calls, proposals)
      /\ \A k \in Kinds : run.read.results[k] # "proposed"
  BY <1>1, <1>2 DEF ProposeReport
<1>4. CASE item.phase = "nothing"
  <2> DEFINE results == run.read.results
  <2>1. run' = [run EXCEPT !.todo = Tail(run.todo), !.items = run.items \o Report(results)]
    BY <1>4 DEF propose_nothing, NextItem
  <2>2. IsResults(results, Outcomes) /\ \A k \in Kinds : results[k] # "aborted"
    BY <1>3 DEF IsResults
  <2>3. LinksHold(calls', proposals') /\ ToldByKind(results, calls', proposals')
    BY <1>1, <1>2, <1>3
  <2> HIDE DEF results
  <2> QED BY <1>0, <1>1, <2>1, <2>2, <2>3, ProposeEnds
<1>5. CASE item.phase \in {"deferred", "aborted"}
  <2> DEFINE results == [k \in Range(ProposeKind) |-> item_result_str(item.phase)]
  <2>1. run' = [run EXCEPT !.todo = Tail(run.todo), !.items = run.items \o Report(results)]
    BY <1>5 DEF propose_nothing, NextItem
  <2>2. Kinds = Range(ProposeKind) /\ item_result_str(item.phase) = item.phase
    BY <1>5 DEF Kinds, ProposeKind, Range, item_result_str
  <2>3. DOMAIN results = Kinds /\ \A k \in Kinds : results[k] = item.phase
    BY <2>2
  <2> HIDE DEF results
  <2>4. /\ IsResults(results, Outcomes) /\ \A k \in Kinds : results[k] # "proposed"
        /\ (\A k \in Kinds : results[k] # "aborted") \/ (\A k \in Kinds : results[k] = "aborted")
    BY <1>5, <2>3 DEF IsResults, Outcomes
  <2>5. ToldByKind(results, calls, proposals)
    BY <1>3, <2>4, NoneTold
  <2> QED BY <1>0, <1>1, <1>2, <2>1, <2>4, <2>5, ProposeEnds
<1> QED BY <1>1, <1>4, <1>5

\* A propose run whose decision comes to nothing new, or is about to be submitted.
LEMMA DecideReported ==
    ASSUME BaseInv, RunReport, world' = world, propose_decide
    PROVE  RunReport'
<1>0. LadderInv /\ LadderType /\ Standing /\ StoreType
  BY DEF BaseInv, LadderInv
<1>1. /\ IsPropose /\ run.phase = "items" /\ run.todo # <<>> /\ item.phase = "produced"
      /\ proposals' = proposals /\ st' = st
  BY <1>0 DEF propose_decide, Standing, store
<1>2. ProposeReport /\ LinksHold(calls, proposals) /\ calls \in Seq(CallRow)
  BY <1>0, <1>1 DEF RunReport, LadderType
<1>3. CASE Attempts = <<>>
  <2> DEFINE results == run.read.results
  <2>1. run' = [run EXCEPT !.todo = Tail(run.todo), !.items = run.items \o Report(results)]
        /\ item' = AtTop /\ calls' = Append(calls, item.row)
    BY <1>3 DEF propose_decide, NextItem
  <2>2. /\ IsResults(results, Outcomes \ {"deferred", "aborted"})
        /\ ToldByKind(results, calls, proposals)
    BY <1>1, <1>2 DEF ProposeReport
  <2> HIDE DEF results
  <2>3. IsResults(results, Outcomes) /\ \A k \in Kinds : results[k] # "aborted"
    BY <2>2 DEF IsResults
  <2>4. item.row \in CallRow /\ item.row.proposal = None
    BY <1>0, <1>1 DEF Standing, Decided, RowReady
  <2>5. LinksHold(calls', proposals')
    BY <1>1, <1>2, <2>1, <2>4, UnlinkedRow
  <2>6. ToldByKind(results, calls', proposals')
    BY <1>1, <1>2, <2>1, <2>2, <2>4, UnlinkedRow
  <2> QED BY <1>0, <1>1, <2>1, <2>3, <2>5, <2>6, ProposeEnds
<1>4. CASE Attempts # <<>>
  <2>1. run' = run /\ calls' = calls /\ item' = [item EXCEPT !.phase = "submitting", !.at = 1]
    BY <1>4 DEF propose_decide
  <2>2. item'.phase = "submitting"
    BY <1>0, <2>1 DEF LadderType
  <2>3. Grown
    BY <1>1 DEF Grown
  <2> QED BY <1>0, <1>1, <2>1, <2>2, <2>3, ReportStays
<1> QED BY <1>3, <1>4

\* A propose run submits one of the kinds its decision calls for.
LEMMA SubmitReported ==
    ASSUME BaseInv, RunReport, world' = world, proposals' \in Seq(ProposalRow),
           NEW answer \in {"ok", "rejected_by_precheck", "submit_store_error"}, submit_one(answer)
    PROVE  RunReport'
<1>0. LadderInv /\ LadderType /\ Standing /\ ReadInv /\ StoreType /\ proposals \in Seq(ProposalRow)
  BY DEF BaseInv, LadderInv, StoreType
<1>1. /\ IsPropose /\ run.phase = "items" /\ run.todo # <<>> /\ item.phase = "submitting" /\ Decided
      /\ ~IsClassify /\ st' = st
  BY <1>0 DEF submit_one, Standing, Decided, IsClassify, IsPropose
<1>2. ProposeReport /\ LinksHold(calls, proposals) /\ calls \in Seq(CallRow)
  BY <1>0, <1>1 DEF RunReport, LadderType
<1> DEFINE kind == Attempts[item.at]
<1> DEFINE old == run.read.results
<1> DEFINE o == item_result_str(answer)
<1> DEFINE results == [old EXCEPT ![kind] = o]
<1> DEFINE p == DraftOf(kind)
<1>3. item.at \in DOMAIN Attempts /\ item.at \in Nat /\ kind \in Kinds
  BY <1>0, <1>1, AttemptsAre DEF ReadInv, LadderType, Kinds
<1>4. /\ IsResults(old, Outcomes \ {"deferred", "aborted"}) /\ ToldByKind(old, calls, proposals)
      /\ \A k \in Kinds : old[k] = "proposed" => \A m \in DOMAIN Attempts : m >= item.at => Attempts[m] # k
  BY <1>1, <1>2 DEF ProposeReport
<1>5. old[kind] # "proposed"
  BY <1>3, <1>4
<1>6. o = IF answer = "ok" THEN "proposed" ELSE "rejected"
  BY DEF item_result_str
<1>7. /\ proposals' = IF answer = "ok" THEN Append(proposals, p) ELSE proposals
      /\ calls' = insert_call_row(answer, item.at = 1)
      /\ \/ NextItem(Report(results)) /\ item.at = Len(Attempts)
         \/ /\ item' = [item EXCEPT !.at = @ + 1] /\ run' = [run EXCEPT !.read.results = results]
            /\ item.at # Len(Attempts)
  BY DEF submit_one, submit
<1>8. p.source = "propose" /\ p.kind = kind /\ world.cap = "propose"
  BY <1>1, <1>3, DraftIs DEF IsPropose
<1> HIDE DEF kind, old, o, p
<1>9. PICK r \in CallRow : /\ calls' = Append(calls, r)
                           /\ answer = "ok" => r.proposal = Len(proposals) + 1
                           /\ answer # "ok" => r.proposal = None
  <2>1. (item.at = 1) \in BOOLEAN
    OBVIOUS
  <2> QED BY <1>0, <1>1, <1>7, <2>1, SubmittedRow
<1>10. DOMAIN old = Kinds
  BY <1>4 DEF IsResults
<1>11. LinksHold(calls', proposals') /\ ToldByKind(results, calls', proposals')
  <2>1. CASE answer = "ok"
    <3>1. proposals' = Append(proposals, p)
      BY <1>7, <2>1
    <3>2. p \in ProposalRow
      <4>1. Append(proposals, p)[Len(proposals) + 1] = p /\ Len(proposals) + 1 \in DOMAIN Append(proposals, p)
        BY <1>0
      <4> QED BY <3>1, <4>1
    <3>3. LinksHold(Append(calls, r), Append(proposals, p))
      BY <1>0, <1>2, <1>8, <1>9, <2>1, <3>2, LinkedRow
    <3>4. p.kind \in Kinds /\ old[p.kind] # "proposed"
      BY <1>3, <1>5, <1>8
    <3>5. ToldByKind([old EXCEPT ![p.kind] = "proposed"], Append(calls, r), Append(proposals, p))
      BY <1>0, <1>2, <1>4, <1>9, <1>10, <2>1, <3>2, <3>4, KindTells
    <3> QED BY <1>6, <1>8, <1>9, <2>1, <3>1, <3>3, <3>5
  <2>2. CASE answer # "ok"
    <3>1. proposals' = proposals /\ calls' = Append(calls, r) /\ r.proposal = None /\ o # "proposed"
      BY <1>6, <1>7, <1>9, <2>2
    <3>2. ToldByKind(results, calls, proposals)
      BY <1>3, <1>4, <1>5, <1>10, <3>1, KindTellsNone
    <3> HIDE DEF results
    <3>3. LinksHold(calls', proposals')
      BY <1>2, <3>1, UnlinkedRow
    <3>4. ToldByKind(results, calls', proposals')
      BY <1>2, <3>1, <3>2, UnlinkedRow
    <3> QED BY <3>3, <3>4
  <2> QED BY <2>1, <2>2
<1>12. /\ IsResults(results, Outcomes \ {"deferred", "aborted"}) /\ IsResults(results, Outcomes)
       /\ \A k \in Kinds : results[k] # "aborted"
       /\ \A k \in Kinds : results[k] = IF k = kind THEN o ELSE old[k]
  <2>1. o \in Outcomes \ {"deferred", "aborted"}
    BY <1>6 DEF Outcomes
  <2> QED BY <1>3, <1>4, <1>10, <2>1 DEF IsResults
<1> HIDE DEF results
<1>13. CASE NextItem(Report(results))
  <2>1. item' = AtTop
        /\ run' = [run EXCEPT !.todo = Tail(run.todo), !.items = run.items \o Report(results)]
    BY <1>13 DEF NextItem
  <2> QED BY <1>0, <1>1, <1>11, <1>12, <2>1, ProposeEnds
<1>14. CASE item' = [item EXCEPT !.at = @ + 1] /\ run' = [run EXCEPT !.read.results = results]
  <2> DEFINE read == [run.read EXCEPT !.results = results]
  <2>1. run' = [run EXCEPT !.read = read]
    BY <1>14
  <2>2. read = [dedup |-> run.read.dedup, carry |-> run.read.carry, week |-> run.read.week,
                gaps |-> run.read.gaps, results |-> results]
    <3>1. run.read = [dedup |-> run.read.dedup, carry |-> run.read.carry, week |-> run.read.week,
                      gaps |-> run.read.gaps, results |-> run.read.results]
      BY <1>0, <1>1 DEF ReadInv
    <3> QED BY <3>1
  <2> HIDE DEF read
  <2>3. /\ run'.phase = run.phase /\ run'.todo = run.todo /\ run'.items = run.items /\ run'.asked = run.asked
        /\ run'.read = read
    BY <1>0, <2>1 DEF LadderType
  <2>4. item'.phase = "submitting" /\ item'.at = item.at + 1 /\ item'.value = item.value
    BY <1>0, <1>1, <1>14 DEF LadderType
  <2>5. run'.read.results = results /\ run'.read.dedup = run.read.dedup
    BY <2>2, <2>3
  <2>6. Attempts' = Attempts
    BY <2>4, <2>5 DEF Attempts
  <2>7. \A k \in Kinds : results[k] = "proposed" =>
           \A m \in DOMAIN Attempts : m >= item.at + 1 => Attempts[m] # k
    <3>1. \A m \in DOMAIN Attempts : m \in Nat
      BY AttemptsAre
    <3>2. \A m \in DOMAIN Attempts : m >= item.at + 1 => Attempts[m] # kind
      <4>1. \A m \in DOMAIN Attempts : m >= item.at + 1 => m # item.at
        BY <1>3, <3>1
      <4> QED BY <1>3, <4>1, AttemptsDistinct DEF kind
    <3> HIDE DEF Attempts
    <3>3. \A m \in DOMAIN Attempts : m >= item.at + 1 => m >= item.at
      BY <1>3, <3>1
    <3> QED BY <1>4, <1>12, <3>2, <3>3
  <2>8. (ToldByKind(run.read.results, calls, proposals) /\ LinksHold(calls, proposals))'
    BY <1>11, <2>5 DEF ToldByKind, LinksHold
  <2>9. (\A k \in Kinds : run.read.results[k] = "proposed" =>
           item.phase = "submitting" /\ \A m \in DOMAIN Attempts : m >= item.at => Attempts[m] # k)'
    <3> HIDE DEF Attempts
    <3> QED BY <2>4, <2>5, <2>6, <2>7
  <2>10. ProposeReport'
    <3> HIDE DEF Attempts
    <3> QED BY <1>1, <1>2, <1>12, <2>3, <2>5, <2>8, <2>9 DEF ProposeReport
  <2>11. ReportItem' = ReportItem /\ ~IsClassify' /\ run.items \in Seq(ReportItem)
    BY <1>1 DEF ReportItem, IsClassify, RunReport
  <2> QED BY <2>3, <2>4, <2>8, <2>10, <2>11 DEF RunReport
<1> QED BY <1>7, <1>13, <1>14

\* A row that joins the log is a row.
LEMMA NewRowIs ==
    ASSUME LadderInv, calls' \in Seq(CallRow), NEW r, calls' = Append(calls, r)
    PROVE  r \in CallRow
<1>1. calls \in Seq(CallRow)
  BY DEF LadderInv, LadderType
<1>2. Append(calls, r)[Len(calls) + 1] = r /\ Len(calls) + 1 \in DOMAIN Append(calls, r)
  BY <1>1
<1> QED BY <1>2

\* What one rung of the ladder leaves of the call log and of the run's verdicts.
Climbs ==
    /\ run' = run /\ item.phase # "submitting" /\ (st.aborted => st'.aborted)
    /\ calls' = calls \/ \E r : r.proposal = None /\ calls' = Append(calls, r)
    /\ item'.phase = "aborted" => st'.aborted

\* A step down the ladder.
LEMMA DownClimbs ==
    ASSUME LadderInv, run' = run, st' = st \/ \E s : st' = [st EXCEPT !.skip = s],
           item.phase # "submitting", NEW r, r.proposal = None, NEW from, NEW det, Down(r, from, det)
    PROVE  Climbs
<1>1. item'.phase = "step"
  BY DEF Down, LadderInv, LadderType
<1>2. st.aborted => st'.aborted
  BY DEF LadderInv, LadderType
<1> QED BY <1>1, <1>2 DEF Down, Climbs

\* A decision.
LEMMA ProducedClimbs ==
    ASSUME LadderInv, run' = run, st' = st, item.phase # "submitting", NEW v, NEW r, Produced(v, r)
    PROVE  Climbs
<1>1. item'.phase = "produced"
  BY DEF Produced, LadderInv, LadderType
<1> QED BY <1>1 DEF Produced, Climbs

\* The steps of the ladder but those by which a run is over.
LEMMA LadderClimbs ==
    ASSUME LadderInv, RunReport,
           \/ circuit_open \/ defer_item \/ complete \/ exhausted \/ aborted_item
           \/ \E f : model_failure(f)
           \/ \E tier, v : reply(tier, v)
           \/ \E v : ReflexDecisive(v) \/ ReflexFallback(v)
    PROVE  Climbs
<1>1. LadderType
  BY DEF LadderInv
<1>2. \A engine, from, tier, kind : Row(engine, from, tier, kind).proposal = None
  BY DEF Row
<1>3. CASE circuit_open \/ complete \/ exhausted \/ defer_item
  <2>1. /\ run' = run /\ item.phase = "step" /\ calls' = calls
        /\ \/ st' = st \/ st' = [st EXCEPT !.models_off = TRUE] \/ st' = [st EXCEPT !.calls_left = @ - 1]
        /\ \/ item' = [item EXCEPT !.at = @ + 1, !.failed_from = run.steps[item.at]]
           \/ item' = [item EXCEPT !.phase = "waiting"] \/ item' = [item EXCEPT !.phase = "nothing"]
           \/ item' = [item EXCEPT !.phase = "deferred"]
    BY <1>3 DEF circuit_open, complete, exhausted, defer_item, Ended, Rung, Climbing
  <2>2. item'.phase # "aborted"
    BY <1>1, <2>1 DEF LadderType
  <2>3. st.aborted => st'.aborted
    BY <1>1, <2>1 DEF LadderType
  <2> QED BY <2>1, <2>2, <2>3 DEF Climbs
<1>4. CASE aborted_item
  BY <1>4 DEF aborted_item, Climbs
<1>5. CASE \E f : model_failure(f)
  <2>1. PICK f : model_failure(f)
    BY <1>5
  <2> DEFINE row == Row(Asked, item.failed_from, None, f)
  <2>2. run' = run /\ item.phase = "waiting" /\ row.proposal = None
    BY <1>2, <2>1 DEF model_failure, Waiting
  <2>3. PICK s :
           \/ calls' = Append(calls, row) /\ st' = [st EXCEPT !.aborted = TRUE]
           \/ calls' = Append(calls, row) /\ st' = [st EXCEPT !.models_off = TRUE] /\ item' = [item EXCEPT !.phase = "deferred"]
           \/ st' = [st EXCEPT !.skip = s] /\ Down(row, Asked, item.deterministic)
    BY <2>1 DEF model_failure, Ended
  <2> HIDE DEF row
  <2>4. CASE calls' = Append(calls, row) /\ st' = [st EXCEPT !.aborted = TRUE]
    <3>1. st'.aborted
      BY <1>1, <2>4 DEF LadderType
    <3> QED BY <2>2, <2>4, <3>1 DEF Climbs
  <2>5. CASE /\ calls' = Append(calls, row) /\ st' = [st EXCEPT !.models_off = TRUE]
             /\ item' = [item EXCEPT !.phase = "deferred"]
    <3>1. (st.aborted => st'.aborted) /\ item'.phase # "aborted"
      BY <1>1, <2>5 DEF LadderType
    <3> QED BY <2>2, <2>5, <3>1 DEF Climbs
  <2>6. CASE st' = [st EXCEPT !.skip = s] /\ Down(row, Asked, item.deterministic)
    BY <2>2, <2>6, DownClimbs
  <2> QED BY <2>3, <2>4, <2>5, <2>6
<1>6. CASE \E tier, v : reply(tier, v)
  <2>1. PICK tier, v : reply(tier, v)
    BY <1>6
  <2>2. run' = run /\ st' = st /\ item.phase = "waiting"
    BY <2>1 DEF reply, Waiting
  <2>3. (\E row : Produced(v, row)) \/ \E row, from, det : row.proposal = None /\ Down(row, from, det)
    BY <1>2, <2>1 DEF reply
  <2> QED BY <2>2, <2>3, DownClimbs, ProducedClimbs
<1>7. CASE \E v : ReflexDecisive(v) \/ ReflexFallback(v)
  <2>1. PICK v : ReflexDecisive(v) \/ ReflexFallback(v)
    BY <1>7
  <2>2. run' = run /\ st' = st /\ item.phase = "step"
    BY <2>1 DEF ReflexDecisive, ReflexFallback, Rung, Climbing
  <2>3. (\E row : Produced(v, row)) \/ \E row, from, det : row.proposal = None /\ Down(row, from, det)
    BY <1>2, <2>1 DEF ReflexDecisive, ReflexFallback
  <2> QED BY <2>2, <2>3, DownClimbs, ProducedClimbs
<1> QED BY <1>3, <1>4, <1>5, <1>6, <1>7

\* Climbing the ladder changes nothing that the run has to report.
LEMMA ClimbsKeep ==
    ASSUME LadderInv, LadderInv', RunReport, Climbs, world' = world, proposals' = proposals
    PROVE  RunReport'
<1>1. calls' \in Seq(CallRow)
  <2>1. CallRow' = CallRow
    BY DEF CallRow, Targets, IsClassify, CallKinds
  <2> QED BY <2>1 DEF LadderInv, LadderType
<1>2. calls' = calls \/ \E r \in CallRow : r.proposal = None /\ calls' = Append(calls, r)
  <2>1. CASE calls' = calls
    BY <2>1
  <2>2. CASE \E r : r.proposal = None /\ calls' = Append(calls, r)
    <3>1. PICK r : r.proposal = None /\ calls' = Append(calls, r)
      BY <2>2
    <3>2. r \in CallRow
      BY <1>1, <3>1, NewRowIs
    <3> QED BY <3>1, <3>2
  <2> QED BY <2>1, <2>2 DEF Climbs
<1>3. Grown
  BY DEF Grown
<1> QED BY <1>2, <1>3, ReportStays DEF Climbs

\* The slot is left empty, with the record of the run that is over.
LEMMA SlotIs ==
    ASSUME LadderInv, NEW state, NEW items, LeaveSlot(state, items)
    PROVE  /\ calls' = <<>> /\ item'.phase = "step"
           /\ run'.phase = "idle" /\ run'.todo = <<>> /\ run'.items = <<>> /\ run'.asked = {}
           /\ \/ run'.last = None
              \/ run'.last.record = AiRunRecord(state, items) /\ run'.last.calls = calls
<1>1. calls' = <<>> /\ item' = AtTop
  BY DEF LeaveSlot
<1>2. CASE world.polls
  <2> DEFINE l == [record |-> AiRunRecord(state, items), calls |-> calls]
  <2>1. run' = [NoRun EXCEPT !.last = l]
    BY <1>2 DEF LeaveSlot
  <2>2. l.record = AiRunRecord(state, items) /\ l.calls = calls
    OBVIOUS
  <2> HIDE DEF l
  <2> QED BY <1>1, <2>1, <2>2 DEF NoRun, AtTop
<1>3. CASE ~world.polls
  BY <1>1, <1>3 DEF LeaveSlot, NoRun, AtTop
<1> QED BY <1>2, <1>3

\* What a run has reported, and is about to, stays true to the log and the store.
LEMMA ReportStep ==
    ASSUME BaseInv, LiveInv, RunReport, [Next]_vars
    PROVE  RunReport'
<1>0. /\ LadderInv /\ LadderType /\ LadderInv' /\ world' = world /\ StoreType'
  <2>1. StoreType /\ LadderInv /\ ReadInv
    BY DEF BaseInv
  <2>2. LadderInv'
    BY <2>1, LadderStep
  <2>3. StoreType' /\ world' = world
    BY <2>1, StoreStep
  <2>4. LadderType
    BY <2>1 DEF LadderInv
  <2> QED BY <2>1, <2>2, <2>3, <2>4
<1>1. CASE StoreNext /\ UNCHANGED ladder
  <2>1. run' = run /\ st' = st /\ item' = item /\ calls' = calls
    BY <1>1 DEF ladder
  <2>2. Grown
    BY ProposalsGrow DEF Grown
  <2>3. item'.phase = "aborted" => st'.aborted
    BY <2>1 DEF RunReport
  <2> QED BY <1>0, <2>1, <2>2, <2>3, ReportStays
<1>2. CASE (LadderNext \/ Reply) /\ UNCHANGED <<store, unseen>>
  <2>1. proposals' = proposals
    BY <1>2 DEF store
  <2>2. CASE deadline
    <3>1. run' = run /\ item' = item /\ calls' = calls /\ st' = [st EXCEPT !.late = TRUE]
      BY <2>2 DEF deadline
    <3>2. st'.aborted = st.aborted
      BY <1>0, <3>1 DEF LadderType
    <3>3. item'.phase = "aborted" => st'.aborted
      BY <3>1, <3>2 DEF RunReport
    <3>4. Grown
      BY <2>1 DEF Grown
    <3> QED BY <1>0, <3>1, <3>2, <3>3, <3>4, ReportStays
  <2>3. CASE cancel_run \/ run_ends
    <3>1. PICK state, items : LeaveSlot(state, items)
      BY <2>3 DEF cancel_run, run_ends
    <3>2. /\ calls' = <<>> /\ item'.phase = "step"
          /\ run'.phase = "idle" /\ run'.todo = <<>> /\ run'.items = <<>> /\ run'.asked = {}
      BY <1>0, <3>1, SlotIs
    <3> QED BY <1>0, <3>2, ReportFresh
  <2>4. CASE Climbs
    BY <1>0, <2>1, <2>4, ClimbsKeep
  <2> QED BY <1>0, <1>2, <2>2, <2>3, <2>4, LadderClimbs DEF LadderNext, Reply
<1>3. CASE ClassifyNext
  <2>1. CASE \E v : (ReflexDecisive(v) \/ ReflexFallback(v)) /\ UNCHANGED <<store, unseen>>
    <3>1. Climbs
      BY <1>0, <2>1, LadderClimbs
    <3>2. proposals' = proposals
      BY <2>1 DEF store
    <3> QED BY <1>0, <3>1, <3>2, ClimbsKeep
  <2> QED BY <1>0, <1>3, <2>1, ClassifySetsOutReport, ClassifySettlesReport DEF ClassifyNext
<1>4. CASE ProposeNext
  <2>1. CASE \E v : ReflexFallback(v) /\ UNCHANGED store
    <3>1. Climbs
      BY <1>0, <2>1, LadderClimbs
    <3>2. proposals' = proposals
      BY <2>1 DEF store
    <3> QED BY <1>0, <3>1, <3>2, ClimbsKeep
  <2>2. CASE \E answer \in {"ok", "rejected_by_precheck", "submit_store_error"} : submit_one(answer)
    <3>1. proposals' \in Seq(ProposalRow)
      <4>1. ProposalRow' = ProposalRow
        BY <1>0 DEF ProposalRow, Whats
      <4> QED BY <1>0, <4>1 DEF StoreType
    <3> QED BY <1>0, <2>2, <3>1, SubmitReported
  <2>3. CASE propose_nothing \/ propose_decide
    BY <1>0, <2>3, NothingReported, DecideReported
  <2>4. CASE trigger_propose \/ dedup_run \/ run_propose
    BY <1>0, <2>4, ProposeSetsOutReport
  <2> QED BY <1>4, <2>1, <2>2, <2>3, <2>4 DEF ProposeNext
<1>5. CASE UNCHANGED <<store, ladder, unseen>> \/ UNCHANGED vars
  <2>1. run' = run /\ st' = st /\ item' = item /\ calls' = calls /\ proposals' = proposals
    BY <1>5 DEF store, ladder, vars
  <2>2. Grown
    BY <2>1 DEF Grown
  <2>3. item'.phase = "aborted" => st'.aborted
    BY <2>1 DEF RunReport
  <2> QED BY <1>0, <2>1, <2>2, <2>3, ReportStays
<1> QED BY <1>1, <1>2, <1>3, <1>4, <1>5 DEF Next, Work

\* A run that is over has told the truth.
LEMMA EndsHonest ==
    ASSUME BaseInv, RunReport, run.phase = "items", run.todo = <<>>
    PROVE  /\ Len(run.items) = Cardinality(run.asked)
           /\ {run.items[i].target : i \in DOMAIN run.items} = run.asked
           /\ Proposed(run.items) = Cardinality(Linked(calls))
           /\ IsInjective([i \in Linked(calls) |-> calls[i].proposal])
           /\ \A i \in Linked(calls) :
                 LET p == proposals[calls[i].proposal]
                 IN  /\ p.source = world.cap
                     /\ \E j \in DOMAIN run.items : run.items[j].result = "proposed" /\ Tells(run.items[j], p)
           /\ \A i, j \in DOMAIN run.items :
                 i < j /\ run.items[i].result = "aborted" => run.items[j].result = "aborted"
<1> DEFINE targets == {run.items[i].target : i \in DOMAIN run.items}
<1>1. run.items \in Seq(ReportItem) /\ LinksHold(calls, proposals)
  BY DEF RunReport
<1>2. IsInjective([i \in Linked(calls) |-> calls[i].proposal])
  BY <1>1 DEF IsInjective, LinksHold
<1>3. \A i \in Linked(calls) : proposals[calls[i].proposal].source = world.cap
  BY <1>1 DEF LinksHold
<1>4. /\ \A j, k \in DOMAIN run.items : j # k => run.items[j].target # run.items[k].target
      /\ targets = run.asked
      /\ Proposed(run.items) = Cardinality(Linked(calls))
      /\ \A i \in Linked(calls) : \E j \in DOMAIN run.items :
            run.items[j].result = "proposed" /\ Tells(run.items[j], proposals[calls[i].proposal])
      /\ AbortedLast(run.items)
  <2>1. CASE IsClassify
    <3>1. ClassifyReport
      BY <2>1 DEF RunReport
    <3>2. DOMAIN run.todo = {}
      OBVIOUS
    <3>3. /\ \A j, k \in DOMAIN run.items : j # k => run.items[j].target # run.items[k].target
          /\ targets = run.asked
      BY <3>1, <3>2 DEF ClassifyReport, Covers
    <3>4. \A i \in Linked(calls) : \E j \in DOMAIN run.items :
             run.items[j].result = "proposed" /\ Tells(run.items[j], proposals[calls[i].proposal])
      BY <2>1, <3>1 DEF ClassifyReport, ToldByItems, Tells
    <3> QED BY <3>1, <3>3, <3>4 DEF ClassifyReport, ToldByItems
  <2>2. CASE ~IsClassify
    <3>1. IsPropose
      BY <2>2, AiPortAssumption DEF BaseInv, StoreType, IsClassify, IsPropose
    <3>2. ProposeReport /\ run.asked = Kinds
      BY <3>1 DEF RunReport, ProposeReport
    <3>3. PICK results : /\ IsResults(results, Outcomes) /\ run.items = Report(results)
                         /\ ToldByKind(results, calls, proposals) /\ AbortedLast(run.items)
      BY <3>2 DEF ProposeReport
    <3> DEFINE t == Report(results)
    <3>4. /\ DOMAIN t = 1..3
          /\ \A m \in 1..3 : t[m].target = ProposeKind[m] /\ t[m].result = results[ProposeKind[m]]
      BY <2>2, <3>3, ReportIs
    <3>5. Proposed(t) = Cardinality(ToldKinds(results))
      BY <2>2, <3>3, ReportIs
    <3> HIDE DEF t
    <3>6. /\ Kinds = {ProposeKind[m] : m \in 1..3}
          /\ \A l, m \in 1..3 : l # m => ProposeKind[l] # ProposeKind[m]
      BY DEF Kinds, ProposeKind
    <3>7. {t[m].target : m \in 1..3} = Kinds
      BY <3>4, <3>6
    <3>8. \A l, m \in 1..3 : l # m => t[l].target # t[m].target
      BY <3>4, <3>6
    <3>9. ASSUME NEW i \in Linked(calls)
          PROVE  \E j \in 1..3 : t[j].result = "proposed" /\ Tells(t[j], proposals[calls[i].proposal])
      <4>1. /\ proposals[calls[i].proposal].kind \in Kinds
            /\ results[proposals[calls[i].proposal].kind] = "proposed"
        BY <3>3 DEF ToldByKind
      <4>2. PICK j \in 1..3 : ProposeKind[j] = proposals[calls[i].proposal].kind
        BY <3>6, <4>1
      <4> QED BY <2>2, <3>4, <4>1, <4>2 DEF Tells
    <3>10. run.items = t
      BY <3>3 DEF t
    <3> QED BY <3>2, <3>3, <3>4, <3>5, <3>7, <3>8, <3>9, <3>10 DEF ToldByKind
  <2> QED BY <2>1, <2>2
<1>5. Len(run.items) = Cardinality(targets)
  BY <1>1, <1>4, TargetsCounted
<1> QED BY <1>2, <1>3, <1>4, <1>5 DEF AbortedLast

\* What a step does to the run, as far as a poll can tell.
LEMMA RunGoes ==
    ASSUME BaseInv, [Next]_vars
    PROVE  \/ run' = run
           \/ run.phase = "idle" /\ run'.phase # "idle" /\ run'.last = None
           \/ run.phase # "idle" /\ run'.phase # "idle" /\ run'.last = run.last
           \/ cancel_run \/ run_ends
<1>1. LadderType /\ Standing
  BY DEF BaseInv, LadderInv
<1>2. ASSUME NEW told, NextItem(told), run.phase = "items"
      PROVE  run'.phase # "idle" /\ run'.last = run.last
  <2> DEFINE items == run.items \o told
  <2>1. run' = [run EXCEPT !.todo = Tail(run.todo), !.items = items]
    BY <1>2 DEF NextItem
  <2> HIDE DEF items
  <2> QED BY <1>1, <1>2, <2>1 DEF LadderType
<1>3. CASE (StoreNext /\ UNCHANGED ladder) \/ UNCHANGED <<store, ladder, unseen>> \/ UNCHANGED vars
  BY <1>3 DEF ladder, vars
<1>4. CASE LadderNext \/ Reply
  BY <1>4 DEF LadderNext, Reply, circuit_open, defer_item, complete, exhausted, aborted_item, deadline,
              model_failure, reply
<1>5. CASE ClassifyNext
  <2>1. CASE (\E ids \in world.requests : trigger_classify(ids)) \/ trigger_classify_auto
    <3>1. CASE trigger_classify_auto
      BY <3>1 DEF trigger_classify_auto, NoRun
    <3>2. CASE \E ids \in world.requests : trigger_classify(ids)
      <4>1. PICK todo, asked : /\ run.phase = "idle"
                               /\ run' = [NoRun EXCEPT !.phase = "targets", !.todo = todo, !.asked = asked]
        BY <3>2 DEF trigger_classify
      <4> QED BY <4>1 DEF NoRun
    <3> QED BY <2>1, <3>1, <3>2
  <2>2. CASE run_selects \/ run_dedups \/ run_starts \/ run_reads
    <3>1. CASE run_selects
      <4>1. PICK todo, asked :
               /\ run.phase = "auto"
               /\ run' = [run EXCEPT !.phase = "targets", !.todo = todo, !.asked = asked]
        BY <3>1 DEF run_selects
      <4> QED BY <1>1, <4>1 DEF LadderType
    <3>2. CASE run_dedups
      <4>1. PICK todo, items :
               /\ run.phase = "targets"
               /\ run' = [run EXCEPT !.phase = "selected", !.todo = todo, !.items = items]
        BY <3>2 DEF run_dedups
      <4> QED BY <1>1, <4>1 DEF LadderType
    <3>3. CASE run_starts
      <4>1. PICK read : run.phase = "selected" /\ run' = [run EXCEPT !.phase = "started", !.read = read]
        BY <3>3 DEF run_starts
      <4> QED BY <1>1, <4>1 DEF LadderType
    <3>4. CASE run_reads
      <4>1. PICK steps, read :
               /\ run.phase = "started"
               /\ run' = [run EXCEPT !.phase = "items", !.steps = steps, !.read = read]
        BY <3>4 DEF run_reads
      <4> QED BY <1>1, <4>1 DEF LadderType
    <3> QED BY <2>2, <3>1, <3>2, <3>3, <3>4
  <2>3. CASE no_candidates \/ unsure \/ no_decision
             \/ \E answer \in {"ok", "rejected_by_precheck", "submit_store_error"} :
                   submit_direction_assignment(answer)
    <3>1. PICK told : NextItem(told) /\ run.phase = "items"
      BY <1>1, <2>3 DEF no_candidates, unsure, no_decision, submit_direction_assignment, Climbing, Standing
    <3> QED BY <1>2, <3>1
  <2>4. CASE \E v : ReflexDecisive(v) \/ ReflexFallback(v)
    BY <2>4 DEF ReflexDecisive, ReflexFallback
  <2> QED BY <1>5, <2>1, <2>2, <2>3, <2>4 DEF ClassifyNext
<1>6. CASE ProposeNext
  <2>1. CASE trigger_propose
    BY <2>1 DEF trigger_propose, NoRun
  <2>2. CASE dedup_run
    <3>1. PICK read : run.phase = "targets" /\ run' = [run EXCEPT !.phase = "selected", !.read = read]
      BY <2>2 DEF dedup_run
    <3> QED BY <1>1, <3>1 DEF LadderType
  <2>3. CASE run_propose
    <3>1. PICK steps, read, items :
             /\ run.phase = "selected"
             /\ \/ run' = [run EXCEPT !.phase = "items", !.todo = <<>>, !.items = items]
                \/ run' = [run EXCEPT !.phase = "items", !.steps = steps, !.read = read]
      BY <2>3 DEF run_propose
    <3> QED BY <1>1, <3>1 DEF LadderType
  <2>4. CASE propose_decide \/ propose_nothing
    <3>1. run' = run \/ (run.phase = "items" /\ \E told : NextItem(told))
      BY <1>1, <2>4 DEF propose_decide, propose_nothing, Standing
    <3> QED BY <1>2, <3>1
  <2>5. CASE \E answer \in {"ok", "rejected_by_precheck", "submit_store_error"} : submit_one(answer)
    <3>1. PICK results : /\ run.phase = "items"
                         /\ NextItem(Report(results)) \/ run' = [run EXCEPT !.read.results = results]
      BY <1>1, <2>5 DEF submit_one, Standing
    <3>2. CASE run' = [run EXCEPT !.read.results = results]
      <4> DEFINE read == [run.read EXCEPT !.results = results]
      <4>1. run' = [run EXCEPT !.read = read]
        BY <3>2
      <4> HIDE DEF read
      <4> QED BY <1>1, <3>1, <4>1 DEF LadderType
    <3> QED BY <1>2, <3>1, <3>2
  <2>6. CASE \E v : ReflexFallback(v)
    BY <2>6 DEF ReflexFallback
  <2> QED BY <1>6, <2>1, <2>2, <2>3, <2>4, <2>5, <2>6 DEF ProposeNext
<1> QED BY <1>3, <1>4, <1>5, <1>6 DEF Next, Work

\* The record of a run that is over stays true to its rows, and whoever polls
\* has read that record.
LEMMA PollStep ==
    ASSUME BaseInv, RunReport, PollInv, [Next]_vars
    PROVE  PollInv'
<1>0. LadderInv
  BY DEF BaseInv
<1>1. CASE (poll_reads \/ poll_answers \/ poll_degrades) /\ UNCHANGED <<store, ladder, unseen>>
  <2>1. run' = run
    BY <1>1 DEF ladder
  <2>2. CASE poll_reads
    <3>1. poll' = [record |-> Newest.record, calls |-> None]
      BY <2>2 DEF poll_reads
    <3>2. run.last = None => Newest.record.state = "running"
      BY DEF Newest, AiRunRecord
    <3>3. run.last # None => Newest.record = run.last.record
      BY DEF Newest
    <3> HIDE DEF Newest
    <3> QED BY <2>1, <3>1, <3>2, <3>3 DEF PollInv
  <2>3. CASE poll_answers
    <3>1. PICK rows : poll' = [poll EXCEPT !.calls = rows]
      BY <2>3 DEF poll_answers
    <3>2. poll' = [record |-> poll.record, calls |-> rows]
      BY <3>1 DEF PollInv
    <3> QED BY <2>1, <3>2 DEF PollInv
  <2>4. CASE poll_degrades
    <3>1. poll' = [poll EXCEPT !.calls = <<>>]
      BY <2>4 DEF poll_degrades
    <3>2. poll' = [record |-> poll.record, calls |-> <<>>]
      BY <3>1 DEF PollInv
    <3> QED BY <2>1, <3>2 DEF PollInv
  <2> QED BY <1>1, <2>2, <2>3, <2>4
<1>2. CASE Work /\ poll' = IF NewRun THEN NoPoll ELSE poll
  <2>1. poll' = [record |-> poll'.record, calls |-> poll'.calls]
    BY <1>2 DEF PollInv, NoPoll
  <2>2. CASE run' = run
    <3>1. poll' = poll
      BY <1>2, <2>2 DEF NewRun
    <3> QED BY <2>2, <3>1 DEF PollInv
  <2>3. CASE run.phase = "idle" /\ run'.phase # "idle" /\ run'.last = None
    <3>1. poll'.record = None
      BY <1>2, <2>3 DEF NewRun, NoPoll
    <3> QED BY <2>1, <2>3, <3>1 DEF PollInv
  <2>4. CASE run.phase # "idle"
    <3>1. poll' = poll /\ run.last = None /\ ~(poll.record # None /\ poll.record.state = "done")
      BY <1>2, <2>4 DEF NewRun, PollInv
    <3>2. CASE run'.phase # "idle" /\ run'.last = run.last
      BY <2>1, <3>1, <3>2 DEF PollInv
    <3>3. CASE cancel_run
      <4>1. LeaveSlot("aborted", skipped_items)
        BY <3>3 DEF cancel_run
      <4>2. /\ run'.phase = "idle"
            /\ run'.last = None \/ run'.last.record = AiRunRecord("aborted", skipped_items)
        BY <1>0, <4>1, SlotIs
      <4>3. run'.last # None => run'.last.record.state = "aborted"
        BY <4>2 DEF AiRunRecord
      <4> QED BY <2>1, <3>1, <4>2, <4>3 DEF PollInv
    <3>4. CASE run_ends
      <4>1. run.phase = "items" /\ run.todo = <<>> /\ LeaveSlot(final_state, run.items)
        BY <3>4 DEF run_ends
      <4>2. /\ run'.phase = "idle"
            /\ \/ run'.last = None
               \/ run'.last.record = AiRunRecord(final_state, run.items) /\ run'.last.calls = calls
        BY <1>0, <4>1, SlotIs
      <4>3. Proposed(run.items) = Cardinality(Linked(calls))
        BY <4>1, EndsHonest
      <4>4. run'.last # None => run'.last.record.items = run.items /\ run'.last.calls = calls
        BY <4>2 DEF AiRunRecord
      <4> QED BY <2>1, <3>1, <4>2, <4>3, <4>4 DEF PollInv
    <3> QED BY <2>4, <3>2, <3>3, <3>4, RunGoes, <2>2
  <2> QED BY <2>2, <2>3, <2>4, RunGoes DEF cancel_run, run_ends
<1>3. CASE UNCHANGED vars
  BY <1>3 DEF vars, PollInv
<1> QED BY <1>1, <1>2, <1>3 DEF Next

\* What a poll is answered of a run that is done.
LEMMA AnswerHonest ==
    ASSUME PollInv, poll_answers, poll.record.state = "done"
    PROVE  Proposed(poll.record.items) = Cardinality(Linked(poll'.calls))
<1> DEFINE rows == list_ai_calls_for_run
<1>1. poll.record # None /\ poll' = [poll EXCEPT !.calls = rows]
  BY DEF poll_answers
<1>2. run.last # None /\ poll.record = run.last.record
  BY <1>1 DEF PollInv
<1>3. Newest = run.last
  BY <1>2 DEF Newest
<1>4. DOMAIN rows = DOMAIN run.last.calls /\ \A i \in DOMAIN rows : rows[i].proposal = run.last.calls[i].proposal
  BY <1>3 DEF list_ai_calls_for_run, AiCallSummary
<1> HIDE DEF rows
<1>5. poll'.calls = rows
  BY <1>1 DEF PollInv
<1>6. Linked(rows) = Linked(run.last.calls)
  BY <1>4 DEF Linked
<1> QED BY <1>2, <1>5, <1>6 DEF PollInv

\* A run's last report is true to its call log and to the store, and who polls a
\* run that is done is shown a row for each proposal it reports, in every set of
\* worlds and whatever fails, is created, edited or turned off on the way
\* (run_classify_and_record, run_propose_and_record, and get_ai_run).
THEOREM ReportHonestInvariant == Spec => ReportHonest
<1>1. Init => LiveInv /\ ReportInv
  <2> SUFFICES ASSUME Init PROVE LiveInv /\ ReportInv
    OBVIOUS
  <2>1. /\ proposals = <<>> /\ run = NoRun /\ item = AtTop /\ calls = <<>> /\ poll = NoPoll
    BY DEF Init, AiPortInit, LadderInit
  <2>2. /\ run.phase = "idle" /\ run.todo = <<>> /\ run.items = <<>> /\ run.asked = {} /\ run.last = None
        /\ item.phase = "step" /\ poll = [record |-> None, calls |-> None]
    BY <2>1 DEF NoRun, AtTop, NoPoll
  <2>3. Live = {} /\ precheck(Pending({"classify", "propose"})) = {}
    BY <2>1 DEF Live, precheck, Pending
  <2>4. LiveInv
    BY <2>1, <2>2, <2>3 DEF LiveInv, ProposalsKnown, TargetsKnown, SteersClear, OneLiveProposal
  <2>5. run.items \in Seq(ReportItem) /\ LinksHold(calls, proposals) /\ ToldByItems(<<>>, calls, proposals)
    BY <2>1, <2>2, NothingLinked
  <2>6. ClassifyReport /\ ProposeReport
    BY <2>2, <2>5 DEF ClassifyReport, ProposeReport, Covers, AbortedLast
  <2>7. PollInv
    BY <2>2 DEF PollInv
  <2> QED BY <2>2, <2>4, <2>5, <2>6, <2>7 DEF ReportInv, RunReport
<1>2. BaseInv /\ LiveInv /\ ReportInv /\ [Next]_vars => LiveInv' /\ ReportInv'
  BY LiveStep, ReportStep, PollStep DEF ReportInv
<1>3. BaseInv /\ ReportInv /\ [Next]_vars =>
         [/\ run_ends =>
              /\ Len(run.items) = Cardinality(run.asked)
              /\ {run.items[i].target : i \in DOMAIN run.items} = run.asked
              /\ Proposed(run.items) = Cardinality(Linked(calls))
              /\ IsInjective([i \in Linked(calls) |-> calls[i].proposal])
              /\ \A i \in Linked(calls) :
                    LET p == proposals[calls[i].proposal]
                    IN  /\ p.source = world.cap
                        /\ \E j \in DOMAIN run.items : run.items[j].result = "proposed" /\ Tells(run.items[j], p)
              /\ \A i, j \in DOMAIN run.items :
                    i < j /\ run.items[i].result = "aborted" => run.items[j].result = "aborted"
          /\ poll_answers /\ poll.record.state = "done" =>
              Proposed(poll.record.items) = Cardinality(Linked(poll'.calls))]_vars
  BY EndsHonest, AnswerHonest DEF ReportInv, run_ends
<1> QED BY <1>1, <1>2, <1>3, BaseInvariant, PTL DEF Spec, ReportHonest
=============================================================================

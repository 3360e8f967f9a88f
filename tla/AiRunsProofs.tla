----------------------------- MODULE AiRunsProofs -----------------------------
(***************************************************************************)
(* Theorems about AiRuns, for any number of capabilities, runs, permits    *)
(* and any deadlines.                                                      *)
(***************************************************************************)
EXTENDS AiRuns, FiniteSetTheorems, SequenceTheorems, TLAPS

\* Ids are minted in order, and a run has a task from then on.
Fresh == \A r \in Runs : r > minted <=> pc[r] = "none"

\* A run queues once.
QueuedOnce ==
    \A i, j \in DOMAIN waiters : waiters[i] = waiters[j] => i = j

\* A call is sent before the run's own deadline, after it was queued for a
\* while, and lasts at most its timeout.
Ages ==
    \A r \in Runs :
        /\ pc[r] # "calling" => callAge[r] = 0
        /\ pc[r] = "queued" => age[r] < RUN_DEADLINE + waited[r]
        /\ pc[r] = "calling" =>
            /\ callAge[r] <= MODEL_CALL_TIMEOUT
            /\ age[r] < RUN_DEADLINE + waited[r] + callAge[r]
        /\ pc[r] = "between" => age[r] < RUN_DEADLINE + waited[r] + MODEL_CALL_TIMEOUT

\* The inductive invariant.
RunsInv ==
    /\ TypeOK /\ Fresh /\ SlotFollowsTask /\ LiveRunIsTracked
    /\ PermitsConserved /\ QueuedOnce /\ Ages

\* What a step that takes run r elsewhere does to the others: one may be handed
\* the permit it was queued for.
Moves(r, where) ==
    /\ pc' \in [Runs -> Places]
    /\ pc'[r] = where
    /\ \A x \in Runs \ {r} : pc'[x] = pc[x] \/ (pc[x] = "queued" /\ pc'[x] = "calling")
-----------------------------------------------------------------------------
Calling == {r \in Runs : pc[r] = "calling"}
Queued == {r \in Runs : pc[r] = "queued"}

LEMMA CallingFinite == IsFiniteSet(Calling) /\ IsFiniteSet(Calling')
<1>1. IsFiniteSet(Runs)
  BY FS_Interval, AiRunsAssumption DEF Runs
<1>2. Calling \subseteq Runs /\ Calling' \subseteq Runs
  BY DEF Calling
<1> QED BY <1>1, <1>2, FS_Subset

\* The parts of a sequence before and after its place i.
LEMMA Before ==
    ASSUME NEW S, NEW q \in Seq(S), NEW i \in 1..Len(q)
    PROVE  /\ SubSeq(q, 1, i - 1) \in Seq(S) /\ Len(SubSeq(q, 1, i - 1)) = i - 1
           /\ \A j \in 1..(i - 1) : SubSeq(q, 1, i - 1)[j] = q[j]
<1>1. i - 1 \in Int /\ 1 \in Int /\ \A j \in 1..(i - 1) : q[j] \in S
  OBVIOUS
<1> DEFINE a == SubSeq(q, 1, i - 1)
<1>2. /\ a \in Seq(S) /\ Len(a) = IF 1 <= i - 1 THEN (i - 1) - 1 + 1 ELSE 0
      /\ \A j \in 1..((i - 1) - 1 + 1) : a[j] = q[1 + j - 1]
  BY <1>1, SubSeqProperties
<1> HIDE DEF a
<1>3. Len(q) \in Nat /\ i \in Nat /\ i >= 1
  OBVIOUS
<1>4. a \in Seq(S) /\ Len(a) = i - 1 /\ \A j \in 1..(i - 1) : a[j] = q[j]
  BY <1>2, <1>3
<1> QED BY <1>4 DEF a

LEMMA After ==
    ASSUME NEW S, NEW q \in Seq(S), NEW i \in 1..Len(q)
    PROVE  /\ SubSeq(q, i + 1, Len(q)) \in Seq(S) /\ Len(SubSeq(q, i + 1, Len(q))) = Len(q) - i
           /\ \A j \in 1..(Len(q) - i) : SubSeq(q, i + 1, Len(q))[j] = q[i + j]
<1> DEFINE n == Len(q)
           b == SubSeq(q, i + 1, n)
<1>1. i + 1 \in Int /\ n \in Int /\ \A j \in (i + 1)..n : q[j] \in S
  OBVIOUS
<1>2. /\ b \in Seq(S) /\ Len(b) = IF i + 1 <= n THEN n - (i + 1) + 1 ELSE 0
      /\ \A j \in 1..(n - (i + 1) + 1) : b[j] = q[(i + 1) + j - 1]
  BY <1>1, SubSeqProperties
<1>3. n \in Nat /\ i \in Nat /\ i >= 1 /\ i <= n
  OBVIOUS
<1> HIDE DEF b, n
<1>4. Len(b) = n - i
  BY <1>2, <1>3
<1>5. ASSUME NEW j \in 1..(n - i) PROVE b[j] = q[i + j]
  <2>1. j \in 1..(n - (i + 1) + 1) /\ (i + 1) + j - 1 = i + j
    BY <1>3
  <2> QED BY <1>2, <2>1
<1> QED BY <1>2, <1>4, <1>5 DEF b, n

\* w is the n-place q without its place i.
Without(w, q, i, n) ==
    \A j \in 1..(n - 1) : w[j] = IF j < i THEN q[j] ELSE q[j + 1]

Distinct(q, n) == \A j, k \in 1..n : q[j] = q[k] => j = k

Elements(q, n) == {q[j] : j \in 1..n}

\* What is left of a sequence when a place is cut out of it.
LEMMA Joined ==
    ASSUME NEW S, NEW q \in Seq(S), NEW i \in 1..Len(q),
           NEW w, w = SubSeq(q, 1, i - 1) \o SubSeq(q, i + 1, Len(q))
    PROVE  w \in Seq(S) /\ Len(w) = Len(q) - 1 /\ Without(w, q, i, Len(q))
<1> DEFINE a == SubSeq(q, 1, i - 1)
           b == SubSeq(q, i + 1, Len(q))
           n == Len(q)
<1>1. /\ a \in Seq(S) /\ Len(a) = i - 1
      /\ \A j \in 1..(i - 1) : a[j] = q[j]
  BY Before
<1>2. /\ b \in Seq(S) /\ Len(b) = n - i
      /\ \A j \in 1..(n - i) : b[j] = q[i + j]
  BY After
<1>3. n \in Nat /\ w = a \o b /\ i \in 1..n
  OBVIOUS
<1> HIDE DEF a, b, n
<1>4. /\ a \o b \in Seq(S) /\ Len(a \o b) = Len(a) + Len(b)
      /\ \A j \in 1..(Len(a) + Len(b)) : (a \o b)[j] = IF j <= Len(a) THEN a[j] ELSE b[j - Len(a)]
  BY ONLY <1>1, <1>2, ConcatProperties
<1>5. w \in Seq(S) /\ Len(w) = n - 1
  BY ONLY <1>1, <1>2, <1>3, <1>4
<1>6. ASSUME NEW j \in 1..(n - 1) PROVE w[j] = IF j < i THEN q[j] ELSE q[j + 1]
  <2>0. j \in 1..(Len(a) + Len(b))
    BY ONLY <1>1, <1>2, <1>3, j \in 1..(n - 1)
  <2>1. w[j] = IF j <= i - 1 THEN a[j] ELSE b[j - (i - 1)]
    BY ONLY <1>1, <1>3, <1>4, <2>0
  <2>2. CASE j < i
    <3>1. j \in 1..(i - 1) /\ j <= i - 1
      BY <1>3, <2>2
    <3> QED BY <1>1, <2>1, <2>2, <3>1
  <2>3. CASE ~(j < i)
    <3>1. j - (i - 1) \in 1..(n - i) /\ i + (j - (i - 1)) = j + 1 /\ ~(j <= i - 1)
      BY ONLY <1>3, <2>3, j \in 1..(n - 1)
    <3>2. b[j - (i - 1)] = q[j + 1]
      BY ONLY <1>2, <3>1
    <3> QED BY <2>1, <2>3, <3>1, <3>2
  <2> QED BY <2>2, <2>3
<1> QED BY <1>5, <1>6 DEF Without, n

\* Without a place, distinct elements stay distinct, and only that place's is
\* gone.
LEMMA Hole ==
    ASSUME NEW n \in Nat, NEW i \in 1..n, NEW q, NEW w,
           Distinct(q, n), Without(w, q, i, n)
    PROVE  Distinct(w, n - 1) /\ Elements(w, n - 1) = Elements(q, n) \ {q[i]}
<1>1. Distinct(w, n - 1)
  BY DEF Distinct, Without
<1>2. ASSUME NEW j \in 1..(n - 1)
      PROVE  \E k \in 1..n : k # i /\ w[j] = q[k]
  <2>1. CASE j < i
    BY <2>1 DEF Without
  <2>2. CASE ~(j < i)
    <3>1. j + 1 \in 1..n /\ j + 1 # i /\ w[j] = q[j + 1]
      BY <2>2 DEF Without
    <3> QED BY <3>1
  <2> QED BY <2>1, <2>2
<1>3. ASSUME NEW k \in 1..n, k # i
      PROVE  \E j \in 1..(n - 1) : w[j] = q[k]
  <2>1. CASE k < i
    <3>1. k \in 1..(n - 1) /\ w[k] = q[k]
      BY <2>1 DEF Without
    <3> QED BY <3>1
  <2>2. CASE ~(k < i)
    <3>1. k - 1 \in 1..(n - 1) /\ ~(k - 1 < i) /\ (k - 1) + 1 = k
      BY <1>3, <2>2
    <3>2. w[k - 1] = q[k]
      BY <3>1 DEF Without
    <3> QED BY <3>1, <3>2
  <2> QED BY <2>1, <2>2
<1>4. \A k \in 1..n : k # i => q[k] # q[i]
  BY DEF Distinct
<1>5. Elements(w, n - 1) = Elements(q, n) \ {q[i]}
  <2>1. ASSUME NEW e \in Elements(w, n - 1) PROVE e \in Elements(q, n) \ {q[i]}
    BY ONLY <1>2, <1>4, <2>1 DEF Elements
  <2>2. ASSUME NEW e \in Elements(q, n) \ {q[i]} PROVE e \in Elements(w, n - 1)
    BY ONLY <1>3, <2>2 DEF Elements
  <2> QED BY <2>1, <2>2
<1> QED BY <1>1, <1>5

\* The queue without a place.
LEMMA QueueWithout ==
    ASSUME RunsInv, NEW i \in DOMAIN waiters,
           waiters' = SubSeq(waiters, 1, i - 1) \o SubSeq(waiters, i + 1, Len(waiters))
    PROVE  /\ waiters' \in Seq(Runs)
           /\ QueuedOnce'
           /\ {waiters'[j] : j \in DOMAIN waiters'} = {waiters[j] : j \in DOMAIN waiters} \ {waiters[i]}
<1>1. TypeOK /\ QueuedOnce
  BY DEF RunsInv
<1>2. waiters \in Seq(Runs)
  BY <1>1 DEF TypeOK
<1>3. i \in 1..Len(waiters) /\ DOMAIN waiters = 1..Len(waiters) /\ Len(waiters) \in Nat
  BY <1>2
<1>4. Distinct(waiters, Len(waiters))
  BY <1>1, <1>3 DEF QueuedOnce, Distinct
<1>5. /\ waiters' \in Seq(Runs) /\ Len(waiters') = Len(waiters) - 1
      /\ Without(waiters', waiters, i, Len(waiters))
  BY <1>2, <1>3, Joined
<1>6. /\ Distinct(waiters', Len(waiters) - 1)
      /\ Elements(waiters', Len(waiters) - 1) = Elements(waiters, Len(waiters)) \ {waiters[i]}
  BY <1>3, <1>4, <1>5, Hole
<1>7. DOMAIN waiters' = 1..(Len(waiters) - 1)
  BY <1>5
<1>8. QueuedOnce'
  BY <1>6, <1>7 DEF QueuedOnce, Distinct
<1>9. {waiters'[j] : j \in DOMAIN waiters'} = {waiters[j] : j \in DOMAIN waiters} \ {waiters[i]}
  BY <1>3, <1>6, <1>7 DEF Elements
<1> QED BY <1>5, <1>8, <1>9

\* A permit passed on or returned.
LEMMA ReleaseKeeps ==
    ASSUME RunsInv, NEW r \in Runs, NEW where \in Places \ {"queued", "calling"},
           Release(r, where)
    PROVE  /\ Moves(r, where)
           /\ waiters' \in Seq(Runs) /\ permits' \in 0..MODEL_MAX_IN_FLIGHT
           /\ PermitsConserved' /\ QueuedOnce'
<1>0. TypeOK /\ PermitsConserved /\ QueuedOnce
  BY DEF RunsInv
<1>1. /\ waiters \in Seq(Runs) /\ pc \in [Runs -> Places] /\ permits \in 0..MODEL_MAX_IN_FLIGHT
      /\ MODEL_MAX_IN_FLIGHT \in Nat
  BY <1>0, AiRunsAssumption DEF TypeOK
<1>2. /\ permits + Cardinality(Calling) = MODEL_MAX_IN_FLIGHT
      /\ {waiters[i] : i \in DOMAIN waiters} = Queued
      /\ waiters # <<>> => permits = 0
  BY <1>0 DEF PermitsConserved, Calling, Queued
<1>3. IsFiniteSet(Calling) /\ r \in Calling /\ pc[r] = "calling"
  BY CallingFinite DEF Calling, Release
<1>4. Cardinality(Calling) \in Nat /\ Cardinality(Calling \ {r}) = Cardinality(Calling) - 1
  BY <1>3, FS_RemoveElement, FS_CardinalityType
<1>5. CASE waiters = <<>>
  <2>1. permits' = permits + 1 /\ pc' = [pc EXCEPT ![r] = where] /\ waiters' = waiters
    BY <1>5 DEF Release
  <2>2. Moves(r, where)
    BY <1>1, <2>1 DEF Moves
  <2>3. Calling' = Calling \ {r} /\ Queued' = Queued
    BY <1>1, <1>3, <2>1 DEF Calling, Queued
  <2>4. Cardinality(Calling \ {r}) \in Nat
    BY <1>3, FS_RemoveElement, FS_CardinalityType
  <2>5. permits' + Cardinality(Calling') = MODEL_MAX_IN_FLIGHT
    BY <1>1, <1>2, <1>4, <2>1, <2>3
  <2>6. permits' \in 0..MODEL_MAX_IN_FLIGHT
    BY <1>1, <1>2, <1>4, <2>1, <2>4
  <2>7. PermitsConserved'
    BY <1>2, <1>5, <2>1, <2>3, <2>5 DEF PermitsConserved, Calling, Queued
  <2> QED BY <1>0, <1>1, <2>1, <2>2, <2>6, <2>7 DEF QueuedOnce
<1>6. CASE waiters # <<>>
  <2> DEFINE h == waiters[1]
  <2>0. 1 \in DOMAIN waiters /\ h \in Runs /\ Head(waiters) = h
    BY <1>1, <1>6
  <2>1. /\ permits' = permits /\ waiters' = Tail(waiters)
        /\ pc' = [pc EXCEPT ![r] = where, ![h] = "calling"]
    BY <1>6, <2>0 DEF Release
  <2>2. h \in Queued /\ pc[h] = "queued" /\ h # r
    BY <1>2, <1>3, <2>0 DEF Queued
  <2>3. Moves(r, where)
    BY <1>1, <2>0, <2>1, <2>2 DEF Moves, Places
  <2>4. Calling' = (Calling \ {r}) \cup {h} /\ Queued' = Queued \ {h} /\ h \notin Calling
    BY <1>1, <1>3, <2>0, <2>1, <2>2 DEF Calling, Queued
  <2>5. Cardinality(Calling') = Cardinality(Calling)
    <3>1. IsFiniteSet(Calling \ {r}) /\ h \notin Calling \ {r}
      BY <1>3, <2>4, FS_RemoveElement
    <3>2. Cardinality((Calling \ {r}) \cup {h}) = Cardinality(Calling \ {r}) + 1
      BY <3>1, FS_AddElement
    <3> QED BY <1>4, <2>4, <3>2
  <2>6. /\ waiters' \in Seq(Runs) /\ QueuedOnce'
        /\ {waiters'[i] : i \in DOMAIN waiters'} = {waiters[i] : i \in DOMAIN waiters} \ {h}
    <3>1. waiters' = SubSeq(waiters, 1, 1 - 1) \o SubSeq(waiters, 1 + 1, Len(waiters))
      BY <1>1, <1>6, <2>1
    <3> QED BY <2>0, <3>1, QueueWithout
  <2>7. PermitsConserved'
    BY <1>2, <1>6, <2>1, <2>4, <2>5, <2>6 DEF PermitsConserved, Calling, Queued
  <2> QED BY <1>1, <2>1, <2>3, <2>6, <2>7
<1> QED BY <1>5, <1>6

\* A run leaves the queue before it was handed a permit.
LEMMA UnqueueKeeps ==
    ASSUME RunsInv, NEW r \in Runs, Unqueue(r)
    PROVE  /\ Moves(r, "ended")
           /\ waiters' \in Seq(Runs) /\ permits' \in 0..MODEL_MAX_IN_FLIGHT
           /\ PermitsConserved' /\ QueuedOnce'
<1>0. TypeOK /\ PermitsConserved
  BY DEF RunsInv
<1>1. /\ waiters \in Seq(Runs) /\ pc \in [Runs -> Places] /\ permits \in 0..MODEL_MAX_IN_FLIGHT
  BY <1>0 DEF TypeOK
<1>2. /\ permits + Cardinality(Calling) = MODEL_MAX_IN_FLIGHT
      /\ {waiters[i] : i \in DOMAIN waiters} = Queued
      /\ waiters # <<>> => permits = 0
  BY <1>0 DEF PermitsConserved, Calling, Queued
<1>3. PICK i \in DOMAIN waiters :
        /\ waiters[i] = r
        /\ waiters' = SubSeq(waiters, 1, i - 1) \o SubSeq(waiters, i + 1, Len(waiters))
  BY DEF Unqueue
<1>4. pc[r] = "queued" /\ pc' = [pc EXCEPT ![r] = "ended"] /\ permits' = permits
  BY DEF Unqueue
<1>5. Moves(r, "ended")
  BY <1>1, <1>4 DEF Moves, Places
<1>6. Calling' = Calling /\ Queued' = Queued \ {r}
  BY <1>1, <1>4 DEF Calling, Queued
<1>7. /\ waiters' \in Seq(Runs) /\ QueuedOnce'
      /\ {waiters'[j] : j \in DOMAIN waiters'} = {waiters[j] : j \in DOMAIN waiters} \ {r}
  BY <1>3, QueueWithout
<1>8. waiters # <<>>
  BY <1>1, <1>3
<1>9. PermitsConserved'
  BY <1>2, <1>4, <1>6, <1>7, <1>8 DEF PermitsConserved, Calling, Queued
<1> QED BY <1>1, <1>4, <1>5, <1>7, <1>9

\* A run whose future is dropped ends, and leaves the semaphore in order.
LEMMA DropKeeps ==
    ASSUME RunsInv, NEW r \in Runs, Drop(r)
    PROVE  /\ Moves(r, "ended") /\ pc[r] # "none"
           /\ waiters' \in Seq(Runs) /\ permits' \in 0..MODEL_MAX_IN_FLIGHT
           /\ PermitsConserved' /\ QueuedOnce'
<1>0. TypeOK /\ PermitsConserved /\ QueuedOnce
  BY DEF RunsInv
<1>1. CASE Release(r, "ended")
  <2>1. pc[r] # "none"
    BY <1>1 DEF Release
  <2> QED BY <1>1, <2>1, ReleaseKeeps DEF Places
<1>2. CASE Unqueue(r)
  <2>1. pc[r] # "none"
    BY <1>2 DEF Unqueue
  <2> QED BY <1>2, <2>1, UnqueueKeeps
<1>3. CASE Detached(r)
  <2>1. /\ pc \in [Runs -> Places] /\ pc' = [pc EXCEPT ![r] = "ended"]
        /\ pc[r] \in {"dedup", "between"} /\ waiters' = waiters /\ permits' = permits
    BY <1>0, <1>3 DEF TypeOK, Detached, semaphore
  <2>2. Moves(r, "ended") /\ pc[r] # "none"
    BY <2>1 DEF Moves, Places
  <2>3. Calling' = Calling /\ Queued' = Queued
    BY <2>1 DEF Calling, Queued
  <2>a. /\ permits + Cardinality(Calling) = MODEL_MAX_IN_FLIGHT
        /\ {waiters[i] : i \in DOMAIN waiters} = Queued
        /\ waiters # <<>> => permits = 0
    BY <1>0 DEF PermitsConserved, Calling, Queued
  <2>b. /\ permits' + Cardinality(Calling') = MODEL_MAX_IN_FLIGHT
        /\ {waiters'[i] : i \in DOMAIN waiters'} = Queued'
        /\ waiters' # <<>> => permits' = 0
    BY <2>1, <2>3, <2>a
  <2>4. PermitsConserved'
    BY <2>b DEF PermitsConserved, Calling, Queued
  <2>6. QueuedOnce'
    BY <1>0, <2>1 DEF QueuedOnce
  <2>5. waiters' \in Seq(Runs) /\ permits' \in 0..MODEL_MAX_IN_FLIGHT
    BY <1>0, <2>1 DEF TypeOK
  <2> QED BY <2>2, <2>4, <2>5, <2>6
<1> QED BY <1>1, <1>2, <1>3 DEF Drop
-----------------------------------------------------------------------------
\* A live run's task ends, in whichever way: its slot is freed, its permit or
\* its place in the queue goes with it.
LEMMA EndKeeps ==
    ASSUME RunsInv, NEW r \in Runs, NEW state \in {"done", "aborted"}, Live(r),
           finish(r, state), Drop(r), Forget(r), UNCHANGED <<minted, cap>>
    PROVE  RunsInv'
<1>0. TypeOK /\ Fresh /\ SlotFollowsTask /\ LiveRunIsTracked /\ Ages
  BY DEF RunsInv
<1>1. /\ Moves(r, "ended") /\ pc[r] # "none"
      /\ waiters' \in Seq(Runs) /\ permits' \in 0..MODEL_MAX_IN_FLIGHT
      /\ PermitsConserved' /\ QueuedOnce'
  BY DropKeeps
<1>2. /\ pc' \in [Runs -> Places] /\ pc'[r] = "ended"
      /\ \A x \in Runs \ {r} : pc'[x] = pc[x] \/ (pc[x] = "queued" /\ pc'[x] = "calling")
  BY <1>1 DEF Moves
<1>3. minted' = minted /\ cap' = cap
  OBVIOUS
<1>4. /\ busy' = [busy EXCEPT ![cap[r]] = NoRun] /\ order' = order
      /\ runs' = [x \in DOMAIN runs |-> IF x = r THEN state ELSE runs[x]]
  BY DEF finish
<1>5. /\ busy \in [Caps -> Runs \cup {NoRun}] /\ cap \in [Runs -> Caps] /\ pc \in [Runs -> Places]
      /\ order \in Seq(Runs)
      /\ DOMAIN runs \subseteq Runs /\ \A x \in DOMAIN runs : runs[x] \in RunStates
      /\ minted \in 0..MaxRuns
  BY <1>0 DEF TypeOK
<1>6. /\ age \in [Runs -> Nat] /\ callAge \in [Runs -> Nat] /\ waited \in [Runs -> Nat]
      /\ callsLeft \in [Runs -> 0..MAX_MODEL_CALLS] /\ MAX_MODEL_CALLS \in Nat
  BY <1>0, AiRunsAssumption DEF TypeOK
<1>7. \A x \in Runs \ {r} : Live(x)' <=> Live(x)
  BY <1>2 DEF Live, InRun
<1>8. ~Live(r)'
  BY <1>2 DEF Live, InRun
<1>9. /\ age' = [age EXCEPT ![r] = 0] /\ callAge' = [callAge EXCEPT ![r] = 0]
      /\ callsLeft' = [callsLeft EXCEPT ![r] = 0] /\ waited' = [waited EXCEPT ![r] = 0]
  BY DEF Forget
<1>10. TypeOK'
  <2>1. busy' \in [Caps -> Runs \cup {NoRun}]
    BY <1>4, <1>5
  <2>2. DOMAIN runs' \subseteq Runs /\ \A x \in DOMAIN runs' : runs'[x] \in RunStates
    BY <1>4, <1>5 DEF RunStates
  <2>3. /\ age' \in [Runs -> Nat] /\ callAge' \in [Runs -> Nat] /\ waited' \in [Runs -> Nat]
        /\ callsLeft' \in [Runs -> 0..MAX_MODEL_CALLS]
    BY <1>6, <1>9
  <2>4. order' \in Seq(Runs) /\ cap' \in [Runs -> Caps] /\ minted' \in 0..MaxRuns
    BY <1>3, <1>4, <1>5
  <2> QED BY <1>1, <1>2, <2>1, <2>2, <2>3, <2>4 DEF TypeOK
<1>11. Fresh'
  BY <1>0, <1>1, <1>2, <1>3 DEF Fresh
<1>12. SlotFollowsTask'
  <2> SUFFICES ASSUME NEW c \in Caps, NEW x \in Runs
               PROVE  busy'[c] = x <=> Live(x)' /\ cap'[x] = c
    BY DEF SlotFollowsTask
  <2>1. NoRun \notin Runs /\ busy[cap[r]] = r
    BY <1>0, <1>5 DEF SlotFollowsTask, NoRun, Runs
  <2>2. busy[c] = x <=> Live(x) /\ cap[x] = c
    BY <1>0 DEF SlotFollowsTask
  <2>3. busy'[c] = IF c = cap[r] THEN NoRun ELSE busy[c]
    BY <1>4, <1>5
  <2>4. CASE x = r
    BY <1>8, <2>1, <2>2, <2>3, <2>4
  <2>5. CASE x # r
    BY <1>3, <1>7, <2>1, <2>2, <2>3, <2>5
  <2> QED BY <2>4, <2>5
<1>13. LiveRunIsTracked'
  BY <1>0, <1>4, <1>7, <1>8 DEF LiveRunIsTracked
<1>14. Ages'
  <2> SUFFICES ASSUME NEW x \in Runs
               PROVE  /\ pc'[x] # "calling" => callAge'[x] = 0
                      /\ pc'[x] = "queued" => age'[x] < RUN_DEADLINE + waited'[x]
                      /\ pc'[x] = "calling" =>
                          /\ callAge'[x] <= MODEL_CALL_TIMEOUT
                          /\ age'[x] < RUN_DEADLINE + waited'[x] + callAge'[x]
                      /\ pc'[x] = "between" => age'[x] < RUN_DEADLINE + waited'[x] + MODEL_CALL_TIMEOUT
    BY DEF Ages
  <2>1. CASE x = r
    BY <1>2, <1>6, <1>9, <2>1
  <2>2. CASE x # r
    <3>1. age'[x] = age[x] /\ callAge'[x] = callAge[x] /\ waited'[x] = waited[x]
      BY <1>6, <1>9, <2>2
    <3>2. /\ pc[x] # "calling" => callAge[x] = 0
          /\ pc[x] = "queued" => age[x] < RUN_DEADLINE + waited[x]
          /\ pc[x] = "calling" =>
              /\ callAge[x] <= MODEL_CALL_TIMEOUT
              /\ age[x] < RUN_DEADLINE + waited[x] + callAge[x]
          /\ pc[x] = "between" => age[x] < RUN_DEADLINE + waited[x] + MODEL_CALL_TIMEOUT
      BY <1>0 DEF Ages
    <3>3. /\ RUN_DEADLINE \in Nat /\ MODEL_CALL_TIMEOUT \in Nat
          /\ age[x] \in Nat /\ callAge[x] \in Nat /\ waited[x] \in Nat
      BY <1>6, AiRunsAssumption
    <3> QED BY <1>2, <2>2, <3>1, <3>2, <3>3
  <2> QED BY <2>1, <2>2
<1> QED BY <1>1, <1>10, <1>11, <1>12, <1>13, <1>14 DEF RunsInv

\* A call ends and its permit is passed on or returned.
LEMMA CallEndKeeps ==
    ASSUME RunsInv, NEW r \in Runs, Release(r, "between"),
           callAge' = [callAge EXCEPT ![r] = 0],
           UNCHANGED <<registry, minted, cap, age, callsLeft, waited>>
    PROVE  RunsInv'
<1>0. TypeOK /\ Fresh /\ SlotFollowsTask /\ LiveRunIsTracked /\ Ages
  BY DEF RunsInv
<1>1. /\ Moves(r, "between")
      /\ waiters' \in Seq(Runs) /\ permits' \in 0..MODEL_MAX_IN_FLIGHT
      /\ PermitsConserved' /\ QueuedOnce'
  BY ReleaseKeeps DEF Places
<1>2. /\ pc' \in [Runs -> Places] /\ pc'[r] = "between" /\ pc[r] = "calling"
      /\ \A x \in Runs \ {r} : pc'[x] = pc[x] \/ (pc[x] = "queued" /\ pc'[x] = "calling")
  BY <1>1 DEF Moves, Release
<1>3. /\ order' = order /\ runs' = runs /\ busy' = busy /\ minted' = minted /\ cap' = cap
      /\ age' = age /\ callsLeft' = callsLeft /\ waited' = waited
  BY DEF registry
<1>4. /\ age \in [Runs -> Nat] /\ callAge \in [Runs -> Nat] /\ waited \in [Runs -> Nat]
  BY <1>0 DEF TypeOK
<1>5. callAge' \in [Runs -> Nat]
  BY <1>4
<1>6. TypeOK'
  BY <1>0, <1>1, <1>2, <1>3, <1>5 DEF TypeOK
<1>7. \A x \in Runs : Live(x)' <=> Live(x)
  BY <1>2 DEF Live, InRun
<1>8. Fresh'
  BY <1>0, <1>2, <1>3 DEF Fresh
<1>9. SlotFollowsTask'
  BY <1>0, <1>3, <1>7 DEF SlotFollowsTask
<1>10. LiveRunIsTracked'
  BY <1>0, <1>3, <1>7 DEF LiveRunIsTracked
<1>11. Ages'
  <2> SUFFICES ASSUME NEW x \in Runs
               PROVE  /\ pc'[x] # "calling" => callAge'[x] = 0
                      /\ pc'[x] = "queued" => age[x] < RUN_DEADLINE + waited[x]
                      /\ pc'[x] = "calling" =>
                          /\ callAge'[x] <= MODEL_CALL_TIMEOUT
                          /\ age[x] < RUN_DEADLINE + waited[x] + callAge'[x]
                      /\ pc'[x] = "between" => age[x] < RUN_DEADLINE + waited[x] + MODEL_CALL_TIMEOUT
    BY <1>3 DEF Ages
  <2>1. /\ pc[x] # "calling" => callAge[x] = 0
        /\ pc[x] = "queued" => age[x] < RUN_DEADLINE + waited[x]
        /\ pc[x] = "calling" =>
            /\ callAge[x] <= MODEL_CALL_TIMEOUT
            /\ age[x] < RUN_DEADLINE + waited[x] + callAge[x]
        /\ pc[x] = "between" => age[x] < RUN_DEADLINE + waited[x] + MODEL_CALL_TIMEOUT
    BY <1>0 DEF Ages
  <2>2. /\ RUN_DEADLINE \in Nat /\ MODEL_CALL_TIMEOUT \in Nat
        /\ age[x] \in Nat /\ callAge[x] \in Nat /\ waited[x] \in Nat
    BY <1>4, AiRunsAssumption
  <2>3. CASE x = r
    BY <1>2, <1>4, <2>1, <2>2, <2>3
  <2>4. CASE x # r
    <3>1. callAge'[x] = callAge[x]
      BY <1>4, <2>4
    <3> QED BY <1>2, <2>1, <2>2, <2>4, <3>1
  <2> QED BY <2>3, <2>4
<1> QED BY <1>1, <1>6, <1>8, <1>9, <1>10, <1>11 DEF RunsInv

\* A capability's slot is taken by a run that did not exist before.
LEMMA TriggerKeeps ==
    ASSUME RunsInv, NEW c \in Caps, Trigger(c)
    PROVE  RunsInv'
<1>0. TypeOK /\ Fresh /\ SlotFollowsTask /\ LiveRunIsTracked /\ PermitsConserved /\ QueuedOnce /\ Ages
  BY DEF RunsInv
<1>1. /\ busy \in [Caps -> Runs \cup {NoRun}] /\ cap \in [Runs -> Caps] /\ pc \in [Runs -> Places]
      /\ order \in Seq(Runs)
      /\ DOMAIN runs \subseteq Runs /\ \A x \in DOMAIN runs : runs[x] \in RunStates
      /\ minted \in 0..MaxRuns /\ MaxRuns \in Nat
  BY <1>0, AiRunsAssumption DEF TypeOK
<1>a. PICK r \in Runs : r = minted + 1
  BY <1>1 DEF Trigger, Runs
<1>2. pc[r] = "none" /\ minted' = r
  BY <1>0, <1>1, <1>a DEF Trigger, Runs, Fresh
<1>3. /\ cap' = [cap EXCEPT ![r] = c] /\ pc' = [pc EXCEPT ![r] = "dedup"] /\ busy[c] = NoRun
      /\ permits' = permits /\ waiters' = waiters
      /\ age' = age /\ callAge' = callAge /\ callsLeft' = callsLeft /\ waited' = waited
  BY <1>a DEF Trigger, semaphore
<1>4. busy' = [busy EXCEPT ![c] = r]
  BY <1>a DEF Trigger, start
<1> DEFINE keptRuns == DOMAIN runs \ {order[i] : i \in Evicted}
<1>5. runs' = [x \in keptRuns \cup {r} |-> IF x = r THEN "running" ELSE runs[x]]
  BY <1>a DEF Trigger, start
<1>6. order' \in Seq(Runs)
  <2>1. CASE Evicted = {}
    <3>1. order' = Append(order, r)
      BY <1>a, <2>1 DEF Trigger, start
    <3> QED BY <1>1, <1>2, <3>1
  <2>2. CASE Evicted # {}
    <3> DEFINE k == CHOOSE i \in Evicted : TRUE
               kept == SubSeq(order, 1, k - 1) \o SubSeq(order, k + 1, Len(order))
    <3>1. order' = Append(kept, r)
      BY <1>a, <2>2 DEF Trigger, start
    <3>2. k \in DOMAIN order
      BY <2>2 DEF Evicted, Evictable
    <3>3. k \in 1..Len(order)
      BY <1>1, <3>2
    <3> HIDE DEF k
    <3>4. kept \in Seq(Runs)
      BY <1>1, <3>3, Joined
    <3> HIDE DEF kept
    <3> QED BY <1>2, <3>1, <3>4
  <2> QED BY <2>1, <2>2
<1>7. TypeOK'
  <2>1. busy' \in [Caps -> Runs \cup {NoRun}] /\ cap' \in [Runs -> Caps]
    BY <1>1, <1>2, <1>3, <1>4
  <2>2. pc' \in [Runs -> Places]
    BY <1>1, <1>2, <1>3 DEF Places
  <2>3. DOMAIN runs' \subseteq Runs /\ \A x \in DOMAIN runs' : runs'[x] \in RunStates
    BY <1>1, <1>2, <1>5 DEF RunStates
  <2>4. minted' \in 0..MaxRuns
    BY <1>2 DEF Runs
  <2> QED BY <1>0, <1>3, <1>6, <2>1, <2>2, <2>3, <2>4 DEF TypeOK
<1>8. Fresh'
  <2> SUFFICES ASSUME NEW x \in Runs PROVE x > minted' <=> pc'[x] = "none"
    BY DEF Fresh
  <2>1. x > minted <=> pc[x] = "none"
    BY <1>0 DEF Fresh
  <2>2. pc'[x] = IF x = r THEN "dedup" ELSE pc[x]
    BY <1>1, <1>3
  <2>3. x \in Nat /\ minted \in Nat /\ minted' = minted + 1 /\ r = minted + 1
    BY <1>1, <1>2, <1>a DEF Runs
  <2> QED BY <2>1, <2>2, <2>3
<1>9. /\ \A x \in Runs \ {r} : Live(x)' <=> Live(x)
      /\ ~Live(r) /\ Live(r)'
  BY <1>1, <1>2, <1>3 DEF Live, InRun
<1>10. SlotFollowsTask'
  <2> SUFFICES ASSUME NEW d \in Caps, NEW x \in Runs
               PROVE  busy'[d] = x <=> Live(x)' /\ cap'[x] = d
    BY DEF SlotFollowsTask
  <2>1. NoRun \notin Runs
    BY DEF NoRun, Runs
  <2>2. busy[d] = x <=> Live(x) /\ cap[x] = d
    BY <1>0 DEF SlotFollowsTask
  <2>3. /\ busy'[d] = IF d = c THEN r ELSE busy[d]
        /\ cap'[x] = IF x = r THEN c ELSE cap[x]
    BY <1>1, <1>3, <1>4
  <2>4. CASE x = r
    BY <1>9, <2>2, <2>3, <2>4
  <2>5. CASE x # r
    BY <1>3, <1>9, <2>1, <2>2, <2>3, <2>5
  <2> QED BY <2>4, <2>5
<1>11. LiveRunIsTracked'
  <2> SUFFICES ASSUME NEW x \in Runs, Live(x)' PROVE x \in DOMAIN runs' /\ runs'[x] = "running"
    BY DEF LiveRunIsTracked
  <2>1. CASE x = r
    BY <1>5, <2>1
  <2>2. CASE x # r
    <3>1. x \in DOMAIN runs /\ runs[x] = "running"
      BY <1>0, <1>9, <2>2 DEF LiveRunIsTracked
    <3>2. x \notin {order[i] : i \in Evicted}
      BY <3>1 DEF Evicted, Evictable
    <3> QED BY <1>5, <2>2, <3>1, <3>2
  <2> QED BY <2>1, <2>2
<1>12. PermitsConserved' /\ QueuedOnce'
  <2>1. Calling' = Calling /\ Queued' = Queued
    BY <1>1, <1>2, <1>3 DEF Calling, Queued
  <2>2. /\ permits + Cardinality(Calling) = MODEL_MAX_IN_FLIGHT
        /\ {waiters[i] : i \in DOMAIN waiters} = Queued
        /\ waiters # <<>> => permits = 0
    BY <1>0 DEF PermitsConserved, Calling, Queued
  <2>3. /\ permits' + Cardinality(Calling') = MODEL_MAX_IN_FLIGHT
        /\ {waiters'[i] : i \in DOMAIN waiters'} = Queued'
        /\ waiters' # <<>> => permits' = 0
    BY <1>3, <2>1, <2>2
  <2>4. PermitsConserved'
    BY <2>3 DEF PermitsConserved, Calling, Queued
  <2> QED BY <1>0, <1>3, <2>4 DEF QueuedOnce
<1>13. Ages'
  <2>1. \A x \in Runs : pc'[x] = IF x = r THEN "dedup" ELSE pc[x]
    BY <1>1, <1>3
  <2>2. callAge[r] = 0
    BY <1>0, <1>2 DEF Ages
  <2> QED BY <1>0, <1>3, <2>1, <2>2 DEF Ages
<1> QED BY <1>7, <1>8, <1>10, <1>11, <1>12, <1>13 DEF RunsInv

\* The run proper begins.
LEMMA BeginKeeps ==
    ASSUME RunsInv, NEW r \in Runs, BeginRun(r)
    PROVE  RunsInv'
<1>0. TypeOK /\ Fresh /\ SlotFollowsTask /\ LiveRunIsTracked /\ PermitsConserved /\ QueuedOnce /\ Ages
  BY DEF RunsInv
<1>1. /\ pc \in [Runs -> Places] /\ age \in [Runs -> Nat] /\ waited \in [Runs -> Nat]
      /\ callsLeft \in [Runs -> 0..MAX_MODEL_CALLS] /\ MAX_MODEL_CALLS \in Nat
  BY <1>0, AiRunsAssumption DEF TypeOK
<1>2. /\ pc[r] = "dedup" /\ pc' = [pc EXCEPT ![r] = "between"]
      /\ age' = [age EXCEPT ![r] = 0] /\ callsLeft' = [callsLeft EXCEPT ![r] = MAX_MODEL_CALLS]
      /\ order' = order /\ runs' = runs /\ busy' = busy /\ permits' = permits /\ waiters' = waiters
      /\ minted' = minted /\ cap' = cap /\ callAge' = callAge /\ waited' = waited
  BY DEF BeginRun, registry, semaphore
<1>3. \A x \in Runs : pc'[x] = IF x = r THEN "between" ELSE pc[x]
  BY <1>1, <1>2
<1>4. /\ pc' \in [Runs -> Places] /\ age' \in [Runs -> Nat]
      /\ callsLeft' \in [Runs -> 0..MAX_MODEL_CALLS]
  BY <1>1, <1>2 DEF Places
<1>5. TypeOK'
  BY <1>0, <1>2, <1>4 DEF TypeOK
<1>6. \A x \in Runs : Live(x)' <=> Live(x)
  BY <1>2, <1>3 DEF Live, InRun
<1>7. Fresh'
  BY <1>0, <1>2, <1>3 DEF Fresh
<1>8. SlotFollowsTask'
  BY <1>0, <1>2, <1>6 DEF SlotFollowsTask
<1>9. LiveRunIsTracked'
  BY <1>0, <1>2, <1>6 DEF LiveRunIsTracked
<1>10. PermitsConserved' /\ QueuedOnce'
  <2>1. Calling' = Calling /\ Queued' = Queued
    BY <1>2, <1>3 DEF Calling, Queued
  <2>2. /\ permits + Cardinality(Calling) = MODEL_MAX_IN_FLIGHT
        /\ {waiters[i] : i \in DOMAIN waiters} = Queued
        /\ waiters # <<>> => permits = 0
    BY <1>0 DEF PermitsConserved, Calling, Queued
  <2>3. /\ permits' + Cardinality(Calling') = MODEL_MAX_IN_FLIGHT
        /\ {waiters'[i] : i \in DOMAIN waiters'} = Queued'
        /\ waiters' # <<>> => permits' = 0
    BY <1>2, <2>1, <2>2
  <2>4. PermitsConserved'
    BY <2>3 DEF PermitsConserved, Calling, Queued
  <2> QED BY <1>0, <1>2, <2>4 DEF QueuedOnce
<1>11. Ages'
  <2>1. callAge[r] = 0 /\ age'[r] = 0 /\ waited[r] \in Nat
    BY <1>0, <1>1, <1>2 DEF Ages
  <2>2. 0 < RUN_DEADLINE + waited[r] + MODEL_CALL_TIMEOUT
    BY <2>1, AiRunsAssumption
  <2>3. \A x \in Runs \ {r} : age'[x] = age[x]
    BY <1>1, <1>2
  <2> QED BY <1>0, <1>2, <1>3, <2>1, <2>2, <2>3 DEF Ages
<1> QED BY <1>5, <1>7, <1>8, <1>9, <1>10, <1>11 DEF RunsInv

\* A call takes a permit or a place in the queue.
LEMMA CallKeeps ==
    ASSUME RunsInv, NEW r \in Runs, CallModel(r)
    PROVE  RunsInv'
<1>0. TypeOK /\ Fresh /\ SlotFollowsTask /\ LiveRunIsTracked /\ PermitsConserved /\ QueuedOnce /\ Ages
  BY DEF RunsInv
<1>1. /\ pc \in [Runs -> Places] /\ age \in [Runs -> Nat] /\ callAge \in [Runs -> Nat]
      /\ waited \in [Runs -> Nat] /\ waiters \in Seq(Runs)
      /\ permits \in 0..MODEL_MAX_IN_FLIGHT /\ MODEL_MAX_IN_FLIGHT \in Nat
  BY <1>0, AiRunsAssumption DEF TypeOK
<1>2. /\ pc[r] = "between" /\ age[r] < RUN_DEADLINE
      /\ waited' = [waited EXCEPT ![r] = 0]
      /\ order' = order /\ runs' = runs /\ busy' = busy
      /\ minted' = minted /\ cap' = cap /\ age' = age /\ callAge' = callAge
  BY DEF CallModel, registry
<1>3. callsLeft' \in [Runs -> 0..MAX_MODEL_CALLS]
  <2>1. /\ callsLeft \in [Runs -> 0..MAX_MODEL_CALLS] /\ MAX_MODEL_CALLS \in Nat
        /\ callsLeft[r] > 0 /\ callsLeft' = [callsLeft EXCEPT ![r] = @ - 1]
    BY <1>0, AiRunsAssumption DEF TypeOK, CallModel
  <2> QED BY <2>1
<1>4. /\ permits + Cardinality(Calling) = MODEL_MAX_IN_FLIGHT
      /\ {waiters[i] : i \in DOMAIN waiters} = Queued
      /\ waiters # <<>> => permits = 0
  BY <1>0 DEF PermitsConserved, Calling, Queued
<1>5. /\ \E where \in {"queued", "calling"} : pc' = [pc EXCEPT ![r] = where]
      /\ waiters' \in Seq(Runs) /\ permits' \in 0..MODEL_MAX_IN_FLIGHT
      /\ PermitsConserved' /\ QueuedOnce'
  <2>1. CASE permits > 0 /\ waiters = <<>>
    <3>1. permits' = permits - 1 /\ pc' = [pc EXCEPT ![r] = "calling"] /\ waiters' = waiters
      BY <2>1 DEF CallModel
    <3>2. Calling' = Calling \cup {r} /\ Queued' = Queued /\ r \notin Calling
      BY <1>1, <1>2, <3>1 DEF Calling, Queued
    <3>3. Cardinality(Calling') = Cardinality(Calling) + 1 /\ Cardinality(Calling) \in Nat
      BY <3>2, CallingFinite, FS_AddElement, FS_CardinalityType
    <3>4. /\ permits' + Cardinality(Calling') = MODEL_MAX_IN_FLIGHT
          /\ permits' \in 0..MODEL_MAX_IN_FLIGHT
      BY <1>1, <1>4, <2>1, <3>1, <3>3
    <3>5. {waiters'[i] : i \in DOMAIN waiters'} = Queued' /\ (waiters' # <<>> => permits' = 0)
      BY <1>4, <2>1, <3>1, <3>2
    <3>6. PermitsConserved'
      BY <3>4, <3>5 DEF PermitsConserved, Calling, Queued
    <3>7. QueuedOnce'
      BY <1>0, <3>1 DEF QueuedOnce
    <3> QED BY <1>1, <3>1, <3>4, <3>6, <3>7
  <2>2. CASE ~(permits > 0 /\ waiters = <<>>)
    <3>1. permits' = permits /\ pc' = [pc EXCEPT ![r] = "queued"] /\ waiters' = Append(waiters, r)
      BY <2>2 DEF CallModel
    <3>2. Calling' = Calling /\ Queued' = Queued \cup {r} /\ r \notin Queued
      BY <1>1, <1>2, <3>1 DEF Calling, Queued
    <3>3. permits = 0
      BY <1>1, <1>4, <2>2
    <3> DEFINE n == Len(waiters)
    <3>4. /\ n \in Nat /\ waiters' \in Seq(Runs) /\ DOMAIN waiters' = 1..(n + 1) /\ DOMAIN waiters = 1..n
          /\ waiters'[n + 1] = r /\ \A i \in 1..n : waiters'[i] = waiters[i]
      BY <1>1, <3>1
    <3>5. \A i \in 1..n : waiters[i] # r
      BY <1>4, <3>2, <3>4
    <3> HIDE DEF n
    <3>6. QueuedOnce'
      <4>1. \A i, j \in 1..n : waiters[i] = waiters[j] => i = j
        BY <1>0, <3>4 DEF QueuedOnce
      <4>2. \A i \in 1..(n + 1) : i = n + 1 \/ i \in 1..n
        BY <3>4
      <4>3. ASSUME NEW i \in 1..(n + 1), NEW j \in 1..(n + 1), waiters'[i] = waiters'[j]
            PROVE  i = j
        BY <3>4, <3>5, <4>1, <4>2, <4>3
      <4> QED BY <3>4, <4>3 DEF QueuedOnce
    <3>7. {waiters'[i] : i \in DOMAIN waiters'} = Queued'
      <4>1. \A i \in 1..(n + 1) : i = n + 1 \/ i \in 1..n
        BY <3>4
      <4>2. n + 1 \in 1..(n + 1) /\ \A i \in 1..n : i \in 1..(n + 1)
        BY <3>4
      <4> QED BY <1>4, <3>2, <3>4, <4>1, <4>2, Zenon
    <3>8. permits' + Cardinality(Calling') = MODEL_MAX_IN_FLIGHT
      BY <1>4, <3>1, <3>2
    <3>9. PermitsConserved'
      BY <3>1, <3>3, <3>7, <3>8 DEF PermitsConserved, Calling, Queued
    <3> QED BY <1>1, <3>1, <3>4, <3>6, <3>9
  <2> QED BY <2>1, <2>2
<1>6. PICK where \in {"queued", "calling"} : pc' = [pc EXCEPT ![r] = where]
  BY <1>5
<1>7. /\ pc' \in [Runs -> Places] /\ waited' \in [Runs -> Nat]
      /\ \A x \in Runs : pc'[x] = IF x = r THEN where ELSE pc[x]
  BY <1>1, <1>2, <1>6 DEF Places
<1>8. TypeOK'
  BY <1>0, <1>2, <1>3, <1>5, <1>7 DEF TypeOK
<1>9. \A x \in Runs : Live(x)' <=> Live(x)
  BY <1>2, <1>7 DEF Live, InRun
<1>10. Fresh'
  BY <1>0, <1>2, <1>7 DEF Fresh
<1>11. SlotFollowsTask'
  BY <1>0, <1>2, <1>9 DEF SlotFollowsTask
<1>12. LiveRunIsTracked'
  BY <1>0, <1>2, <1>9 DEF LiveRunIsTracked
<1>13. Ages'
  <2>1. callAge[r] = 0 /\ waited'[r] = 0 /\ age[r] \in Nat
    BY <1>0, <1>1, <1>2 DEF Ages
  <2>2. /\ 0 <= MODEL_CALL_TIMEOUT
        /\ age[r] < RUN_DEADLINE + 0 /\ age[r] < RUN_DEADLINE + 0 + 0
    BY <1>2, <2>1, AiRunsAssumption
  <2>3. \A x \in Runs \ {r} : waited'[x] = waited[x]
    BY <1>1, <1>2
  <2> QED BY <1>0, <1>2, <1>7, <2>1, <2>2, <2>3 DEF Ages
<1> QED BY <1>5, <1>8, <1>10, <1>11, <1>12, <1>13 DEF RunsInv

\* Time passes for the tasks that wait.
LEMMA TimeKeeps ==
    ASSUME RunsInv, TimePasses
    PROVE  RunsInv'
<1>0. TypeOK /\ Fresh /\ SlotFollowsTask /\ LiveRunIsTracked /\ PermitsConserved /\ QueuedOnce /\ Ages
  BY DEF RunsInv
<1>1. /\ order' = order /\ runs' = runs /\ busy' = busy /\ permits' = permits /\ waiters' = waiters
      /\ minted' = minted /\ cap' = cap /\ pc' = pc /\ callsLeft' = callsLeft
  BY DEF TimePasses, registry, semaphore
<1>2. /\ age \in [Runs -> Nat] /\ callAge \in [Runs -> Nat] /\ waited \in [Runs -> Nat]
  BY <1>0 DEF TypeOK
<1>3. /\ age' = [x \in Runs |-> IF InRun(x) THEN age[x] + 1 ELSE age[x]]
      /\ callAge' = [x \in Runs |-> IF pc[x] = "calling" THEN callAge[x] + 1 ELSE callAge[x]]
      /\ waited' = [x \in Runs |-> IF pc[x] = "queued" THEN waited[x] + 1 ELSE waited[x]]
  BY DEF TimePasses
<1>4. age' \in [Runs -> Nat] /\ callAge' \in [Runs -> Nat] /\ waited' \in [Runs -> Nat]
  BY <1>2, <1>3
<1>5. TypeOK'
  BY <1>0, <1>1, <1>4 DEF TypeOK
<1>6. Fresh'
  BY <1>0, <1>1 DEF Fresh
<1>7. SlotFollowsTask' /\ LiveRunIsTracked'
  BY <1>0, <1>1 DEF SlotFollowsTask, LiveRunIsTracked, Live, InRun
<1>8. PermitsConserved' /\ QueuedOnce'
  BY <1>0, <1>1 DEF PermitsConserved, QueuedOnce
<1>9. Ages'
  <2> SUFFICES ASSUME NEW x \in Runs
               PROVE  /\ pc[x] # "calling" => callAge'[x] = 0
                      /\ pc[x] = "queued" => age'[x] < RUN_DEADLINE + waited'[x]
                      /\ pc[x] = "calling" =>
                          /\ callAge'[x] <= MODEL_CALL_TIMEOUT
                          /\ age'[x] < RUN_DEADLINE + waited'[x] + callAge'[x]
                      /\ pc[x] = "between" => age'[x] < RUN_DEADLINE + waited'[x] + MODEL_CALL_TIMEOUT
    BY <1>1 DEF Ages
  <2>1. /\ pc[x] # "calling" => callAge[x] = 0
        /\ pc[x] = "queued" => age[x] < RUN_DEADLINE + waited[x]
        /\ pc[x] = "calling" =>
            /\ callAge[x] <= MODEL_CALL_TIMEOUT
            /\ age[x] < RUN_DEADLINE + waited[x] + callAge[x]
    BY <1>0 DEF Ages
  <2>2. /\ RUN_DEADLINE \in Nat /\ MODEL_CALL_TIMEOUT \in Nat
        /\ age[x] \in Nat /\ callAge[x] \in Nat /\ waited[x] \in Nat
    BY <1>2, AiRunsAssumption
  <2>3. pc[x] # "between" /\ (pc[x] = "calling" => callAge[x] < MODEL_CALL_TIMEOUT)
    BY DEF TimePasses, Live, InRun
  <2>4. /\ age'[x] = IF InRun(x) THEN age[x] + 1 ELSE age[x]
        /\ callAge'[x] = IF pc[x] = "calling" THEN callAge[x] + 1 ELSE callAge[x]
        /\ waited'[x] = IF pc[x] = "queued" THEN waited[x] + 1 ELSE waited[x]
    BY <1>3
  <2>5. pc[x] \in {"queued", "calling"} => age'[x] = age[x] + 1
    BY <2>4 DEF InRun
  <2> QED BY <2>1, <2>2, <2>3, <2>4, <2>5
<1> QED BY <1>5, <1>6, <1>7, <1>8, <1>9 DEF RunsInv
-----------------------------------------------------------------------------
LEMMA RunsInit == Init => RunsInv
<1> SUFFICES ASSUME Init PROVE RunsInv
  OBVIOUS
<1>1. TypeOK
  <2>1. order = <<>> /\ waiters = <<>> /\ minted = 0 /\ permits = MODEL_MAX_IN_FLIGHT
    BY DEF Init
  <2>2. runs = [r \in {} |-> "running"] /\ busy = [c \in Caps |-> NoRun]
    BY DEF Init
  <2>3. cap \in [Runs -> Caps]
    <3>1. (CHOOSE c \in Caps : TRUE) \in Caps
      BY AiRunsAssumption
    <3> QED BY <3>1 DEF Init
  <2>4. pc \in [Runs -> Places]
    BY DEF Init, Places
  <2>5. /\ age \in [Runs -> Nat] /\ callAge \in [Runs -> Nat] /\ waited \in [Runs -> Nat]
        /\ callsLeft \in [Runs -> 0..MAX_MODEL_CALLS]
    BY AiRunsAssumption DEF Init
  <2>6. busy \in [Caps -> Runs \cup {NoRun}]
    BY <2>2
  <2>7. DOMAIN runs = {}
    BY <2>2
  <2> QED BY <2>1, <2>3, <2>4, <2>5, <2>6, <2>7, AiRunsAssumption DEF TypeOK
<1>2. \A r \in Runs : pc[r] = "none" /\ callAge[r] = 0
  BY DEF Init
<1>3. Fresh
  BY <1>2 DEF Init, Fresh, Runs
<1>4. SlotFollowsTask /\ LiveRunIsTracked
  BY <1>2 DEF SlotFollowsTask, LiveRunIsTracked, Live, InRun, Init, NoRun, Runs
<1>5. PermitsConserved
  <2>1. Calling = {} /\ Queued = {}
    BY <1>2 DEF Calling, Queued
  <2>2. waiters = <<>> /\ permits = MODEL_MAX_IN_FLIGHT /\ DOMAIN waiters = {}
    BY DEF Init
  <2>3. permits + Cardinality(Calling) = MODEL_MAX_IN_FLIGHT
    BY <2>1, <2>2, FS_EmptySet, AiRunsAssumption
  <2>4. {waiters[i] : i \in DOMAIN waiters} = Queued
    BY <2>1, <2>2
  <2> QED BY <2>2, <2>3, <2>4 DEF PermitsConserved, Calling, Queued
<1>6. QueuedOnce
  BY DEF Init, QueuedOnce
<1>7. Ages
  BY <1>2 DEF Ages
<1> QED BY <1>1, <1>3, <1>4, <1>5, <1>6, <1>7 DEF RunsInv

\* A step of any task, a trigger or the clock keeps the inductive invariant.
LEMMA RunsStep == RunsInv /\ [Next]_vars => RunsInv'
<1> SUFFICES ASSUME RunsInv, [Next]_vars PROVE RunsInv'
  OBVIOUS
<1>1. ASSUME NEW c \in Caps, Trigger(c) PROVE RunsInv'
  BY <1>1, TriggerKeeps
<1>2. ASSUME NEW r \in Runs, BeginRun(r) PROVE RunsInv'
  BY <1>2, BeginKeeps
<1>3. ASSUME NEW r \in Runs, SkipRun(r) PROVE RunsInv'
  <2>1. /\ Live(r) /\ finish(r, "done") /\ Drop(r) /\ Forget(r) /\ UNCHANGED <<minted, cap>>
    BY <1>3 DEF SkipRun, Live, Drop
  <2> QED BY <2>1, EndKeeps
<1>4. ASSUME NEW r \in Runs, CallModel(r) PROVE RunsInv'
  BY <1>4, CallKeeps
<1>5. ASSUME NEW r \in Runs, CallAnswered(r) PROVE RunsInv'
  BY <1>5, CallEndKeeps DEF CallAnswered
<1>6. ASSUME NEW r \in Runs, CallTimesOut(r) PROVE RunsInv'
  BY <1>6, CallEndKeeps DEF CallTimesOut
<1>7. ASSUME NEW r \in Runs, EndRun(r) PROVE RunsInv'
  <2>1. PICK state \in {"done", "aborted"} : finish(r, state)
    BY <1>7 DEF EndRun
  <2>2. Live(r) /\ Drop(r) /\ Forget(r) /\ UNCHANGED <<minted, cap>>
    BY <1>7 DEF EndRun, Live, InRun, Drop
  <2> QED BY <2>1, <2>2, EndKeeps
<1>8. ASSUME NEW r \in Runs, HardDeadline(r) PROVE RunsInv'
  <2>1. /\ Live(r) /\ finish(r, "aborted") /\ Drop(r) /\ Forget(r) /\ UNCHANGED <<minted, cap>>
    BY <1>8 DEF HardDeadline, Live
  <2> QED BY <2>1, EndKeeps
<1>9. ASSUME NEW r \in Runs, Panic(r) PROVE RunsInv'
  <2>1. /\ Live(r) /\ finish(r, "aborted") /\ Drop(r) /\ Forget(r) /\ UNCHANGED <<minted, cap>>
    BY <1>9 DEF Panic
  <2> QED BY <2>1, EndKeeps
<1>10. ASSUME TimePasses PROVE RunsInv'
  BY <1>10, TimeKeeps
<1>11. ASSUME UNCHANGED vars PROVE RunsInv'
  BY <1>11 DEF vars, registry, semaphore, RunsInv, TypeOK, Fresh, SlotFollowsTask, LiveRunIsTracked,
               PermitsConserved, QueuedOnce, Ages, Live, InRun
<1> QED BY <1>1, <1>2, <1>3, <1>4, <1>5, <1>6, <1>7, <1>8, <1>9, <1>10, <1>11 DEF Next

\* The inductive invariant holds throughout, whatever triggers, answers,
\* timeouts and panics come (RunRegistry, BusyGuard, SemaphoredModelCaller).
THEOREM RunsInvariant == Spec => []RunsInv
<1> QED BY RunsInit, RunsStep, PTL DEF Spec

\* Every variable keeps its type; a run makes at most its budget of calls.
THEOREM AiRunsTypes == Spec => []TypeOK
<1>1. RunsInv => TypeOK
  BY DEF RunsInv
<1> QED BY <1>1, RunsInvariant, PTL

\* A capability's slot names its one live task, though finish frees it blindly.
THEOREM SlotsFollowTasks == Spec => []SlotFollowsTask
<1>1. RunsInv => SlotFollowsTask
  BY DEF RunsInv
<1> QED BY <1>1, RunsInvariant, PTL

\* No live run is evicted from the log or relabelled (evict_one_non_running).
THEOREM LiveRunsTracked == Spec => []LiveRunIsTracked
<1>1. RunsInv => LiveRunIsTracked
  BY DEF RunsInv
<1> QED BY <1>1, RunsInvariant, PTL

\* However calls end, no permit is lost or doubled, and none lies idle while a
\* task waits (SemaphoredModelCaller).
THEOREM PermitsNeverLost == Spec => []PermitsConserved
<1>1. RunsInv => PermitsConserved
  BY DEF RunsInv
<1> QED BY <1>1, RunsInvariant, PTL

\* For any timeouts, only a call that was queued for longer than the margin
\* lets the hard deadline cut a run short (RUN_HARD_DEADLINE).
THEOREM QueueingMakesItFire == Spec => []HardDeadlineNeedsQueueing
<1>1. ASSUME RunsInv PROVE HardDeadlineNeedsQueueing
  <2>0. TypeOK /\ Ages
    BY <1>1 DEF RunsInv
  <2> SUFFICES ASSUME NEW r \in Runs, InRun(r), age[r] >= RUN_HARD_DEADLINE
               PROVE  waited[r] > MARGIN
    BY DEF HardDeadlineNeedsQueueing
  <2>1. age[r] \in Nat /\ waited[r] \in Nat /\ callAge[r] \in Nat
    BY <2>0 DEF TypeOK
  <2>2. /\ RUN_DEADLINE \in Nat /\ MODEL_CALL_TIMEOUT \in Nat /\ MARGIN \in Nat
        /\ age[r] >= RUN_DEADLINE + MODEL_CALL_TIMEOUT + MARGIN
    BY AiRunsAssumption DEF RUN_HARD_DEADLINE
  <2>3. age[r] < RUN_DEADLINE + waited[r] + MODEL_CALL_TIMEOUT
    <3>1. /\ pc[r] \in {"between", "queued", "calling"}
          /\ pc[r] = "queued" => age[r] < RUN_DEADLINE + waited[r]
          /\ pc[r] = "calling" =>
              /\ callAge[r] <= MODEL_CALL_TIMEOUT
              /\ age[r] < RUN_DEADLINE + waited[r] + callAge[r]
          /\ pc[r] = "between" => age[r] < RUN_DEADLINE + waited[r] + MODEL_CALL_TIMEOUT
      BY <2>0 DEF Ages, InRun
    <3> QED BY <2>1, <2>2, <3>1
  <2> QED BY <2>1, <2>2, <2>3
<1> QED BY <1>1, RunsInvariant, PTL
=============================================================================

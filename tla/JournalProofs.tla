---------------------------- MODULE JournalProofs ----------------------------
(***************************************************************************)
(* What Journal promises of the log and its replays, for every world: the   *)
(* three accounts of attention agree, a delivered fire is recorded once, a  *)
(* person's text is replaced by that person only, and a Review that a fire  *)
(* creates is one summarize may rewrite.                                    *)
(*                                                                         *)
(* JournalInv says more than these: what each event carries (Logged), what  *)
(* the rows of fires and Routines say of the log (Delivered), the accounts  *)
(* in sets of positions (WeeksHold, AreasHold), and that a draft is made    *)
(* from the program's own text (Drafted).  Sums are SumFunction's, whose    *)
(* value is found by induction on the size of its domain; the days are a    *)
(* fold, by FoldLemmas; and a day is in one week by the calendar's          *)
(* arithmetic.                                                              *)
(*                                                                         *)
(* The log is also all that a client need read (LogIsTheRecord): Recorded   *)
(* says that the last event of a row is what the row says, and the rest is  *)
(* what the queries of Today, and the pages of the log, return.             *)
(*                                                                         *)
(* And what a model writes claims nothing (NarrativeIsHonest): the text of  *)
(* a narrative is a Rendering of the accepted reply, in which every sign    *)
(* outside the program's brackets comes from one character of the reply,    *)
(* neighbours from neighbours; and a paragraph is an Excerpt of that text   *)
(* that no bracket crosses.                                                 *)
(***************************************************************************)
EXTENDS Today, FiniteSetTheorems, TLAPS

\* The upsert of one completion, the clock's zone and start given.
RowStep(view, e, wd) ==
    IF ~Completed(e) THEN view
    ELSE LET bucket == <<wd.start + e.at \div wd.per_day, e.payload.direction>>
         IN  [k \in DOMAIN view \cup {bucket} |->
                (IF k \in DOMAIN view THEN view[k] ELSE 0)
                + (IF k = bucket THEN e.payload.minutes ELSE 0)]

Replay == INSTANCE FoldLemmas WITH Step <- RowStep

Some(s) == CHOOSE x \in s : TRUE

\* g sums f over every subset of S that has at most n members.
Sums(g, f, S, n) ==
    g = [s \in {t \in SUBSET S : Cardinality(t) <= n} |->
            IF s = {} THEN 0 ELSE f[Some(s)] + g[s \ {Some(s)}]]

\* One member fewer.
LEMMA OneLess ==
    ASSUME NEW s, IsFiniteSet(s), NEW x \in s
    PROVE  /\ IsFiniteSet(s \ {x}) /\ Cardinality(s \ {x}) \in Nat
           /\ Cardinality(s) = Cardinality(s \ {x}) + 1
<1>1. IsFiniteSet(s \ {x}) /\ Cardinality(s \ {x}) = Cardinality(s) - 1
  BY FS_RemoveElement
<1>2. Cardinality(s) \in Nat /\ Cardinality(s \ {x}) \in Nat
  BY <1>1, FS_CardinalityType
<1> QED BY <1>1, <1>2

\* A set that is not empty has the member that is taken first.
LEMMA SomeIs ==
    ASSUME NEW s, s # {}
    PROVE  Some(s) \in s
BY DEF Some

\* The recursive function SumFunction is defined by exists.
LEMMA SumsExist ==
    ASSUME NEW f, NEW S, IsFiniteSet(S)
    PROVE  \A n \in Nat : \E g : Sums(g, f, S, n)
<1> DEFINE T == {n \in Nat : \E g : Sums(g, f, S, n)}
<1> DEFINE Upto(n) == {t \in SUBSET S : Cardinality(t) <= n}
<1>0. \A s \in SUBSET S : IsFiniteSet(s) /\ Cardinality(s) \in Nat
  BY FS_Subset, FS_CardinalityType
<1>1. 0 \in T
  <2> DEFINE g == [s \in Upto(0) |-> 0]
  <2>1. \A s \in Upto(0) : s = {}
    BY <1>0, FS_EmptySet
  <2>2. g = [s \in Upto(0) |-> IF s = {} THEN 0 ELSE f[Some(s)] + g[s \ {Some(s)}]]
    BY <2>1
  <2>3. Sums(g, f, S, 0)
    BY <2>2 DEF Sums
  <2> QED BY <2>3
<1>2. ASSUME NEW n \in Nat, n \in T PROVE n + 1 \in T
  <2>1. PICK g : Sums(g, f, S, n)
    BY <1>2
  <2> DEFINE h == [s \in Upto(n + 1) |-> IF s = {} THEN 0 ELSE f[Some(s)] + g[s \ {Some(s)}]]
  <2>2. ASSUME NEW s \in Upto(n), s # {}
        PROVE  s \ {Some(s)} \in Upto(n)
    <3>1. Some(s) \in s
      BY <2>2, SomeIs
    <3>2. Cardinality(s) = Cardinality(s \ {Some(s)}) + 1 /\ Cardinality(s \ {Some(s)}) \in Nat
      BY <1>0, <3>1, OneLess
    <3> QED BY <1>0, <3>2
  <2>3. ASSUME NEW s \in Upto(n)
        PROVE  h[s] = g[s]
    <3>1. s \in Upto(n + 1)
      BY <1>0
    <3>2. h[s] = IF s = {} THEN 0 ELSE f[Some(s)] + g[s \ {Some(s)}]
      BY <3>1
    <3>3. g[s] = IF s = {} THEN 0 ELSE f[Some(s)] + g[s \ {Some(s)}]
      BY <2>1 DEF Sums
    <3> QED BY <3>2, <3>3
  <2>4. ASSUME NEW s \in Upto(n + 1), s # {}
        PROVE  s \ {Some(s)} \in Upto(n)
    <3>1. Some(s) \in s
      BY <2>4, SomeIs
    <3>2. Cardinality(s) = Cardinality(s \ {Some(s)}) + 1 /\ Cardinality(s \ {Some(s)}) \in Nat
      BY <1>0, <3>1, OneLess
    <3> QED BY <1>0, <3>2
  <2>5. h = [s \in Upto(n + 1) |-> IF s = {} THEN 0 ELSE f[Some(s)] + h[s \ {Some(s)}]]
    <3>1. ASSUME NEW s \in Upto(n + 1)
          PROVE  (IF s = {} THEN 0 ELSE f[Some(s)] + g[s \ {Some(s)}])
                 = IF s = {} THEN 0 ELSE f[Some(s)] + h[s \ {Some(s)}]
      <4>1. CASE s = {}
        BY <4>1
      <4>2. CASE s # {}
        <5>1. h[s \ {Some(s)}] = g[s \ {Some(s)}]
          BY <2>3, <2>4, <4>2
        <5> HIDE DEF h
        <5> QED BY <4>2, <5>1
      <4> QED BY <4>1, <4>2
    <3> QED BY <3>1
  <2>6. Sums(h, f, S, n + 1)
    BY <2>5 DEF Sums
  <2> HIDE DEF h
  <2> QED BY <2>6
<1> HIDE DEF T
<1>3. Nat \subseteq T
  BY <1>1, <1>2, Replay!NatSetInduction
<1> QED BY <1>3 DEF T

\* g sums f over every subset of S.
SumsOn(g, f, S) ==
    g = [s \in SUBSET S |-> IF s = {} THEN 0 ELSE f[Some(s)] + g[s \ {Some(s)}]]

\* SumFunction is the value of that function on the whole domain.
LEMMA SumIs ==
    ASSUME NEW f, IsFiniteSet(DOMAIN f)
    PROVE  \E g : SumsOn(g, f, DOMAIN f) /\ SumFunction(f) = g[DOMAIN f]
<1> DEFINE S == DOMAIN f
<1> DEFINE n == Cardinality(S)
<1>0. n \in Nat
  BY FS_CardinalityType
<1>1. PICK g : Sums(g, f, S, n)
  BY <1>0, SumsExist
<1>2. {t \in SUBSET S : Cardinality(t) <= n} = SUBSET S
  BY FS_Subset
<1>3. SumsOn(g, f, S)
  BY <1>1, <1>2 DEF Sums, SumsOn
<1> DEFINE c == CHOOSE h : SumsOn(h, f, S)
<1>4. SumsOn(c, f, S)
  BY <1>3
<1>5. SumFunction(f) = c[S]
  BY DEF SumFunction, SumFunctionOnSet, FoldFunctionOnSet, MapThenFoldSet, SumsOn, Some
<1> QED BY <1>4, <1>5

\* The sum over a set that is not empty takes one member first.
LEMMA SumsFirst ==
    ASSUME NEW g, NEW f, NEW S, SumsOn(g, f, S), NEW s \in SUBSET S, NEW c \in s, c = Some(s)
    PROVE  g[s] = f[c] + g[s \ {c}]
BY DEF SumsOn

\* The sum over no member.
LEMMA SumsZero ==
    ASSUME NEW g, NEW f, NEW S, SumsOn(g, f, S)
    PROVE  g[{}] = 0
<1>1. {} \in SUBSET S
  OBVIOUS
<1> QED BY <1>1 DEF SumsOn

\* Sums are numbers.
LEMMA SumsNat ==
    ASSUME NEW g, NEW f, NEW S, IsFiniteSet(S), f \in [S -> Nat], SumsOn(g, f, S)
    PROVE  \A s \in SUBSET S : g[s] \in Nat
<1> DEFINE T == {n \in Nat : \A s \in SUBSET S : Cardinality(s) = n => g[s] \in Nat}
<1>0. \A s \in SUBSET S : IsFiniteSet(s) /\ Cardinality(s) \in Nat
  BY FS_Subset, FS_CardinalityType
<1>1. 0 \in T
  <2> SUFFICES ASSUME NEW s \in SUBSET S, Cardinality(s) = 0 PROVE g[s] \in Nat
    OBVIOUS
  <2>1. s = {}
    BY <1>0, FS_EmptySet
  <2> QED BY <2>1, SumsZero
<1>2. ASSUME NEW n \in Nat, n \in T PROVE n + 1 \in T
  <2> SUFFICES ASSUME NEW s \in SUBSET S, Cardinality(s) = n + 1 PROVE g[s] \in Nat
    OBVIOUS
  <2>1. CASE s = {}
    BY <2>1, SumsZero
  <2>2. CASE s # {}
    <3>1. PICK c \in s : c = Some(s)
      BY <2>2, SomeIs
    <3>2. Cardinality(s) = Cardinality(s \ {c}) + 1 /\ Cardinality(s \ {c}) \in Nat
      BY <1>0, OneLess
    <3>3. g[s \ {c}] \in Nat
      BY <1>2, <3>2
    <3> HIDE DEF T
    <3>4. f[c] \in Nat
      OBVIOUS
    <3>5. g[s] = f[c] + g[s \ {c}]
      BY <3>1, SumsFirst
    <3> QED BY <3>3, <3>4, <3>5
  <2> QED BY <2>1, <2>2
<1> HIDE DEF T
<1>3. Nat \subseteq T
  BY <1>1, <1>2, Replay!NatSetInduction
<1> QED BY <1>0, <1>3 DEF T

\* The order of two additions.
LEMMA Reordered ==
    ASSUME NEW a \in Nat, NEW b \in Nat, NEW r \in Nat, NEW u, NEW v, NEW w,
           w = a + u, u = b + r, v = a + r
    PROVE  w = b + v
OBVIOUS

\* It does not matter which member is taken first.
LEMMA SumsTake ==
    ASSUME NEW g, NEW f, NEW S, IsFiniteSet(S), f \in [S -> Nat], SumsOn(g, f, S)
    PROVE  \A s \in SUBSET S : \A x \in s : g[s] = f[x] + g[s \ {x}]
<1> DEFINE Q(s) == \A x \in s : g[s] = f[x] + g[s \ {x}]
<1> DEFINE T == {n \in Nat : \A s \in SUBSET S : Cardinality(s) = n => Q(s)}
<1>0. \A s \in SUBSET S : IsFiniteSet(s) /\ Cardinality(s) \in Nat
  BY FS_Subset, FS_CardinalityType
<1>1. 0 \in T
  <2> SUFFICES ASSUME NEW s \in SUBSET S, Cardinality(s) = 0 PROVE Q(s)
    OBVIOUS
  <2>1. s = {}
    BY <1>0, FS_EmptySet
  <2> QED BY <2>1
<1>2. ASSUME NEW n \in Nat, n \in T PROVE n + 1 \in T
  <2> SUFFICES ASSUME NEW s \in SUBSET S, Cardinality(s) = n + 1, NEW x \in s
               PROVE  g[s] = f[x] + g[s \ {x}]
    OBVIOUS
  <2>1. \A y \in s : s \ {y} \in SUBSET S /\ Cardinality(s \ {y}) = n
    <3> SUFFICES ASSUME NEW y \in s PROVE Cardinality(s \ {y}) = n
      OBVIOUS
    <3>1. Cardinality(s) = Cardinality(s \ {y}) + 1 /\ Cardinality(s \ {y}) \in Nat
      BY <1>0, OneLess
    <3> QED BY <3>1
  <2>2. \A y \in s : Q(s \ {y})
    BY <1>2, <2>1
  <2> HIDE DEF T
  <2>4. PICK c \in s : c = Some(s)
    BY SomeIs
  <2>5. g[s] = f[c] + g[s \ {c}]
    BY <2>4, SumsFirst
  <2>6. CASE x = c
    BY <2>5, <2>6
  <2>7. CASE x # c
    <3>1. (s \ {c}) \ {x} = (s \ {x}) \ {c} /\ x \in s \ {c} /\ c \in s \ {x}
      BY <2>7
    <3>2. g[s \ {c}] = f[x] + g[(s \ {c}) \ {x}]
      BY <2>2, <3>1
    <3>3. g[s \ {x}] = f[c] + g[(s \ {c}) \ {x}]
      BY <2>2, <3>1
    <3>4. f[x] \in Nat /\ f[c] \in Nat /\ g[(s \ {c}) \ {x}] \in Nat
      BY SumsNat
    <3> QED BY <2>5, <3>2, <3>3, <3>4, Reordered
  <2> QED BY <2>6, <2>7
<1> HIDE DEF T
<1>3. Nat \subseteq T
  BY <1>1, <1>2, Replay!NatSetInduction
<1> QED BY <1>0, <1>3 DEF T

\* The sum over a set depends on the terms of its members alone.
LEMMA SumsAgree ==
    ASSUME NEW g, NEW f, NEW S, IsFiniteSet(S), SumsOn(g, f, S),
           NEW h, NEW e, NEW R, SumsOn(h, e, R),
           NEW U, U \subseteq S, U \subseteq R, \A x \in U : f[x] = e[x]
    PROVE  g[U] = h[U]
<1> DEFINE T == {n \in Nat : \A s \in SUBSET U : Cardinality(s) = n => g[s] = h[s]}
<1>0. \A s \in SUBSET U : IsFiniteSet(s) /\ Cardinality(s) \in Nat
  BY FS_Subset, FS_CardinalityType
<1>1. 0 \in T
  <2> SUFFICES ASSUME NEW s \in SUBSET U, Cardinality(s) = 0 PROVE g[s] = h[s]
    OBVIOUS
  <2>1. s = {}
    BY <1>0, FS_EmptySet
  <2> QED BY <2>1, SumsZero
<1>2. ASSUME NEW n \in Nat, n \in T PROVE n + 1 \in T
  <2> SUFFICES ASSUME NEW s \in SUBSET U, Cardinality(s) = n + 1 PROVE g[s] = h[s]
    OBVIOUS
  <2>1. CASE s = {}
    BY <2>1, SumsZero
  <2>2. CASE s # {}
    <3>1. PICK c \in s : c = Some(s)
      BY <2>2, SomeIs
    <3>2. Cardinality(s) = Cardinality(s \ {c}) + 1 /\ Cardinality(s \ {c}) \in Nat
      BY <1>0, OneLess
    <3>3. g[s \ {c}] = h[s \ {c}]
      BY <1>2, <3>2
    <3> HIDE DEF T
    <3>0. s \in SUBSET S /\ s \in SUBSET R /\ f[c] = e[c]
      OBVIOUS
    <3>4. g[s] = f[c] + g[s \ {c}]
      BY <3>0, <3>1, SumsFirst
    <3>5. h[s] = e[c] + h[s \ {c}]
      BY <3>0, <3>1, SumsFirst
    <3> QED BY <3>0, <3>3, <3>4, <3>5
  <2> QED BY <2>1, <2>2
<1> HIDE DEF T
<1>3. Nat \subseteq T
  BY <1>1, <1>2, Replay!NatSetInduction
<1> QED BY <1>0, <1>3 DEF T

\* The sum of finitely many numbers is a number.
LEMMA SumNat ==
    ASSUME NEW S, IsFiniteSet(S), NEW f \in [S -> Nat]
    PROVE  SumFunction(f) \in Nat
<1>1. DOMAIN f = S
  OBVIOUS
<1>2. PICK g : SumsOn(g, f, S) /\ SumFunction(f) = g[S]
  BY <1>1, SumIs
<1> QED BY <1>2, SumsNat

\* The sum of no terms.
LEMMA SumNone ==
    ASSUME NEW f, DOMAIN f = {}
    PROVE  SumFunction(f) = 0
<1>1. PICK g : SumsOn(g, f, {}) /\ SumFunction(f) = g[{}]
  BY SumIs, FS_EmptySet
<1> QED BY <1>1, SumsZero

\* One term more.
LEMMA SumMore ==
    ASSUME NEW S, IsFiniteSet(S), NEW f \in [S -> Nat], NEW x, x \notin S,
           NEW h \in [S \cup {x} -> Nat], \A y \in S : h[y] = f[y]
    PROVE  SumFunction(h) = SumFunction(f) + h[x]
<1> DEFINE R == S \cup {x}
<1>1. IsFiniteSet(R) /\ DOMAIN f = S /\ DOMAIN h = R
  BY FS_AddElement
<1>2. PICK p : SumsOn(p, f, S) /\ SumFunction(f) = p[S]
  BY <1>1, SumIs
<1>3. PICK q : SumsOn(q, h, R) /\ SumFunction(h) = q[R]
  BY <1>1, SumIs
<1>4. R \ {x} = S /\ x \in R
  OBVIOUS
<1>5. q[R] = h[x] + q[R \ {x}]
  BY <1>1, <1>3, <1>4, SumsTake
<1>6. p[S] = q[S]
  BY <1>2, <1>3, SumsAgree
<1>7. p[S] \in Nat /\ h[x] \in Nat
  BY <1>2, SumsNat
<1>8. PICK a \in Nat, b \in Nat : a = p[S] /\ b = h[x]
  BY <1>7
<1>9. SumFunction(h) = b + a /\ SumFunction(f) = a
  BY <1>2, <1>3, <1>4, <1>5, <1>6, <1>8
<1> QED BY <1>8, <1>9

\* One term changed.
LEMMA SumChange ==
    ASSUME NEW S, IsFiniteSet(S), NEW f \in [S -> Nat], NEW h \in [S -> Nat], NEW x \in S,
           \A y \in S : y # x => h[y] = f[y]
    PROVE  SumFunction(h) + f[x] = SumFunction(f) + h[x]
<1> DEFINE R == S \ {x}
<1> DEFINE r == [y \in R |-> f[y]]
<1>1. IsFiniteSet(R) /\ x \notin R /\ R \cup {x} = S
  BY FS_RemoveElement
<1>2. r \in [R -> Nat] /\ \A y \in R : f[y] = r[y] /\ h[y] = r[y]
  OBVIOUS
<1> HIDE DEF R, r
<1>3. SumFunction(f) = SumFunction(r) + f[x]
  BY <1>1, <1>2, SumMore
<1>4. SumFunction(h) = SumFunction(r) + h[x]
  BY <1>1, <1>2, SumMore
<1>5. SumFunction(r) \in Nat /\ f[x] \in Nat /\ h[x] \in Nat
  BY <1>1, <1>2, SumNat
<1> QED BY <1>3, <1>4, <1>5
-----------------------------------------------------------------------------
(* The inductive invariant *)

TaskStatus == {"backlog", "planned", "in_progress", "done", "dropped", "carried_over"}
Task == [week : Weeks \cup {None}, direction : Ids(directions), status : TaskStatus,
         created_at : Nat]
Block == [direction : Ids(directions), task : Ids(tasks), minutes : Nat,
          status : ScheduleBlockStatus]

\* The tables, and the weeks of the days there are.
Typed ==
    /\ world \in Worlds
    /\ now \in 0..world.last
    /\ weeks = [w \in {iso_week_of(at) : at \in 0..world.last} |-> iso_week_bounds(w)]
    /\ \E S : events \in Seq(S)
    /\ \E S : directions \in Seq(S)
    /\ tasks \in Seq(Task)
    /\ blocks \in Seq(Block)
    /\ watermark \in 0..Len(events)

DirectionCreated(e) == e.entity = "direction" /\ e.kind = "created"

\* An event says by itself what its replays read: a completion its Direction and
\* minutes, a created Direction its Area.
Logged ==
    /\ \A i \in DOMAIN events :
          /\ events[i].at \in 0..world.last
          /\ Completed(events[i]) => /\ events[i].payload.direction \in Ids(directions)
                                     /\ events[i].payload.minutes \in Nat
          /\ DirectionCreated(events[i]) =>
                /\ events[i].id \in DOMAIN directions
                /\ events[i].payload.area = directions[events[i].id]
    /\ \A d \in DOMAIN directions :
          \E i \in DOMAIN events : DirectionCreated(events[i]) /\ events[i].id = d

Fired(e) == e.entity = "routine" /\ e.kind = "fired"
Retired(e) == e.entity = "routine" /\ e.kind = "retired"

\* A row of a fire is the trace of one event; a retirement is on its row.
Delivered ==
    /\ routines \in [Routines -> RoutineStatus]
    /\ fires \in [FireIds -> [routine : Routines, received_at : Nat] \cup {None}]
    /\ \A f \in FireIds : fires[f] # None =>
          \E i \in DOMAIN events :
              /\ Fired(events[i]) /\ events[i].payload.fire = f /\ events[i].id = fires[f].routine
              /\ \A j \in DOMAIN events : Fired(events[j]) /\ events[j].payload.fire = f => j = i
    /\ \A i \in DOMAIN events : Fired(events[i]) =>
          events[i].payload.fire \in FireIds /\ fires[events[i].payload.fire] # None
    /\ \A i \in DOMAIN events : Retired(events[i]) =>
          events[i].id \in Routines /\ routines[events[i].id] = "retired"
    /\ \A i, j \in DOMAIN events :
          Fired(events[j]) /\ Retired(events[i]) /\ events[i].id = events[j].id => j < i

Programs == {"nobody", "routine", "facts"}

\* The texts there are: of Reviews, of drafts, of the run.
ReviewRow(B) == [status : {"absent", "draft", "finalized"}, body : B]
DraftRow(B) ==
    [week : Weeks, base : B, at : Nat, status : {"pending", "accepted", "rejected"}, body : B]
Run(B) ==
    {Idle} \cup [pc : {"dedup", "read"}, week : Weeks, base : B]
           \cup [pc : {"decide"}, week : Weeks, base : B, draft : B, reply : B]

Texted(B) ==
    /\ reviews \in [Weeks -> ReviewRow(B)]
    /\ drafts \in Seq(DraftRow(B))
    /\ run \in Run(B)

\* A draft is made from a body of the program's, and of such a body alone.
Drafted ==
    /\ \E B : Texted(B)
    /\ \A w \in Weeks : reviews[w].status = "absent" => reviews[w].body = Blank
    /\ run.pc = "decide" => run.base.by \in Programs
    /\ \A i \in DOMAIN drafts : drafts[i].base.by \in Programs

-----------------------------------------------------------------------------
(* The log grows *)

\* What Append does.
LEMMA AppendIs ==
    ASSUME NEW S, NEW s \in Seq(S), NEW e
    PROVE  /\ Append(s, e) \in Seq(S \cup {e})
           /\ Len(Append(s, e)) = Len(s) + 1
           /\ DOMAIN s = 1..Len(s)
           /\ DOMAIN Append(s, e) = DOMAIN s \cup {Len(s) + 1}
           /\ Len(s) + 1 \notin DOMAIN s
           /\ \A i \in DOMAIN s : Append(s, e)[i] = s[i]
           /\ Append(s, e)[Len(s) + 1] = e
<1>1. s \in Seq(S \cup {e}) /\ e \in S \cup {e}
  OBVIOUS
<1> QED BY <1>1

\* An old prefix of the log.
Grows ==
    /\ \E S : events' \in Seq(S)
    /\ DOMAIN events \subseteq DOMAIN events'
    /\ \A i \in DOMAIN events : events'[i] = events[i]

\* The step writes one event.
Adds(e) ==
    /\ \E S : events' \in Seq(S)
    /\ DOMAIN events' = DOMAIN events \cup {Len(events) + 1}
    /\ Len(events) + 1 \notin DOMAIN events
    /\ \A i \in DOMAIN events : i < Len(events) + 1
    /\ Len(events') = Len(events) + 1
    /\ \A i \in DOMAIN events : events'[i] = events[i]
    /\ events'[Len(events) + 1] = e

\* An event appended.
LEMMA OneAdded ==
    ASSUME Typed, NEW e, events' = Append(events, e)
    PROVE  Adds(e)
<1>1. PICK S : events \in Seq(S)
  BY DEF Typed
<1>2. /\ events' \in Seq(S \cup {e})
      /\ Len(events') = Len(events) + 1
      /\ DOMAIN events = 1..Len(events)
      /\ DOMAIN events' = DOMAIN events \cup {Len(events) + 1}
      /\ Len(events) + 1 \notin DOMAIN events
      /\ \A i \in DOMAIN events : events'[i] = events[i]
      /\ events'[Len(events) + 1] = e
  BY <1>1, AppendIs
<1>3. \A i \in DOMAIN events : i < Len(events) + 1
  BY <1>1
<1> QED BY <1>2, <1>3 DEF Adds

\* The fields of an event.
LEMMA EventIs ==
    ASSUME NEW entity, NEW id, NEW kind, NEW to, NEW payload
    PROVE  LET e == Event(entity, id, kind, to, payload)
           IN  /\ e.entity = entity /\ e.id = id /\ e.kind = kind /\ e.to = to
               /\ e.at = now /\ e.payload = payload
BY DEF Event

-----------------------------------------------------------------------------
(* Minutes *)

AreaOf(ds, d) == IF d = None THEN None ELSE ds[d]

AreaSeqs(w, a) ==
    {i \in CompletedIn(events, weeks[w]) : AreaOf(directions, events[i].payload.direction) = a}
AreaMinutes(w, a) == MinutesAt(events, AreaSeqs(w, a))
AreaBlocks(a) ==
    {b \in DOMAIN blocks : blocks[b].status = "completed" /\ a = AreaOf(directions, blocks[b].direction)}
WeekSeqs(w) == {i \in DOMAIN events : Completed(events[i]) /\ events[i].payload.week = w}
WeekBlocks(w) ==
    {b \in DOMAIN blocks : /\ blocks[b].status = "completed"
                           /\ blocks[b].task # None /\ tasks[blocks[b].task].week = w}
BlockMinutes(bs, B) == SumFunction([b \in B |-> bs[b].minutes])

\* The Areas that the log tells are those of the rows.
LEMMA SnapshotIsDirections ==
    ASSUME Typed, Logged
    PROVE  direction_area_snapshot_on(events) = directions
<1> DEFINE created == {i \in DOMAIN events : DirectionCreated(events[i])}
<1>1. PICK S : directions \in Seq(S)
  BY DEF Typed
<1>2. {events[i].id : i \in created} = DOMAIN directions
  BY DEF Logged
<1>3. ASSUME NEW d \in DOMAIN directions
      PROVE  events[CHOOSE i \in created : events[i].id = d].payload.area = directions[d]
  <2>1. \E i \in created : events[i].id = d
    BY DEF Logged
  <2>2. PICK c : c = CHOOSE i \in created : events[i].id = d
    OBVIOUS
  <2>3. c \in created /\ events[c].id = d
    BY <2>1, <2>2
  <2>4. events[c].payload.area = directions[events[c].id]
    BY <2>3 DEF Logged
  <2> QED BY <2>2, <2>3, <2>4
<1>4. directions = [d \in DOMAIN directions |-> directions[d]]
  BY <1>1
<1>5. direction_area_snapshot_on(events)
      = [d \in {events[i].id : i \in created} |->
            events[CHOOSE i \in created : events[i].id = d].payload.area]
  BY DEF direction_area_snapshot_on, DirectionCreated
<1> HIDE DEF created
<1>6. [d \in {events[i].id : i \in created} |->
            events[CHOOSE i \in created : events[i].id = d].payload.area]
      = [d \in DOMAIN directions |-> directions[d]]
  BY <1>2, <1>3
<1> QED BY <1>4, <1>5, <1>6

\* The Directions of a row or an event.
LEMMA IdsAre ==
    ASSUME Typed
    PROVE  \A d \in Ids(directions) : d = None <=> d \notin DOMAIN directions
<1>1. PICK S : directions \in Seq(S)
  BY DEF Typed
<1>2. DOMAIN directions \subseteq Nat
  BY <1>1
<1> QED BY <1>2, JournalAssumption DEF Ids

\* A week's minutes of an Area, whether the Area is in the draft or not.
LEMMA AreaMinutesAre ==
    ASSUME Typed, Logged, NEW w, NEW a
    PROVE  (LET m == by_area(events, w) IN IF a \in DOMAIN m THEN m[a] ELSE 0) = AreaMinutes(w, a)
<1> DEFINE seqs == CompletedIn(events, weeks[w])
<1> DEFINE key(i) == IF events[i].payload.direction \in DOMAIN directions
                     THEN directions[events[i].payload.direction] ELSE None
<1> DEFINE m == [k \in {key(i) : i \in seqs} |-> MinutesAt(events, {i \in seqs : key(i) = k})]
<1>1. by_area(events, w) = m
  BY SnapshotIsDirections DEF by_area, MinutesBy
<1>2. \A i \in seqs : key(i) = AreaOf(directions, events[i].payload.direction)
  <2> SUFFICES ASSUME NEW i \in seqs
               PROVE  key(i) = AreaOf(directions, events[i].payload.direction)
    OBVIOUS
  <2>1. i \in DOMAIN events /\ Completed(events[i])
    BY DEF CompletedIn
  <2>2. events[i].payload.direction \in Ids(directions)
    BY <2>1 DEF Logged
  <2> QED BY <2>2, IdsAre DEF AreaOf
<1>3. {i \in seqs : key(i) = a} = AreaSeqs(w, a)
  BY <1>2 DEF AreaSeqs
<1>4. CASE a \in {key(i) : i \in seqs}
  <2>1. a \in DOMAIN m /\ m[a] = MinutesAt(events, {i \in seqs : key(i) = a})
    BY <1>4
  <2> HIDE DEF m, key, seqs
  <2> QED BY <1>1, <1>3, <2>1 DEF AreaMinutes
<1>5. CASE a \notin {key(i) : i \in seqs}
  <2>1. a \notin DOMAIN m
    BY <1>5
  <2>2. {i \in seqs : key(i) = a} = {}
    BY <1>5
  <2>3. MinutesAt(events, {}) = 0
    BY SumNone DEF MinutesAt
  <2> HIDE DEF m, key, seqs
  <2> QED BY <1>1, <1>3, <2>1, <2>2, <2>3 DEF AreaMinutes
<1> QED BY <1>4, <1>5

AreasHold ==
    \A a \in world.areas :
        BlockMinutes(blocks, AreaBlocks(a)) = SumFunction([w \in Weeks |-> AreaMinutes(w, a)])
WeeksHold == \A w \in Weeks : MinutesAt(events, WeekSeqs(w)) = BlockMinutes(blocks, WeekBlocks(w))

\* The account of the Areas, in sets of positions.
LEMMA AreasAre ==
    ASSUME Typed, Logged
    PROVE  AreasAgree <=> AreasHold
<1> SUFFICES ASSUME NEW a
             PROVE  /\ CompletedOf(LAMBDA b : a = IF b.direction = None THEN None ELSE directions[b.direction])
                       = BlockMinutes(blocks, AreaBlocks(a))
                    /\ SumFunction([w \in Weeks |-> LET m == by_area(events, w)
                                                    IN  IF a \in DOMAIN m THEN m[a] ELSE 0])
                       = SumFunction([w \in Weeks |-> AreaMinutes(w, a)])
  BY DEF AreasAgree, AreasHold
<1>1. CompletedOf(LAMBDA b : a = IF b.direction = None THEN None ELSE directions[b.direction])
      = BlockMinutes(blocks, AreaBlocks(a))
  BY DEF CompletedOf, BlockMinutes, AreaBlocks, AreaOf
<1>2. [w \in Weeks |-> LET m == by_area(events, w) IN IF a \in DOMAIN m THEN m[a] ELSE 0]
      = [w \in Weeks |-> AreaMinutes(w, a)]
  BY AreaMinutesAre
<1> QED BY <1>1, <1>2

\* The account of the weeks, in sets of positions.
LEMMA WeeksAre == WeeksAgree <=> WeeksHold
BY DEF WeeksAgree, WeeksHold, week_attention, actual_min, CompletedOf, BlockMinutes, WeekBlocks,
       WeekSeqs
-----------------------------------------------------------------------------
(* Weeks *)

\* Mondays are seven days apart.
LEMMA MondayIs ==
    ASSUME NEW d \in Int
    PROVE  /\ Monday(d) \in Int /\ Monday(d) = 7 * ((d + 3) \div 7) - 3
           /\ Monday(d) <= d /\ d < Monday(d) + 7
BY DEF Monday, iso_weekday

\* The Monday of a day's week is every day's of that week.
LEMMA SameMonday ==
    ASSUME NEW c \in Int, NEW d \in Int, Monday(c) <= d, d < Monday(c) + 7
    PROVE  Monday(d) = Monday(c)
<1>1. PICK p \in Int : p = (c + 3) \div 7
  OBVIOUS
<1>2. PICK q \in Int : q = (d + 3) \div 7
  OBVIOUS
<1>3. Monday(c) = 7 * p - 3 /\ Monday(d) = 7 * q - 3 /\ Monday(d) <= d /\ d < Monday(d) + 7
  BY <1>1, <1>2, MondayIs
<1>4. 7 * p - 3 <= d /\ d < 7 * p - 3 + 7 /\ 7 * q - 3 <= d /\ d < 7 * q - 3 + 7
  BY <1>3
<1>5. p = q
  BY <1>4
<1> QED BY <1>3, <1>5

\* The year of a day is a number.
LEMMA YearIs ==
    ASSUME NEW d \in Int
    PROVE  civil_from_days(d)[1] \in Int
BY DEF civil_from_days

\* The first Monday of a year's weeks.
LEMMA WeekOneIs ==
    ASSUME NEW y \in Int
    PROVE  days_from_civil(<<y, 1, 4>>) \in Int
BY DEF days_from_civil

\* The bounds that a week's label gives back are the Monday of its days and the
\* next one.
LEMMA BoundsAre ==
    ASSUME NEW d \in Int
    PROVE  /\ iso_week_of_day(d) \in Int \X Int
           /\ iso_week_bounds(iso_week_of_day(d)) = [start |-> Monday(d), end |-> Monday(d) + 7]
<1>1. PICK q \in Int : q = (d + 3) \div 7
  OBVIOUS
<1>2. Monday(d) = 7 * q - 3 /\ Monday(d) \in Int
  BY <1>1, MondayIs
<1>3. PICK y \in Int : y = civil_from_days(Monday(d) + 3)[1]
  BY <1>2, YearIs
<1>4. PICK c \in Int : c = days_from_civil(<<y, 1, 4>>)
  BY WeekOneIs
<1>5. PICK p \in Int : p = (c + 3) \div 7
  OBVIOUS
<1>6. week1_monday(y) = 7 * p - 3
  BY <1>4, <1>5, MondayIs DEF week1_monday
<1>7. (7 * q - 3 - (7 * p - 3)) \div 7 = q - p
  OBVIOUS
<1>8. iso_week_of_day(d) = <<y, (q - p) + 1>>
  BY <1>2, <1>3, <1>6, <1>7 DEF iso_week_of_day
<1>9. 7 * p - 3 + ((q - p) + 1 - 1) * 7 = 7 * q - 3
  OBVIOUS
<1>10. iso_week_bounds(<<y, (q - p) + 1>>) = [start |-> 7 * q - 3, end |-> 7 * q - 3 + 7]
  BY <1>6, <1>9 DEF iso_week_bounds
<1> QED BY <1>2, <1>8, <1>10

\* The days of a world are numbers.
LEMMA DayIs ==
    ASSUME Typed, NEW at \in 0..world.last
    PROVE  day_of(at) \in Int
<1>1. world.start \in Int /\ world.per_day \in Nat \ {0} /\ world.last \in Nat
  BY JournalAssumption DEF Typed
<1>2. at \in Nat
  BY <1>1
<1>3. at \div world.per_day \in Int
  BY <1>1, <1>2
<1> QED BY <1>1, <1>3 DEF day_of

\* Every day of a world is in one of its weeks, and in that one alone.
LEMMA OneWeek ==
    ASSUME Typed, NEW at \in 0..world.last
    PROVE  /\ iso_week_of(at) \in Weeks
           /\ \A w \in Weeks : (weeks[w].start <= day_of(at) /\ day_of(at) < weeks[w].end)
                               <=> w = iso_week_of(at)
<1>1. day_of(at) \in Int /\ iso_week_of(at) \in Weeks
  BY DayIs DEF Typed, Weeks
<1> SUFFICES ASSUME NEW w \in Weeks
             PROVE  (weeks[w].start <= day_of(at) /\ day_of(at) < weeks[w].end)
                    <=> w = iso_week_of(at)
  BY <1>1
<1>2. PICK x \in 0..world.last : w = iso_week_of(x) /\ weeks[w] = iso_week_bounds(w)
  BY DEF Typed, Weeks
<1>3. PICK c \in Int : c = day_of(x)
  BY DayIs
<1>4. PICK d \in Int : d = day_of(at)
  BY <1>1
<1>5. w = iso_week_of_day(c) /\ iso_week_of(at) = iso_week_of_day(d)
  BY <1>2, <1>3, <1>4 DEF iso_week_of
<1>6. weeks[w].start = Monday(c) /\ weeks[w].end = Monday(c) + 7
  <2>1. iso_week_bounds(iso_week_of_day(c)) = [start |-> Monday(c), end |-> Monday(c) + 7]
    BY BoundsAre
  <2>2. weeks[w] = [start |-> Monday(c), end |-> Monday(c) + 7]
    BY <1>2, <1>5, <2>1
  <2> QED BY <2>2
<1>7. Monday(c) <= d /\ d < Monday(c) + 7 => iso_week_of_day(d) = iso_week_of_day(c)
  BY SameMonday DEF iso_week_of_day
<1>8. iso_week_of_day(d) = iso_week_of_day(c) => Monday(c) <= d /\ d < Monday(c) + 7
  <2> HAVE iso_week_of_day(d) = iso_week_of_day(c)
  <2>1. Monday(d) = Monday(c)
    <3>1. [start |-> Monday(d), end |-> Monday(d) + 7] = [start |-> Monday(c), end |-> Monday(c) + 7]
      BY BoundsAre
    <3> QED BY <3>1
  <2> QED BY <2>1, MondayIs
<1> QED BY <1>4, <1>5, <1>6, <1>7, <1>8

\* The weeks are finitely many, and labels.
LEMMA WeeksAreFinite ==
    ASSUME Typed
    PROVE  IsFiniteSet(Weeks) /\ None \notin Weeks
<1> DEFINE f == [at \in 0..world.last |-> iso_week_of(at)]
<1>1. world.last \in Nat
  BY JournalAssumption DEF Typed
<1>2. IsFiniteSet(0..world.last)
  BY <1>1, FS_Interval
<1>3. f \in Surjection(0..world.last, Weeks)
  BY DEF Typed, Weeks, Surjection
<1>4. IsFiniteSet(Weeks)
  BY <1>2, <1>3, FS_Surjection
<1>5. \A w \in Weeks : w \in Int \X Int
  <2> SUFFICES ASSUME NEW at \in 0..world.last PROVE iso_week_of(at) \in Int \X Int
    BY DEF Typed, Weeks
  <2> QED BY DayIs, BoundsAre DEF iso_week_of
<1> QED BY <1>4, <1>5, JournalAssumption
-----------------------------------------------------------------------------
(* Sums of minutes *)

\* The minutes of completions depend on those events alone.
LEMMA MinutesSame ==
    ASSUME NEW es, NEW fs, NEW seqs, \A i \in seqs : fs[i] = es[i]
    PROVE  MinutesAt(fs, seqs) = MinutesAt(es, seqs)
<1>1. [i \in seqs |-> fs[i].payload.minutes] = [i \in seqs |-> es[i].payload.minutes]
  OBVIOUS
<1> QED BY <1>1 DEF MinutesAt

\* One completion more.
LEMMA MinutesMore ==
    ASSUME NEW es, NEW fs, NEW seqs, IsFiniteSet(seqs), NEW n, n \notin seqs,
           \A i \in seqs : fs[i] = es[i] /\ es[i].payload.minutes \in Nat,
           fs[n].payload.minutes \in Nat
    PROVE  MinutesAt(fs, seqs \cup {n}) = MinutesAt(es, seqs) + fs[n].payload.minutes
<1> DEFINE f == [i \in seqs |-> es[i].payload.minutes]
<1> DEFINE h == [i \in seqs \cup {n} |-> fs[i].payload.minutes]
<1>1. f \in [seqs -> Nat] /\ h \in [seqs \cup {n} -> Nat]
  OBVIOUS
<1>2. (\A i \in seqs : h[i] = f[i]) /\ h[n] = fs[n].payload.minutes
  OBVIOUS
<1>3. MinutesAt(fs, seqs \cup {n}) = SumFunction(h) /\ MinutesAt(es, seqs) = SumFunction(f)
  BY DEF MinutesAt
<1> HIDE DEF f, h
<1>5. \A x \in seqs : h[x] = f[x]
  BY <1>2
<1>4. SumFunction(h) = SumFunction(f) + h[n]
  BY ONLY <1>1, <1>5, IsFiniteSet(seqs), n \notin seqs, SumMore
<1> QED BY <1>2, <1>3, <1>4

\* The minutes of completions are a number.
LEMMA MinutesNat ==
    ASSUME NEW es, NEW seqs, IsFiniteSet(seqs), \A i \in seqs : es[i].payload.minutes \in Nat
    PROVE  MinutesAt(es, seqs) \in Nat
<1>1. [i \in seqs |-> es[i].payload.minutes] \in [seqs -> Nat]
  OBVIOUS
<1> QED BY <1>1, SumNat DEF MinutesAt

\* The minutes of blocks depend on those rows alone.
LEMMA BlocksSame ==
    ASSUME NEW bs, NEW cs, NEW B, \A b \in B : cs[b].minutes = bs[b].minutes
    PROVE  BlockMinutes(cs, B) = BlockMinutes(bs, B)
<1>1. [b \in B |-> cs[b].minutes] = [b \in B |-> bs[b].minutes]
  OBVIOUS
<1> QED BY <1>1 DEF BlockMinutes

\* One block more.
LEMMA BlocksMore ==
    ASSUME NEW bs, NEW cs, NEW B, IsFiniteSet(B), NEW n, n \notin B,
           \A b \in B : cs[b].minutes = bs[b].minutes /\ bs[b].minutes \in Nat,
           cs[n].minutes \in Nat
    PROVE  BlockMinutes(cs, B \cup {n}) = BlockMinutes(bs, B) + cs[n].minutes
<1> DEFINE f == [b \in B |-> bs[b].minutes]
<1> DEFINE h == [b \in B \cup {n} |-> cs[b].minutes]
<1>1. f \in [B -> Nat] /\ h \in [B \cup {n} -> Nat]
  OBVIOUS
<1>2. (\A b \in B : h[b] = f[b]) /\ h[n] = cs[n].minutes
  OBVIOUS
<1>3. BlockMinutes(cs, B \cup {n}) = SumFunction(h) /\ BlockMinutes(bs, B) = SumFunction(f)
  BY DEF BlockMinutes
<1> HIDE DEF f, h
<1>5. \A x \in B : h[x] = f[x]
  BY <1>2
<1>4. SumFunction(h) = SumFunction(f) + h[n]
  BY ONLY <1>1, <1>5, IsFiniteSet(B), n \notin B, SumMore
<1> QED BY <1>2, <1>3, <1>4

\* The tables are finite.
LEMMA FiniteTables ==
    ASSUME Typed
    PROVE  /\ \A U \in SUBSET DOMAIN events : IsFiniteSet(U)
           /\ \A U \in SUBSET DOMAIN blocks : IsFiniteSet(U)
<1>1. PICK S : events \in Seq(S)
  BY DEF Typed
<1>2. DOMAIN events = 1..Len(events) /\ Len(events) \in Nat
  BY <1>1
<1>3. DOMAIN blocks = 1..Len(blocks) /\ Len(blocks) \in Nat
  BY DEF Typed
<1>4. IsFiniteSet(DOMAIN events) /\ IsFiniteSet(DOMAIN blocks)
  BY <1>2, <1>3, FS_Interval
<1> QED BY <1>4, FS_Subset

\* The rows of blocks point at rows there are.
LEMMA BlockRows ==
    ASSUME Typed
    PROVE  \A b \in DOMAIN blocks :
              /\ blocks[b].direction \in Ids(directions)
              /\ blocks[b].task = None \/ blocks[b].task \in DOMAIN tasks
              /\ blocks[b].minutes \in Nat
              /\ blocks[b].status \in ScheduleBlockStatus
<1> SUFFICES ASSUME NEW b \in DOMAIN blocks
             PROVE  /\ blocks[b].direction \in Ids(directions)
                    /\ blocks[b].task \in Ids(tasks)
                    /\ blocks[b].minutes \in Nat
                    /\ blocks[b].status \in ScheduleBlockStatus
  BY DEF Ids
<1>1. blocks[b] \in Block
  BY DEF Typed
<1> QED BY <1>1 DEF Block

\* A step that completes nothing: what it adds to the log is no completion, the
\* completed blocks stay as they are, no Direction changes its Area and no task
\* its week.
Quiet ==
    /\ UNCHANGED scope
    /\ DOMAIN events \subseteq DOMAIN events'
    /\ \A i \in DOMAIN events : events'[i] = events[i]
    /\ \A i \in DOMAIN events' \ DOMAIN events : ~Completed(events'[i])
    /\ \A b \in DOMAIN blocks : b \in DOMAIN blocks' /\ blocks'[b].minutes = blocks[b].minutes
                                /\ blocks'[b].direction = blocks[b].direction
                                /\ blocks'[b].task = blocks[b].task
    /\ \A b \in DOMAIN blocks' : blocks'[b].status = "completed"
                                 => b \in DOMAIN blocks /\ blocks[b].status = "completed"
    /\ \A b \in DOMAIN blocks : blocks[b].status = "completed" => blocks'[b].status = "completed"
    /\ \A d \in Ids(directions) : AreaOf(directions', d) = AreaOf(directions, d)
    /\ \A t \in DOMAIN tasks : tasks'[t].week = tasks[t].week

\* Completions of a week, by the label of their day.
LEMMA CompletedInIs ==
    ASSUME Typed, Logged, NEW w \in Weeks
    PROVE  CompletedIn(events, weeks[w])
           = {i \in DOMAIN events : Completed(events[i]) /\ iso_week_of(events[i].at) = w}
<1> SUFFICES ASSUME NEW i \in DOMAIN events
             PROVE  InWeek(events[i], weeks[w]) <=> iso_week_of(events[i].at) = w
  BY DEF CompletedIn
<1>1. events[i].at \in 0..world.last
  BY DEF Logged
<1> QED BY <1>1, OneWeek DEF InWeek

\* Such a step keeps the account of the weeks.
LEMMA QuietKeepsWeeks ==
    ASSUME Typed, Logged, WeeksHold, Quiet
    PROVE  WeeksHold'
<1> SUFFICES ASSUME NEW w \in Weeks
             PROVE  MinutesAt(events', WeekSeqs(w)') = BlockMinutes(blocks', WeekBlocks(w)')
  BY DEF WeeksHold, Quiet, scope, Weeks
<1>1. WeekSeqs(w)' = WeekSeqs(w)
  BY DEF WeekSeqs, Quiet
<1>2. WeekBlocks(w)' = WeekBlocks(w)
  <2>1. \A b \in DOMAIN blocks : blocks[b].task = None \/ blocks[b].task \in DOMAIN tasks
    BY BlockRows
  <2> QED BY <2>1 DEF WeekBlocks, Quiet
<1>3. MinutesAt(events', WeekSeqs(w)) = MinutesAt(events, WeekSeqs(w))
  BY MinutesSame DEF WeekSeqs, Quiet
<1>4. BlockMinutes(blocks', WeekBlocks(w)) = BlockMinutes(blocks, WeekBlocks(w))
  BY BlocksSame DEF WeekBlocks, Quiet
<1> QED BY <1>1, <1>2, <1>3, <1>4 DEF WeeksHold

\* Such a step keeps the account of the Areas.
LEMMA QuietKeepsAreas ==
    ASSUME Typed, Logged, AreasHold, Quiet
    PROVE  AreasHold'
<1> SUFFICES ASSUME NEW a \in world.areas
             PROVE  BlockMinutes(blocks', AreaBlocks(a)')
                    = SumFunction([w \in Weeks |-> AreaMinutes(w, a)'])
  BY DEF AreasHold, Quiet, scope, Weeks
<1>1. ASSUME NEW w \in Weeks
      PROVE  AreaMinutes(w, a)' = AreaMinutes(w, a)
  <2>1. CompletedIn(events, weeks[w])' = CompletedIn(events, weeks[w])
    BY DEF CompletedIn, Quiet, scope, InWeek, day_of
  <2>2. \A i \in CompletedIn(events, weeks[w]) :
           i \in DOMAIN events /\ events'[i] = events[i]
           /\ events[i].payload.direction \in Ids(directions)
    BY DEF CompletedIn, Quiet, Logged
  <2>3. AreaSeqs(w, a)' = AreaSeqs(w, a)
    BY <2>1, <2>2 DEF AreaSeqs, Quiet
  <2>4. MinutesAt(events', AreaSeqs(w, a)) = MinutesAt(events, AreaSeqs(w, a))
    BY <2>2, MinutesSame DEF AreaSeqs
  <2> QED BY <2>3, <2>4 DEF AreaMinutes
<1>2. AreaBlocks(a)' = AreaBlocks(a)
  <2>1. \A b \in DOMAIN blocks : blocks[b].direction \in Ids(directions)
    BY BlockRows
  <2> QED BY <2>1 DEF AreaBlocks, Quiet
<1>3. BlockMinutes(blocks', AreaBlocks(a)) = BlockMinutes(blocks, AreaBlocks(a))
  BY BlocksSame DEF AreaBlocks, Quiet
<1>4. [w \in Weeks |-> AreaMinutes(w, a)'] = [w \in Weeks |-> AreaMinutes(w, a)]
  BY <1>1
<1> QED BY <1>2, <1>3, <1>4 DEF AreasHold

\* A step that completes block b, and says so in e.
Completes(b, e) ==
    /\ UNCHANGED <<directions, tasks, scope>>
    /\ Adds(e)
    /\ Completed(e)
    /\ e.at = now
    /\ e.payload.direction = blocks[b].direction
    /\ e.payload.minutes = blocks[b].minutes
    /\ e.payload.week = IF blocks[b].task = None THEN None ELSE tasks[blocks[b].task].week
    /\ b \in DOMAIN blocks
    /\ blocks[b].status # "completed"
    /\ DOMAIN blocks' = DOMAIN blocks
    /\ blocks'[b].status = "completed"
    /\ \A c \in DOMAIN blocks :
          /\ blocks'[c].minutes = blocks[c].minutes
          /\ blocks'[c].direction = blocks[c].direction
          /\ blocks'[c].task = blocks[c].task
          /\ c # b => blocks'[c].status = blocks[c].status

\* It adds the same minutes to both accounts of a week.
LEMMA CompletesKeepsWeeks ==
    ASSUME Typed, Logged, WeeksHold, NEW b, NEW e, Completes(b, e)
    PROVE  WeeksHold'
<1> SUFFICES ASSUME NEW w \in Weeks
             PROVE  MinutesAt(events', WeekSeqs(w)') = BlockMinutes(blocks', WeekBlocks(w)')
  BY DEF WeeksHold, Completes, scope, Weeks
<1> DEFINE n == Len(events) + 1
<1> DEFINE here == blocks[b].task # None /\ tasks[blocks[b].task].week = w
<1>1. MinutesAt(events, WeekSeqs(w)) = BlockMinutes(blocks, WeekBlocks(w))
  BY DEF WeeksHold
<1>2. e.payload.week = w <=> here
  BY WeeksAreFinite DEF Completes
<1>3. WeekSeqs(w)' = IF here THEN WeekSeqs(w) \cup {n} ELSE WeekSeqs(w)
  BY <1>2 DEF WeekSeqs, Completes, Adds
<1>4. WeekBlocks(w)' = IF here THEN WeekBlocks(w) \cup {b} ELSE WeekBlocks(w)
  BY DEF WeekBlocks, Completes
<1>5. \A i \in WeekSeqs(w) : events'[i] = events[i] /\ events[i].payload.minutes \in Nat
  BY DEF WeekSeqs, Logged, Completes, Adds
<1>6. \A c \in WeekBlocks(w) : blocks'[c].minutes = blocks[c].minutes /\ blocks[c].minutes \in Nat
  BY BlockRows DEF WeekBlocks, Completes
<1>7. CASE ~here
  <2>1. MinutesAt(events', WeekSeqs(w)) = MinutesAt(events, WeekSeqs(w))
    BY <1>5, MinutesSame
  <2>2. BlockMinutes(blocks', WeekBlocks(w)) = BlockMinutes(blocks, WeekBlocks(w))
    BY <1>6, BlocksSame
  <2> QED BY <1>1, <1>3, <1>4, <1>7, <2>1, <2>2
<1>8. CASE here
  <2>1. IsFiniteSet(WeekSeqs(w)) /\ IsFiniteSet(WeekBlocks(w))
    BY FiniteTables DEF WeekSeqs, WeekBlocks
  <2>2. n \notin WeekSeqs(w) /\ b \notin WeekBlocks(w)
    BY DEF WeekSeqs, WeekBlocks, Completes, Adds
  <2>3. blocks[b].minutes \in Nat /\ events'[n].payload.minutes = blocks[b].minutes
        /\ blocks'[b].minutes = blocks[b].minutes
    BY BlockRows DEF Completes, Adds
  <2> HIDE DEF n
  <2>4. MinutesAt(events', WeekSeqs(w) \cup {n}) = MinutesAt(events, WeekSeqs(w)) + events'[n].payload.minutes
    BY <1>5, <2>1, <2>2, <2>3, MinutesMore
  <2>5. BlockMinutes(blocks', WeekBlocks(w) \cup {b}) = BlockMinutes(blocks, WeekBlocks(w)) + blocks'[b].minutes
    BY <1>6, <2>1, <2>2, <2>3, BlocksMore
  <2> QED BY <1>1, <1>3, <1>4, <1>8, <2>3, <2>4, <2>5
<1> QED BY <1>7, <1>8

\* It adds the same minutes to both accounts of an Area: the block's, and those
\* of the one week the event falls into.
LEMMA CompletesKeepsAreas ==
    ASSUME Typed, Logged, AreasHold, NEW b, NEW e, Completes(b, e)
    PROVE  AreasHold'
<1> SUFFICES ASSUME NEW a \in world.areas
             PROVE  BlockMinutes(blocks', AreaBlocks(a)')
                    = SumFunction([w \in Weeks |-> AreaMinutes(w, a)'])
  BY DEF AreasHold, Completes, scope, Weeks
<1> DEFINE n == Len(events) + 1
<1> DEFINE here == AreaOf(directions, blocks[b].direction) = a
<1> DEFINE old == [w \in Weeks |-> AreaMinutes(w, a)]
<1> DEFINE new == [w \in Weeks |-> AreaMinutes(w, a)']
<1>0. BlockMinutes(blocks, AreaBlocks(a)) = SumFunction(old)
  BY DEF AreasHold
<1>1. PICK v \in Weeks : v = iso_week_of(now)
  BY OneWeek DEF Typed
<1>2. \A w \in Weeks : InWeek(e, weeks[w]) <=> w = v
  BY <1>1, OneWeek DEF InWeek, Completes, Typed
<1>3. blocks[b].minutes \in Nat /\ events'[n].payload.minutes = blocks[b].minutes
      /\ blocks'[b].minutes = blocks[b].minutes
  BY BlockRows DEF Completes, Adds
<1>4. ASSUME NEW w \in Weeks
      PROVE  /\ IsFiniteSet(AreaSeqs(w, a)) /\ n \notin AreaSeqs(w, a)
             /\ \A i \in AreaSeqs(w, a) : events'[i] = events[i] /\ events[i].payload.minutes \in Nat
             /\ AreaSeqs(w, a)' = IF here /\ w = v THEN AreaSeqs(w, a) \cup {n} ELSE AreaSeqs(w, a)
  <2>1. AreaSeqs(w, a) \subseteq DOMAIN events
    BY DEF AreaSeqs, CompletedIn
  <2>2. IsFiniteSet(AreaSeqs(w, a)) /\ n \notin AreaSeqs(w, a)
    BY <2>1, FiniteTables DEF Completes, Adds
  <2>3. \A i \in AreaSeqs(w, a) : events'[i] = events[i] /\ events[i].payload.minutes \in Nat
    BY DEF AreaSeqs, CompletedIn, Logged, Completes, Adds
  <2>4. CompletedIn(events, weeks[w])'
        = IF w = v THEN CompletedIn(events, weeks[w]) \cup {n} ELSE CompletedIn(events, weeks[w])
    <3>1. DOMAIN events' = DOMAIN events \cup {n} /\ events'[n] = e /\ Completed(e)
          /\ \A i \in DOMAIN events : events'[i] = events[i]
      BY DEF Completes, Adds
    <3>2. weeks' = weeks /\ world' = world
      BY DEF Completes, scope
    <3>3. CompletedIn(events, weeks[w])'
          = {i \in DOMAIN events' : Completed(events'[i]) /\ InWeek(events'[i], weeks[w])}
      BY <3>2 DEF CompletedIn, InWeek, day_of
    <3> HIDE DEF n
    <3> QED BY <1>2, <3>1, <3>3 DEF CompletedIn
  <2>5. \A i \in CompletedIn(events, weeks[w]) : events'[i] = events[i]
    BY DEF CompletedIn, Completes, Adds
  <2>6. AreaOf(directions', events'[n].payload.direction) = a <=> here
    BY DEF Completes, Adds
  <2>7. AreaSeqs(w, a)' = {i \in CompletedIn(events, weeks[w])' :
                             AreaOf(directions', events'[i].payload.direction) = a}
    BY DEF AreaSeqs
  <2>8. directions' = directions
    BY DEF Completes
  <2> HIDE DEF n, here
  <2>9. AreaSeqs(w, a)' = IF here /\ w = v THEN AreaSeqs(w, a) \cup {n} ELSE AreaSeqs(w, a)
    BY <2>4, <2>5, <2>6, <2>7, <2>8 DEF AreaSeqs
  <2> QED BY <2>2, <2>3, <2>9
<1>5. AreaBlocks(a)' = IF here THEN AreaBlocks(a) \cup {b} ELSE AreaBlocks(a)
  BY DEF AreaBlocks, Completes
<1>6. \A c \in AreaBlocks(a) : blocks'[c].minutes = blocks[c].minutes /\ blocks[c].minutes \in Nat
  BY BlockRows DEF AreaBlocks, Completes
<1>7. IsFiniteSet(AreaBlocks(a)) /\ b \notin AreaBlocks(a)
  BY FiniteTables DEF AreaBlocks, Completes
<1> HIDE DEF n, here
<1>8. \A w \in Weeks : ~(here /\ w = v) => AreaMinutes(w, a)' = AreaMinutes(w, a)
  BY <1>4, MinutesSame DEF AreaMinutes
<1>9. \A w \in Weeks : AreaMinutes(w, a) \in Nat
  BY <1>4, MinutesNat DEF AreaMinutes
<1>10. CASE ~here
  <2>1. new = old
    BY <1>8, <1>10
  <2>2. BlockMinutes(blocks', AreaBlocks(a)) = BlockMinutes(blocks, AreaBlocks(a))
    BY <1>6, BlocksSame
  <2> QED BY <1>0, <1>5, <1>10, <2>1, <2>2
<1>11. CASE here
  <2>1. MinutesAt(events', AreaSeqs(v, a) \cup {n}) = MinutesAt(events, AreaSeqs(v, a)) + events'[n].payload.minutes
    BY <1>3, <1>4, MinutesMore
  <2>2. AreaMinutes(v, a)' = AreaMinutes(v, a) + blocks[b].minutes
    BY <1>3, <1>4, <1>11, <2>1 DEF AreaMinutes
  <2>3. AreaMinutes(v, a)' \in Nat
    BY <1>3, <1>9, <2>2
  <2>4. old \in [Weeks -> Nat] /\ new \in [Weeks -> Nat]
    BY <1>8, <1>9, <2>3
  <2>5. /\ \A w \in Weeks : w # v => new[w] = old[w]
        /\ new[v] = AreaMinutes(v, a)' /\ old[v] = AreaMinutes(v, a)
    BY <1>8
  <2>6. BlockMinutes(blocks', AreaBlocks(a) \cup {b}) = BlockMinutes(blocks, AreaBlocks(a)) + blocks'[b].minutes
    BY <1>3, <1>6, <1>7, BlocksMore
  <2> HIDE DEF old, new
  <2>7. IsFiniteSet(Weeks)
    BY WeeksAreFinite
  <2>8. SumFunction(new) + old[v] = SumFunction(old) + new[v]
    BY ONLY <2>4, <2>5, <2>7, v \in Weeks, SumChange
  <2>9. SumFunction(old) \in Nat /\ SumFunction(new) \in Nat
    BY <2>4, <2>7, SumNat
  <2>10. SumFunction(new) = SumFunction(old) + blocks[b].minutes
    <3>1. PICK p \in Nat, q \in Nat, x \in Nat, m \in Nat :
             p = SumFunction(old) /\ q = SumFunction(new) /\ x = old[v] /\ m = blocks[b].minutes
      BY <1>1, <1>3, <2>4, <2>9
    <3>2. q + x = p + (x + m)
      BY <2>2, <2>5, <2>8, <3>1
    <3>3. q = p + m
      BY <3>2
    <3> QED BY <3>1, <3>3
  <2> QED BY <1>0, <1>3, <1>5, <1>11, <2>6, <2>10 DEF new
<1> QED BY <1>10, <1>11
-----------------------------------------------------------------------------
(* The materialised days *)

\* The fold of the view, as one of the fold lemmas' form.
LEMMA ReplayIs ==
    ASSUME NEW view, NEW es
    PROVE  Fold(view, es) = Replay!Folded(es, view, world)
BY DEF Fold, AddRow, Bucket, day_of, RowStep, FoldLeft, MapThenFoldSet, Max, Replay!Folded,
       Replay!FoldLeft, Replay!MapThenFoldSet, Replay!Max

\* The view is the replay, in the next state.
LEMMA DaysAgreeNext ==
    ASSUME world' = world
    PROVE  DaysAgree' <=> daily' = Replay!Folded(SubSeq(events', 1, watermark'), <<>>, world)
<1>1. Fold(<<>>, SubSeq(events, 1, watermark))'
      = Replay!Folded(SubSeq(events', 1, watermark'), <<>>, world')
  BY DEF Fold, AddRow, Bucket, day_of, RowStep, FoldLeft, MapThenFoldSet, Max, Replay!Folded,
         Replay!FoldLeft, Replay!MapThenFoldSet, Replay!Max
<1> QED BY <1>1 DEF DaysAgree

\* New events wait behind the watermark.
LEMMA DaysKept ==
    ASSUME Typed, DaysAgree, world' = world, daily' = daily, watermark' = watermark, Grows
    PROVE  DaysAgree'
<1>1. PICK S : events \in Seq(S)
  BY DEF Typed
<1>2. PICK R : events' \in Seq(R)
  BY DEF Grows
<1>3. watermark \in Nat /\ watermark <= Len(events) /\ Len(events) <= Len(events')
  BY <1>1, <1>2 DEF Typed, Grows
<1>4. \A i \in 1..watermark : events'[i] = events[i]
  BY <1>1, <1>3 DEF Grows
<1>5. SubSeq(events', 1, watermark) = SubSeq(events, 1, watermark)
  BY <1>1, <1>2, <1>3, <1>4
<1> QED BY <1>5, DaysAgreeNext, ReplayIs DEF DaysAgree

\* An apply goes on where the last one stopped.
LEMMA DaysApplied ==
    ASSUME Typed, DaysAgree, attention_apply_new_events
    PROVE  DaysAgree'
<1>1. PICK S : events \in Seq(S)
  BY DEF Typed
<1>2. watermark \in Nat /\ watermark <= Len(events) /\ Len(events) \in Nat
  BY <1>1 DEF Typed
<1>3. daily = Replay!Folded(SubSeq(events, 1, watermark), <<>>, world)
  BY ReplayIs DEF DaysAgree
<1>4. daily' = Replay!Folded(SubSeq(events, watermark + 1, Len(events)), daily, world)
  BY ReplayIs DEF attention_apply_new_events, NotYetApplied
<1>5. daily' = Replay!Folded(SubSeq(events, 1, Len(events)), <<>>, world)
  BY <1>1, <1>2, <1>3, <1>4, Replay!FoldOn
<1>6. events' = events /\ watermark' = Len(events) /\ world' = world
  BY DEF attention_apply_new_events, scope
<1> QED BY <1>5, <1>6, DaysAgreeNext

\* A rebuild starts from nothing.
LEMMA DaysRebuilt ==
    ASSUME Typed, attention_rebuild
    PROVE  DaysAgree'
<1>1. PICK S : events \in Seq(S)
  BY DEF Typed
<1>2. SubSeq(events, 1, 0) = <<>>
  BY <1>1
<1>3. events' = events /\ watermark' = 0 /\ world' = world /\ daily' = <<>>
  BY DEF attention_rebuild, scope
<1>4. Replay!Folded(<<>>, <<>>, world) = <<>>
  BY Replay!FoldNil
<1> QED BY <1>2, <1>3, <1>4, DaysAgreeNext

-----------------------------------------------------------------------------
(* Steps that write nothing a replay of minutes or Directions reads *)

New == DOMAIN events' \ DOMAIN events

\* No event at all.
LEMMA NoneNew ==
    ASSUME Typed, events' = events
    PROVE  Grows /\ New = {}
BY DEF Typed, Grows, New

\* One event.
LEMMA OneNew ==
    ASSUME Typed, NEW e, events' = Append(events, e)
    PROVE  Grows /\ New = {Len(events) + 1} /\ events'[Len(events) + 1] = e
BY OneAdded DEF Adds, Grows, New

\* Two events.
LEMMA TwoNew ==
    ASSUME Typed, NEW e, NEW f, events' = Append(Append(events, e), f)
    PROVE  /\ Grows /\ New = {Len(events) + 1, Len(events) + 2}
           /\ events'[Len(events) + 1] = e /\ events'[Len(events) + 2] = f
<1>1. PICK S : events \in Seq(S)
  BY DEF Typed
<1>2. PICK s : s = Append(events, e)
  OBVIOUS
<1>3. /\ s \in Seq(S \cup {e}) /\ Len(s) = Len(events) + 1 /\ Len(events) \in Nat
      /\ DOMAIN s = DOMAIN events \cup {Len(events) + 1}
      /\ Len(events) + 1 \notin DOMAIN events
      /\ \A i \in DOMAIN events : s[i] = events[i]
      /\ s[Len(events) + 1] = e
  BY <1>1, <1>2, AppendIs
<1>4. events' = Append(s, f)
  BY <1>2
<1>5. /\ events' \in Seq((S \cup {e}) \cup {f})
      /\ DOMAIN events' = DOMAIN s \cup {Len(s) + 1}
      /\ Len(s) + 1 \notin DOMAIN s
      /\ \A i \in DOMAIN s : events'[i] = s[i]
      /\ events'[Len(s) + 1] = f
  BY <1>3, <1>4, AppendIs
<1>6. Len(s) + 1 = Len(events) + 2
  BY <1>3
<1> QED BY <1>3, <1>5, <1>6 DEF Grows, New

\* Grown tables have the types of the next state.
LEMMA TypedKept ==
    ASSUME Typed, UNCHANGED scope, now' \in 0..world.last, Grows,
           \E S : directions' \in Seq(S), DOMAIN directions \subseteq DOMAIN directions',
           tasks' \in Seq(Task'), blocks' \in Seq(Block'),
           watermark' = watermark
    PROVE  Typed'
<1>1. PICK S : events \in Seq(S)
  BY DEF Typed
<1>2. PICK R : events' \in Seq(R)
  BY DEF Grows
<1>3. Len(events) <= Len(events') /\ Len(events') \in Nat
  BY <1>1, <1>2 DEF Grows
<1>4. weeks' = weeks /\ world' = world
  BY DEF scope
<1>5. weeks' = [w \in {iso_week_of(at)' : at \in 0..world'.last} |-> iso_week_bounds(w)]
  BY <1>4 DEF Typed, iso_week_of, day_of
<1>6. watermark' \in 0..Len(events')
  BY <1>1, <1>3 DEF Typed
<1> QED BY <1>2, <1>4, <1>5, <1>6 DEF Typed

\* With the plan as it was, rows keep their types.
LEMMA PlanTyped ==
    ASSUME Typed, UNCHANGED <<plan, scope>>
    PROVE  /\ \E S : directions' \in Seq(S)
           /\ DOMAIN directions \subseteq DOMAIN directions'
           /\ tasks' \in Seq(Task') /\ blocks' \in Seq(Block')
BY DEF Typed, plan, scope, Task, Block, Weeks, Ids

\* The log keeps saying what its replays read.
LEMMA LoggedKept ==
    ASSUME Typed, Logged, UNCHANGED <<directions, scope>>, Grows,
           \A i \in New : /\ events'[i].at = now
                          /\ ~Completed(events'[i]) /\ ~DirectionCreated(events'[i])
    PROVE  Logged'
<1>1. \A i \in DOMAIN events' : i \in New \/ (i \in DOMAIN events /\ events'[i] = events[i])
  BY DEF New, Grows
<1>2. now \in 0..world.last /\ world' = world /\ directions' = directions
  BY DEF Typed, scope
<1>3. \A d \in DOMAIN directions :
         \E i \in DOMAIN events' : DirectionCreated(events'[i]) /\ events'[i].id = d
  BY DEF Logged, Grows
<1>4. ASSUME NEW i \in DOMAIN events'
      PROVE  /\ events'[i].at \in 0..world.last
             /\ Completed(events'[i]) => /\ events'[i].payload.direction \in Ids(directions)
                                         /\ events'[i].payload.minutes \in Nat
             /\ DirectionCreated(events'[i]) =>
                   /\ events'[i].id \in DOMAIN directions
                   /\ events'[i].payload.area = directions[events'[i].id]
  <2>1. CASE i \in New
    BY <1>2, <2>1
  <2>2. CASE i \in DOMAIN events /\ events'[i] = events[i]
    BY <2>2 DEF Logged
  <2> QED BY <1>1, <2>1, <2>2
<1> QED BY <1>2, <1>3, <1>4 DEF Logged, Ids

\* Fires and Routines are left alone.
LEMMA DeliveredKept ==
    ASSUME Typed, Delivered, UNCHANGED <<fires, routines>>, Grows,
           \A i \in New : ~Fired(events'[i]) /\ ~Retired(events'[i])
    PROVE  Delivered'
<1>1. \A i \in DOMAIN events' :
         Fired(events'[i]) \/ Retired(events'[i]) => i \in DOMAIN events /\ events'[i] = events[i]
  BY DEF New, Grows
<1>2. \A i \in DOMAIN events : i \in DOMAIN events' /\ events'[i] = events[i]
  BY DEF Grows
<1>3. \A f \in FireIds : fires'[f] # None =>
          \E i \in DOMAIN events' :
              /\ Fired(events'[i]) /\ events'[i].payload.fire = f /\ events'[i].id = fires'[f].routine
              /\ \A j \in DOMAIN events' : Fired(events'[j]) /\ events'[j].payload.fire = f => j = i
  <2> SUFFICES ASSUME NEW f \in FireIds, fires[f] # None
               PROVE  \E i \in DOMAIN events' :
                        /\ Fired(events'[i]) /\ events'[i].payload.fire = f
                        /\ events'[i].id = fires[f].routine
                        /\ \A j \in DOMAIN events' :
                              Fired(events'[j]) /\ events'[j].payload.fire = f => j = i
    OBVIOUS
  <2>1. PICK i \in DOMAIN events :
              /\ Fired(events[i]) /\ events[i].payload.fire = f /\ events[i].id = fires[f].routine
              /\ \A j \in DOMAIN events : Fired(events[j]) /\ events[j].payload.fire = f => j = i
    BY DEF Delivered
  <2>2. i \in DOMAIN events' /\ events'[i] = events[i]
    BY <1>2
  <2> QED BY <1>1, <2>1, <2>2
<1>4. /\ routines' \in [Routines -> RoutineStatus]
      /\ fires' \in [FireIds -> [routine : Routines, received_at : Nat] \cup {None}]
  BY DEF Delivered
<1>5. /\ \A i \in DOMAIN events' : Fired(events'[i]) =>
          events'[i].payload.fire \in FireIds /\ fires'[events'[i].payload.fire] # None
      /\ \A i \in DOMAIN events' : Retired(events'[i]) =>
          events'[i].id \in Routines /\ routines'[events'[i].id] = "retired"
      /\ \A i, j \in DOMAIN events' :
            Fired(events'[j]) /\ Retired(events'[i]) /\ events'[i].id = events'[j].id => j < i
  BY <1>1 DEF Delivered
<1> QED BY <1>3, <1>4, <1>5 DEF Delivered
-----------------------------------------------------------------------------
(* Every step keeps the ledger *)

LedgerInv == Typed /\ Logged /\ Delivered /\ DaysAgree /\ WeeksHold /\ AreasHold

Ledger == <<plan, routines, fires, daily, watermark, scope>>

\* A step of a Review, of a Proposal or of no table at all.
LEMMA AsideKeeps ==
    ASSUME LedgerInv, UNCHANGED Ledger, now' \in 0..world.last, Grows,
           \A i \in New : events'[i].at = now /\ events'[i].entity \in {"review", "proposal"}
    PROVE  LedgerInv'
<1>1. \A i \in New : /\ events'[i].at = now
                     /\ ~Completed(events'[i]) /\ ~DirectionCreated(events'[i])
                     /\ ~Fired(events'[i]) /\ ~Retired(events'[i])
  BY DEF Completed, DirectionCreated, Fired, Retired
<1>2. /\ UNCHANGED <<plan, scope>> /\ UNCHANGED <<directions, scope>> /\ UNCHANGED <<fires, routines>>
      /\ UNCHANGED <<directions, tasks, blocks>> /\ world' = world /\ daily' = daily
      /\ watermark' = watermark /\ UNCHANGED scope
  BY DEF Ledger, plan, scope
<1>3. Quiet
  BY <1>1, <1>2 DEF Quiet, Grows, New
<1>4. Typed'
  BY <1>2, PlanTyped, TypedKept DEF LedgerInv
<1>5. Logged'
  BY <1>1, <1>2, LoggedKept DEF LedgerInv
<1>6. Delivered'
  BY <1>1, <1>2, DeliveredKept DEF LedgerInv
<1>7. DaysAgree'
  BY <1>2, DaysKept DEF LedgerInv
<1>8. WeeksHold' /\ AreasHold'
  BY <1>3, QuietKeepsWeeks, QuietKeepsAreas DEF LedgerInv
<1> QED BY <1>4, <1>5, <1>6, <1>7, <1>8 DEF LedgerInv

\* A step that writes no table of the ledger.
LEMMA SilentKeeps ==
    ASSUME LedgerInv, UNCHANGED Ledger, UNCHANGED events, now' \in 0..world.last
    PROVE  LedgerInv'
BY NoneNew, AsideKeeps DEF LedgerInv

\* A step that writes one event of a Review or a Proposal.
LEMMA OneAsideKeeps ==
    ASSUME LedgerInv, UNCHANGED Ledger, now' = now, NEW id, NEW kind, NEW to, NEW payload,
           NEW entity \in {"review", "proposal"},
           events' = append_event(entity, id, kind, to, payload)
    PROVE  LedgerInv'
<1> DEFINE e == Event(entity, id, kind, to, payload)
<1>1. e.entity = entity /\ e.at = now
  BY EventIs
<1>2. events' = Append(events, e)
  BY DEF append_event
<1> HIDE DEF e
<1>3. Grows /\ New = {Len(events) + 1} /\ events'[Len(events) + 1] = e
  BY <1>2, OneNew DEF LedgerInv
<1>4. now' \in 0..world.last
  BY DEF LedgerInv, Typed
<1> QED BY <1>1, <1>3, <1>4, AsideKeeps

\* The actions of Reviews and of summarize, and the clock.
LEMMA TickKeeps ==
    ASSUME LedgerInv, Tick
    PROVE  LedgerInv'
<1>1. now' \in 0..world.last
  <2>1. now \in 0..world.last /\ world.last \in Nat /\ now < world.last /\ now' = now + 1
    BY JournalAssumption DEF LedgerInv, Typed, Tick
  <2> QED BY <2>1
<1>2. UNCHANGED Ledger /\ UNCHANGED events
  BY DEF Tick, Ledger, log
<1> QED BY <1>1, <1>2, SilentKeeps

\* Summarize, up to the Proposal.
LEMMA SummarizeKeeps ==
    ASSUME LedgerInv, Summarize
    PROVE  LedgerInv'
<1>0. now \in 0..world.last
  BY DEF LedgerInv, Typed
<1>1. CASE \/ \E w \in Weeks : trigger_summarize(w)
           \/ dedup_summarize \/ read_weekly_draft \/ run_ends
           \/ \E c \in world.chars : model_writes(c)
  <2>1. UNCHANGED Ledger /\ UNCHANGED events /\ now' = now
    BY <1>1 DEF trigger_summarize, dedup_summarize, read_weekly_draft, run_ends, model_writes,
                Ledger, log
  <2> QED BY <1>0, <2>1, SilentKeeps
<1>2. CASE run_summarize
  <2>1. UNCHANGED Ledger /\ now' = now
    BY <1>2 DEF run_summarize, Ledger
  <2>2. \/ events' = append_event("proposal", Len(drafts) + 1, "submitted", None, <<>>)
        \/ UNCHANGED events
    BY <1>2 DEF run_summarize
  <2> QED BY <1>0, <2>1, <2>2, SilentKeeps, OneAsideKeeps
<1> QED BY <1>1, <1>2 DEF Summarize

\* The user's Reviews and decisions.
LEMMA HumanKeeps ==
    ASSUME LedgerInv, Human
    PROVE  LedgerInv'
<1>1. ASSUME NEW w, create_review(w) PROVE LedgerInv'
  <2>1. UNCHANGED Ledger /\ now' = now /\ events' = append_event("review", w, "created", "draft", <<>>)
    BY <1>1 DEF create_review, Ledger
  <2> QED BY <2>1, OneAsideKeeps
<1>2. ASSUME NEW w, finalize_review(w) PROVE LedgerInv'
  <2>1. UNCHANGED Ledger /\ now' = now
        /\ events' = append_event("review", w, "finalized", "finalized", <<>>)
    BY <1>2 DEF finalize_review, Ledger
  <2> QED BY <2>1, OneAsideKeeps
<1>3. ASSUME NEW w, NEW body, update_review_body(w, body) PROVE LedgerInv'
  <2>1. UNCHANGED Ledger /\ now' = now /\ events' = append_event("review", w, "updated", None, <<>>)
    BY <1>3 DEF update_review_body, Ledger
  <2> QED BY <2>1, OneAsideKeeps
<1>4. ASSUME NEW i, apply_draft(i) PROVE LedgerInv'
  <2>1. UNCHANGED Ledger /\ now' = now
        /\ events' = append_event("review", drafts[i].week, "updated", None, <<>>)
    BY <1>4 DEF apply_draft, Ledger
  <2> QED BY <2>1, OneAsideKeeps
<1>5. ASSUME NEW i, reject_draft(i) PROVE LedgerInv'
  <2>1. UNCHANGED Ledger /\ now' = now
        /\ events' = append_event("proposal", i, "rejected", None, <<>>)
    BY <1>5 DEF reject_draft, Ledger
  <2> QED BY <2>1, OneAsideKeeps
<1> QED BY <1>1, <1>2, <1>3, <1>4, <1>5 DEF Human

\* An apply or a rebuild of the view touches nothing else.
LEMMA AttentionKeeps ==
    ASSUME LedgerInv, attention_apply_new_events \/ attention_rebuild
    PROVE  LedgerInv'
<1>1. UNCHANGED <<plan, scope>> /\ UNCHANGED <<directions, scope>> /\ UNCHANGED <<fires, routines>>
      /\ UNCHANGED <<directions, tasks, blocks>> /\ world' = world /\ UNCHANGED scope
      /\ UNCHANGED events /\ now' = now
  BY DEF attention_apply_new_events, attention_rebuild, plan, scope
<1>2. Grows /\ New = {}
  BY <1>1, NoneNew DEF LedgerInv
<1>3. Quiet
  BY <1>1, <1>2 DEF Quiet, Grows, New
<1>4. watermark' \in 0..Len(events')
  <2>1. PICK S : events \in Seq(S)
    BY DEF LedgerInv, Typed
  <2>2. Len(events) \in Nat /\ (watermark' = Len(events) \/ watermark' = 0)
    BY <2>1 DEF attention_apply_new_events, attention_rebuild
  <2> QED BY <1>1, <2>2
<1>5. Typed'
  <2>1. /\ \E S : directions' \in Seq(S)
        /\ tasks' \in Seq(Task') /\ blocks' \in Seq(Block')
    BY <1>1, PlanTyped DEF LedgerInv
  <2>2. weeks' = [w \in {iso_week_of(at)' : at \in 0..world'.last} |-> iso_week_bounds(w)]
    BY <1>1 DEF LedgerInv, Typed, iso_week_of, day_of, scope
  <2> QED BY <1>1, <1>2, <1>4, <2>1, <2>2 DEF LedgerInv, Typed, Grows
<1>6. Logged'
  BY <1>1, <1>2, LoggedKept DEF LedgerInv
<1>7. Delivered'
  BY <1>1, <1>2, DeliveredKept DEF LedgerInv
<1>8. DaysAgree'
  BY DaysApplied, DaysRebuilt DEF LedgerInv
<1>9. WeeksHold' /\ AreasHold'
  BY <1>3, QuietKeepsWeeks, QuietKeepsAreas DEF LedgerInv
<1> QED BY <1>5, <1>6, <1>7, <1>8, <1>9 DEF LedgerInv

\* What the new events are, of a step that writes one about a row.
LEMMA RowEvent ==
    ASSUME LedgerInv, NEW entity, NEW id, NEW kind, NEW to, NEW payload,
           events' = append_event(entity, id, kind, to, payload)
    PROVE  /\ Grows /\ New = {Len(events) + 1}
           /\ LET e == events'[Len(events) + 1]
              IN  /\ e.entity = entity /\ e.id = id /\ e.kind = kind /\ e.to = to
                  /\ e.at = now /\ e.payload = payload
           /\ Adds(Event(entity, id, kind, to, payload))
<1> DEFINE e == Event(entity, id, kind, to, payload)
<1>1. /\ e.entity = entity /\ e.id = id /\ e.kind = kind /\ e.to = to
      /\ e.at = now /\ e.payload = payload
  BY EventIs
<1>2. events' = Append(events, e)
  BY DEF append_event
<1> HIDE DEF e
<1>3. Grows /\ New = {Len(events) + 1} /\ events'[Len(events) + 1] = e /\ Adds(e)
  BY <1>2, OneNew, OneAdded DEF LedgerInv
<1> QED BY <1>1, <1>3 DEF e

\* A step on the plan that creates no Direction and completes no block.
LEMMA PlanKeeps ==
    ASSUME LedgerInv, UNCHANGED <<routines, fires, daily, watermark, directions, scope>>, now' = now,
           tasks' \in Seq(Task'), blocks' \in Seq(Block'),
           \A t \in DOMAIN tasks : tasks'[t].week = tasks[t].week,
           \A b \in DOMAIN blocks :
              /\ b \in DOMAIN blocks' /\ blocks'[b].minutes = blocks[b].minutes
              /\ blocks'[b].direction = blocks[b].direction /\ blocks'[b].task = blocks[b].task,
           \A b \in DOMAIN blocks : blocks[b].status = "completed" <=> blocks'[b].status = "completed",
           \A b \in DOMAIN blocks' : b \notin DOMAIN blocks => blocks'[b].status = "planned",
           NEW entity \in {"task", "block"}, NEW id, NEW kind, NEW to, NEW payload,
           events' = append_event(entity, id, kind, to, payload),
           ~(entity = "block" /\ to = "completed")
    PROVE  LedgerInv'
<1>1. Grows /\ New = {Len(events) + 1}
  BY RowEvent
<1>2. \A i \in New : /\ events'[i].at = now
                     /\ ~Completed(events'[i]) /\ ~DirectionCreated(events'[i])
                     /\ ~Fired(events'[i]) /\ ~Retired(events'[i])
  <2>1. LET e == events'[Len(events) + 1] IN e.entity = entity /\ e.to = to /\ e.at = now
    BY RowEvent
  <2> QED BY <1>1, <2>1 DEF Completed, DirectionCreated, Fired, Retired
<1>3. UNCHANGED <<directions, scope>> /\ UNCHANGED <<fires, routines>> /\ UNCHANGED scope
      /\ world' = world /\ daily' = daily /\ watermark' = watermark /\ directions' = directions
  BY DEF scope
<1>4. Quiet
  <2>1. \A b \in DOMAIN blocks' : blocks'[b].status = "completed"
                                  => b \in DOMAIN blocks /\ blocks[b].status = "completed"
    OBVIOUS
  <2> QED BY <1>1, <1>2, <1>3, <2>1 DEF Quiet, Grows, New
<1>5. Typed'
  <2>1. now' \in 0..world.last /\ \E S : directions' \in Seq(S)
    BY <1>3 DEF LedgerInv, Typed
  <2> QED BY <1>1, <1>3, <2>1, TypedKept DEF LedgerInv
<1>6. Logged'
  BY <1>1, <1>2, <1>3, LoggedKept DEF LedgerInv
<1>7. Delivered'
  BY <1>1, <1>2, <1>3, DeliveredKept DEF LedgerInv
<1>8. DaysAgree'
  BY <1>1, <1>3, DaysKept DEF LedgerInv
<1>9. WeeksHold' /\ AreasHold'
  BY <1>4, QuietKeepsWeeks, QuietKeepsAreas DEF LedgerInv
<1> QED BY <1>5, <1>6, <1>7, <1>8, <1>9 DEF LedgerInv

\* The tables whose rows point at tasks and Directions, when those stay.
LEMMA SameRowTypes ==
    ASSUME UNCHANGED <<directions, scope>>
    PROVE  Task' = Task /\ Ids(directions)' = Ids(directions) /\ Weeks' = Weeks
BY DEF scope, Task, Weeks, Ids

\* A new task.
LEMMA InsertTaskKeeps ==
    ASSUME LedgerInv, NEW w \in Weeks \cup {None}, NEW d \in Ids(directions),
           NEW status \in {"backlog", "planned"}, NEW payload, InsertTask(w, d, status, payload)
    PROVE  LedgerInv'
<1>1. /\ UNCHANGED <<routines, fires, daily, watermark, directions, scope>> /\ now' = now
      /\ events' = append_event("task", Len(tasks) + 1, "created", status, payload)
      /\ UNCHANGED blocks
  BY DEF InsertTask
<1> DEFINE t == [week |-> w, direction |-> d, status |-> status, created_at |-> now]
<1>2. tasks' = Append(tasks, t)
  BY DEF InsertTask
<1>3. now \in Nat /\ tasks \in Seq(Task) /\ blocks \in Seq(Block)
  BY JournalAssumption DEF LedgerInv, Typed
<1>4. t \in Task
  BY <1>3 DEF Task, TaskStatus
<1>5. tasks' \in Seq(Task) /\ DOMAIN tasks \subseteq DOMAIN tasks'
      /\ \A x \in DOMAIN tasks : tasks'[x] = tasks[x]
  <2> HIDE DEF t
  <2> QED BY <1>2, <1>3, <1>4
<1>6. tasks' \in Seq(Task')
  BY <1>1, <1>5, SameRowTypes
<1>7. blocks' \in Seq(Block')
  <2>1. Block \subseteq Block'
    BY <1>1, <1>5, SameRowTypes DEF Block, Ids
  <2> QED BY <1>1, <1>3, <2>1
<1>8. \A x \in DOMAIN tasks : tasks'[x].week = tasks[x].week
  BY <1>5
<1> HIDE DEF t
<1> QED BY <1>1, <1>6, <1>7, <1>8, PlanKeeps

\* A task moved or filed keeps its week.
LEMMA TaskStepKeeps ==
    ASSUME LedgerInv, UNCHANGED <<now, daily, watermark, directions, blocks, routines, fires, scope>>,
           NEW t \in DOMAIN tasks, NEW us \in Task, us.week = tasks[t].week,
           tasks' = [tasks EXCEPT ![t] = us],
           NEW kind, NEW to, NEW payload, events' = append_event("task", t, kind, to, payload)
    PROVE  LedgerInv'
<1>1. UNCHANGED <<routines, fires, daily, watermark, directions, scope>> /\ now' = now
  OBVIOUS
<1>2. tasks \in Seq(Task) /\ blocks \in Seq(Block)
  BY DEF LedgerInv, Typed
<1>3. tasks' \in Seq(Task) /\ DOMAIN tasks' = DOMAIN tasks
      /\ \A x \in DOMAIN tasks : tasks'[x].week = tasks[x].week
  BY <1>2
<1>4. tasks' \in Seq(Task')
  BY <1>1, <1>3, SameRowTypes
<1>5. blocks' \in Seq(Block')
  <2>1. Block = Block'
    BY <1>1, <1>3, SameRowTypes DEF Block, Ids
  <2> QED BY <1>2, <2>1
<1> QED BY <1>1, <1>3, <1>4, <1>5, PlanKeeps

\* The row of a task.
LEMMA TaskRow ==
    ASSUME LedgerInv, NEW t \in DOMAIN tasks
    PROVE  tasks[t] \in Task
BY DEF LedgerInv, Typed

\* The inbox and the tasks' moves.
LEMMA TasksKeep ==
    ASSUME LedgerInv,
           \/ \E d \in Filings : create_task(d) \/ \E w \in Weeks : apply_create_tasks(w, d)
           \/ \E t \in DOMAIN tasks, to \in world.moves : transition_task(t, to)
           \/ \E t \in DOMAIN tasks, d \in Filings \ {None} : apply_assign_task_direction(t, d)
    PROVE  LedgerInv'
<1>0. Filings \subseteq Ids(directions)
  BY DEF Filings, Ids
<1>1. ASSUME NEW d \in Filings, create_task(d) PROVE LedgerInv'
  BY <1>0, <1>1, InsertTaskKeeps DEF create_task
<1>2. ASSUME NEW d \in Filings, NEW w \in Weeks, apply_create_tasks(w, d) PROVE LedgerInv'
  BY <1>0, <1>2, InsertTaskKeeps DEF apply_create_tasks
<1>3. ASSUME NEW t \in DOMAIN tasks, NEW to \in world.moves, transition_task(t, to) PROVE LedgerInv'
  <2> DEFINE us == [tasks[t] EXCEPT !.status = to]
  <2>1. to \in TaskStatus
    BY <1>3 DEF transition_task, task_transition_allowed, TaskStatus
  <2>2. us \in Task /\ us.week = tasks[t].week
    BY <2>1, TaskRow DEF Task
  <2>3. tasks' = [tasks EXCEPT ![t] = us]
    BY <1>3 DEF transition_task
  <2>4. /\ UNCHANGED <<now, daily, watermark, directions, blocks, routines, fires, scope>>
        /\ events' = append_event("task", t, "transitioned", to, <<>>)
    BY <1>3 DEF transition_task
  <2> HIDE DEF us
  <2> QED BY <2>2, <2>3, <2>4, TaskStepKeeps
<1>4. ASSUME NEW t \in DOMAIN tasks, NEW d \in Filings \ {None}, apply_assign_task_direction(t, d)
      PROVE  LedgerInv'
  <2> DEFINE us == [tasks[t] EXCEPT !.direction = d]
  <2>2. us \in Task /\ us.week = tasks[t].week
    BY <1>0, TaskRow DEF Task
  <2>3. tasks' = [tasks EXCEPT ![t] = us]
    BY <1>4 DEF apply_assign_task_direction
  <2>4. /\ UNCHANGED <<now, daily, watermark, directions, blocks, routines, fires, scope>>
        /\ events' = append_event("task", t, "direction_assigned", None, [direction |-> d])
    BY <1>4 DEF apply_assign_task_direction
  <2> HIDE DEF us
  <2> QED BY <2>2, <2>3, <2>4, TaskStepKeeps
<1> QED BY <1>1, <1>2, <1>3, <1>4

\* A new Direction is known by its event.
LEMMA CreateDirectionKeeps ==
    ASSUME LedgerInv, NEW area, create_direction(area)
    PROVE  LedgerInv'
<1> DEFINE n == Len(events) + 1
<1> DEFINE d == Len(directions) + 1
<1>0. PICK S : directions \in Seq(S)
  BY DEF LedgerInv, Typed
<1>1. /\ UNCHANGED <<tasks, blocks, routines, fires, daily, watermark, scope>> /\ now' = now
      /\ UNCHANGED <<fires, routines>> /\ UNCHANGED scope /\ world' = world /\ weeks' = weeks
      /\ daily' = daily /\ watermark' = watermark
      /\ events' = append_event("direction", d, "created", "draft", [area |-> area])
      /\ directions' = Append(directions, area)
  BY DEF create_direction, scope
<1>2. /\ directions' \in Seq(S \cup {area})
      /\ DOMAIN directions' = DOMAIN directions \cup {d}
      /\ d \notin DOMAIN directions /\ DOMAIN directions \subseteq Nat
      /\ \A x \in DOMAIN directions : directions'[x] = directions[x]
      /\ directions'[d] = area
  BY <1>0, <1>1, AppendIs
<1>3. /\ Grows /\ New = {n}
      /\ LET e == events'[n]
         IN  /\ e.entity = "direction" /\ e.id = d /\ e.kind = "created"
             /\ e.at = now /\ e.payload = [area |-> area]
  BY <1>1, RowEvent
<1> HIDE DEF n, d
<1>4. \A i \in New : ~Completed(events'[i]) /\ ~Fired(events'[i]) /\ ~Retired(events'[i])
  BY <1>3 DEF Completed, Fired, Retired
<1>5. \A x \in Ids(directions) : AreaOf(directions', x) = AreaOf(directions, x)
  BY <1>2 DEF AreaOf, Ids
<1>6. Quiet
  BY <1>1, <1>3, <1>4, <1>5 DEF Quiet, Grows, New
<1>7. Typed'
  <2>1. Ids(directions) \subseteq Ids(directions)' /\ Weeks' = Weeks
    BY <1>1, <1>2 DEF Ids, Weeks
  <2>2. Task \subseteq Task'
    BY <2>1 DEF Task
  <2>3. Block \subseteq Block'
    BY <1>1, <2>1 DEF Block, Ids
  <2>4. tasks' \in Seq(Task') /\ blocks' \in Seq(Block')
    BY <1>1, <2>2, <2>3 DEF LedgerInv, Typed
  <2>5. now' \in 0..world.last /\ \E R : directions' \in Seq(R)
    BY <1>1, <1>2 DEF LedgerInv, Typed
  <2> QED BY <1>1, <1>2, <1>3, <2>4, <2>5, TypedKept DEF LedgerInv
<1>8. Logged'
  <2>1. \A i \in DOMAIN events' : i = n \/ (i \in DOMAIN events /\ events'[i] = events[i])
    BY <1>3 DEF New, Grows
  <2>2. now \in 0..world.last /\ n \in DOMAIN events'
    BY <1>3 DEF LedgerInv, Typed, New
  <2>3. \A x \in DOMAIN directions' :
           \E i \in DOMAIN events' : DirectionCreated(events'[i]) /\ events'[i].id = x
    <3> SUFFICES ASSUME NEW x \in DOMAIN directions'
                 PROVE  \E i \in DOMAIN events' : DirectionCreated(events'[i]) /\ events'[i].id = x
      OBVIOUS
    <3>1. CASE x = d
      BY <1>3, <2>2, <3>1 DEF DirectionCreated
    <3>2. CASE x \in DOMAIN directions
      BY <1>3, <3>2 DEF LedgerInv, Logged, Grows
    <3> QED BY <1>2, <3>1, <3>2
  <2>4. ASSUME NEW i \in DOMAIN events'
        PROVE  /\ events'[i].at \in 0..world.last
               /\ Completed(events'[i]) => /\ events'[i].payload.direction \in Ids(directions)'
                                           /\ events'[i].payload.minutes \in Nat
               /\ DirectionCreated(events'[i]) =>
                     /\ events'[i].id \in DOMAIN directions'
                     /\ events'[i].payload.area = directions'[events'[i].id]
    <3>1. CASE i = n
      BY <1>2, <1>3, <1>4, <2>2, <3>1
    <3>2. CASE i \in DOMAIN events /\ events'[i] = events[i]
      BY <1>2, <3>2 DEF LedgerInv, Logged, Ids
    <3> QED BY <2>1, <3>1, <3>2
  <2> QED BY <1>1, <2>3, <2>4 DEF Logged
<1>9. Delivered'
  BY <1>1, <1>3, <1>4, DeliveredKept DEF LedgerInv
<1>10. DaysAgree'
  BY <1>1, <1>3, DaysKept DEF LedgerInv
<1>11. WeeksHold' /\ AreasHold'
  BY <1>6, QuietKeepsWeeks, QuietKeepsAreas DEF LedgerInv
<1> QED BY <1>7, <1>8, <1>9, <1>10, <1>11 DEF LedgerInv

\* A new block is planned.
LEMMA CreateBlockKeeps ==
    ASSUME LedgerInv, NEW d \in Ids(directions), NEW t \in Ids(tasks), NEW m \in Minutes,
           create_block(d, t, m)
    PROVE  LedgerInv'
<1>1. /\ UNCHANGED <<routines, fires, daily, watermark, directions, scope>> /\ now' = now
      /\ events' = append_event("block", Len(blocks) + 1, "created", "planned", <<>>)
      /\ UNCHANGED tasks
  BY DEF create_block
<1> DEFINE b == ScheduleBlock(d, t, m)
<1>2. blocks' = Append(blocks, b)
  BY DEF create_block
<1>3. tasks \in Seq(Task) /\ blocks \in Seq(Block)
  BY DEF LedgerInv, Typed
<1>4. b \in Block /\ b.status = "planned"
  BY JournalAssumption DEF Block, ScheduleBlock, ScheduleBlockStatus
<1> HIDE DEF b
<1>5. /\ blocks' \in Seq(Block)
      /\ \A x \in DOMAIN blocks : x \in DOMAIN blocks' /\ blocks'[x] = blocks[x]
      /\ \A x \in DOMAIN blocks' : x \notin DOMAIN blocks => blocks'[x] = b
  BY <1>2, <1>3, <1>4
<1>6. tasks' \in Seq(Task') /\ blocks' \in Seq(Block')
  <2>1. Block' = Block /\ Task' = Task
    BY <1>1, SameRowTypes DEF Block, Ids
  <2> QED BY <1>1, <1>3, <1>5, <2>1
<1> QED BY <1>1, <1>4, <1>5, <1>6, PlanKeeps

\* The tables after a block's transition.
LEMMA BlockMoved ==
    ASSUME LedgerInv, NEW b \in DOMAIN blocks, NEW to \in ScheduleBlockStatus, transition_block(b, to)
    PROVE  /\ blocks' \in Seq(Block) /\ DOMAIN blocks' = DOMAIN blocks
           /\ blocks[b].status # "completed" /\ blocks'[b].status = to
           /\ \A c \in DOMAIN blocks :
                 /\ blocks'[c].minutes = blocks[c].minutes
                 /\ blocks'[c].direction = blocks[c].direction
                 /\ blocks'[c].task = blocks[c].task
                 /\ c # b => blocks'[c].status = blocks[c].status
<1> DEFINE us == [blocks[b] EXCEPT !.status = to]
<1>1. blocks' = [blocks EXCEPT ![b] = us]
  BY DEF transition_block
<1>2. blocks \in Seq(Block) /\ blocks[b] \in Block
  BY DEF LedgerInv, Typed
<1>3. us \in Block /\ us.status = to /\ us.minutes = blocks[b].minutes
      /\ us.direction = blocks[b].direction /\ us.task = blocks[b].task
  BY <1>2 DEF Block
<1>4. blocks[b].status # "completed"
  BY DEF transition_block, schedule_block_transition_allowed
<1> HIDE DEF us
<1>5. blocks' \in Seq(Block) /\ DOMAIN blocks' = DOMAIN blocks
      /\ \A c \in DOMAIN blocks : blocks'[c] = IF c = b THEN us ELSE blocks[c]
  BY <1>1, <1>2, <1>3
<1> QED BY <1>3, <1>4, <1>5

\* A block's transition, its completion included.
LEMMA TransitionBlockKeeps ==
    ASSUME LedgerInv, NEW b \in DOMAIN blocks, NEW to \in ScheduleBlockStatus, transition_block(b, to)
    PROVE  LedgerInv'
<1> DEFINE payload == [direction |-> blocks[b].direction, minutes |-> blocks[b].minutes,
                       week |-> IF blocks[b].task = None THEN None ELSE tasks[blocks[b].task].week]
<1> DEFINE e == Event("block", b, "transitioned", to, payload)
<1>1. /\ UNCHANGED <<routines, fires, daily, watermark, directions, scope>> /\ now' = now
      /\ events' = append_event("block", b, "transitioned", to, payload)
      /\ UNCHANGED tasks
  BY DEF transition_block
<1>2. /\ blocks' \in Seq(Block) /\ DOMAIN blocks' = DOMAIN blocks
      /\ blocks[b].status # "completed" /\ blocks'[b].status = to
      /\ \A c \in DOMAIN blocks :
            /\ blocks'[c].minutes = blocks[c].minutes
            /\ blocks'[c].direction = blocks[c].direction
            /\ blocks'[c].task = blocks[c].task
            /\ c # b => blocks'[c].status = blocks[c].status
  BY BlockMoved
<1>3. tasks' \in Seq(Task') /\ blocks' \in Seq(Block')
  <2>1. Block' = Block /\ Task' = Task
    BY <1>1, SameRowTypes DEF Block, Ids
  <2> QED BY <1>1, <1>2, <2>1 DEF LedgerInv, Typed
<1>4. CASE to # "completed"
  <2>1. \A c \in DOMAIN blocks : blocks[c].status = "completed" <=> blocks'[c].status = "completed"
    BY <1>2, <1>4
  <2> HIDE DEF payload
  <2> QED BY <1>1, <1>2, <1>3, <1>4, <2>1, PlanKeeps
<1>5. CASE to = "completed"
  <2>1. /\ Adds(e) /\ Grows /\ New = {Len(events) + 1}
        /\ events'[Len(events) + 1] = e
    <3> HIDE DEF payload
    <3>1. events' = Append(events, e)
      BY <1>1 DEF append_event
    <3> HIDE DEF e
    <3>2. Adds(e)
      BY <3>1, OneAdded DEF LedgerInv
    <3>3. Grows /\ New = {Len(events) + 1} /\ events'[Len(events) + 1] = e
      BY <3>1, OneNew DEF LedgerInv
    <3> QED BY <3>2, <3>3
  <2>2. /\ e.entity = "block" /\ e.kind = "transitioned" /\ e.to = to /\ e.at = now
        /\ e.payload = payload
    BY EventIs
  <2>3. /\ payload.direction = blocks[b].direction /\ payload.minutes = blocks[b].minutes
        /\ payload.week = IF blocks[b].task = None THEN None ELSE tasks[blocks[b].task].week
    OBVIOUS
  <2> HIDE DEF e, payload
  <2>4. Completes(b, e)
    BY <1>1, <1>2, <1>5, <2>1, <2>2, <2>3 DEF Completes, Completed
  <2>5. WeeksHold' /\ AreasHold'
    BY <2>4, CompletesKeepsWeeks, CompletesKeepsAreas DEF LedgerInv
  <2>6. UNCHANGED <<directions, scope>> /\ UNCHANGED <<fires, routines>> /\ UNCHANGED scope
        /\ world' = world /\ daily' = daily /\ watermark' = watermark /\ directions' = directions
    BY <1>1 DEF scope
  <2>7. Typed'
    <3>1. now' \in 0..world.last /\ \E S : directions' \in Seq(S)
      BY <1>1, <2>6 DEF LedgerInv, Typed
    <3> QED BY <1>3, <2>1, <2>6, <3>1, TypedKept DEF LedgerInv
  <2>8. \A i \in New : ~DirectionCreated(events'[i]) /\ ~Fired(events'[i]) /\ ~Retired(events'[i])
    BY <2>1, <2>2 DEF DirectionCreated, Fired, Retired
  <2>9. Delivered'
    BY <2>1, <2>6, <2>8, DeliveredKept DEF LedgerInv
  <2>10. DaysAgree'
    BY <2>1, <2>6, DaysKept DEF LedgerInv
  <2>11. Logged'
    <3>1. \A i \in DOMAIN events' : i \in New \/ (i \in DOMAIN events /\ events'[i] = events[i])
      BY <2>1 DEF New, Grows
    <3>2. now \in 0..world.last
      BY DEF LedgerInv, Typed
    <3>3. \A d \in DOMAIN directions :
             \E i \in DOMAIN events' : DirectionCreated(events'[i]) /\ events'[i].id = d
      BY <2>1 DEF LedgerInv, Logged, Grows
    <3>4. blocks[b].direction \in Ids(directions) /\ blocks[b].minutes \in Nat
      BY BlockRows DEF LedgerInv
    <3>5. ASSUME NEW i \in DOMAIN events'
          PROVE  /\ events'[i].at \in 0..world.last
                 /\ Completed(events'[i]) => /\ events'[i].payload.direction \in Ids(directions)
                                             /\ events'[i].payload.minutes \in Nat
                 /\ DirectionCreated(events'[i]) =>
                       /\ events'[i].id \in DOMAIN directions
                       /\ events'[i].payload.area = directions[events'[i].id]
      <4>1. CASE i \in New
        BY <2>1, <2>2, <2>3, <2>8, <3>2, <3>4, <4>1
      <4>2. CASE i \in DOMAIN events /\ events'[i] = events[i]
        BY <4>2 DEF LedgerInv, Logged
      <4> QED BY <3>1, <4>1, <4>2
    <3> QED BY <2>6, <3>3, <3>5 DEF Logged, Ids
  <2> QED BY <2>5, <2>7, <2>9, <2>10, <2>11 DEF LedgerInv
<1> QED BY <1>4, <1>5

\* A step on Routines and fires leaves the plan and its minutes alone.
LEMMA RoutineKeeps ==
    ASSUME LedgerInv, UNCHANGED <<plan, daily, watermark, scope>>, now' = now, Grows,
           \A i \in New : events'[i].at = now /\ events'[i].entity \in {"routine", "review"},
           Delivered'
    PROVE  LedgerInv'
<1>1. \A i \in New : /\ events'[i].at = now
                     /\ ~Completed(events'[i]) /\ ~DirectionCreated(events'[i])
  BY DEF Completed, DirectionCreated
<1>2. /\ UNCHANGED <<plan, scope>> /\ UNCHANGED <<directions, scope>>
      /\ UNCHANGED <<directions, tasks, blocks>> /\ world' = world /\ daily' = daily
      /\ watermark' = watermark /\ UNCHANGED scope
  BY DEF plan, scope
<1>3. Quiet
  BY <1>1, <1>2 DEF Quiet, Grows, New
<1>4. Typed'
  <2>1. now' \in 0..world.last
    BY DEF LedgerInv, Typed
  <2> QED BY <1>2, <2>1, PlanTyped, TypedKept DEF LedgerInv
<1>5. Logged'
  BY <1>1, <1>2, LoggedKept DEF LedgerInv
<1>6. DaysAgree'
  BY <1>2, DaysKept DEF LedgerInv
<1>7. WeeksHold' /\ AreasHold'
  BY <1>3, QuietKeepsWeeks, QuietKeepsAreas DEF LedgerInv
<1> QED BY <1>4, <1>5, <1>6, <1>7 DEF LedgerInv

\* A Routine paused, resumed or retired.  Every fire of it comes before its
\* retirement.
LEMMA TransitionRoutineKeeps ==
    ASSUME LedgerInv, NEW r \in Routines, NEW to \in RoutineStatus, transition_routine(r, to)
    PROVE  LedgerInv'
<1> DEFINE n == Len(events) + 1
<1>1. /\ UNCHANGED <<plan, daily, watermark, scope>> /\ now' = now /\ UNCHANGED fires
      /\ routines' = [routines EXCEPT ![r] = to]
      /\ events' = append_event("routine", r, to, to, <<>>)
  BY DEF transition_routine
<1>2. routines[r] # "retired"
  BY DEF transition_routine, routine_transition_allowed
<1>3. /\ Grows /\ New = {n}
      /\ LET e == events'[n] IN e.entity = "routine" /\ e.id = r /\ e.kind = to /\ e.at = now
  BY <1>1, RowEvent
<1>4. \A i \in DOMAIN events : i < n
  BY <1>1, RowEvent DEF Adds
<1> HIDE DEF n
<1>5. ~Fired(events'[n]) /\ (Retired(events'[n]) <=> to = "retired") /\ events'[n].id = r
  BY <1>3 DEF Fired, Retired, RoutineStatus
<1>6. \A i \in DOMAIN events' : i = n \/ (i \in DOMAIN events /\ events'[i] = events[i])
  BY <1>3 DEF New, Grows
<1>7. \A i \in DOMAIN events : i \in DOMAIN events' /\ events'[i] = events[i]
  BY <1>3 DEF Grows
<1>8. /\ routines \in [Routines -> RoutineStatus]
      /\ fires \in [FireIds -> [routine : Routines, received_at : Nat] \cup {None}]
      /\ \A f \in FireIds : fires[f] # None =>
            \E i \in DOMAIN events :
                /\ Fired(events[i]) /\ events[i].payload.fire = f /\ events[i].id = fires[f].routine
                /\ \A j \in DOMAIN events : Fired(events[j]) /\ events[j].payload.fire = f => j = i
      /\ \A i \in DOMAIN events : Fired(events[i]) =>
          events[i].payload.fire \in FireIds /\ fires[events[i].payload.fire] # None
      /\ \A i \in DOMAIN events : Retired(events[i]) =>
          events[i].id \in Routines /\ routines[events[i].id] = "retired"
      /\ \A i, j \in DOMAIN events :
            Fired(events[j]) /\ Retired(events[i]) /\ events[i].id = events[j].id => j < i
  BY DEF LedgerInv, Delivered
<1>9. ASSUME NEW f \in FireIds, fires[f] # None
      PROVE  \E i \in DOMAIN events' :
                /\ Fired(events'[i]) /\ events'[i].payload.fire = f /\ events'[i].id = fires[f].routine
                /\ \A j \in DOMAIN events' : Fired(events'[j]) /\ events'[j].payload.fire = f => j = i
  <2>1. PICK i \in DOMAIN events :
            /\ Fired(events[i]) /\ events[i].payload.fire = f /\ events[i].id = fires[f].routine
            /\ \A j \in DOMAIN events : Fired(events[j]) /\ events[j].payload.fire = f => j = i
    BY <1>8, <1>9
  <2>2. \A j \in DOMAIN events' : Fired(events'[j]) /\ events'[j].payload.fire = f => j = i
    BY <1>5, <1>6, <2>1
  <2> QED BY <1>7, <2>1, <2>2
<1>10. \A i \in DOMAIN events' : Fired(events'[i]) =>
          events'[i].payload.fire \in FireIds /\ fires[events'[i].payload.fire] # None
  BY <1>5, <1>6, <1>8
<1>11. \A i \in DOMAIN events' : Retired(events'[i]) =>
          events'[i].id \in Routines /\ routines'[events'[i].id] = "retired"
  <2> SUFFICES ASSUME NEW i \in DOMAIN events', Retired(events'[i])
               PROVE  events'[i].id \in Routines /\ routines'[events'[i].id] = "retired"
    OBVIOUS
  <2>1. CASE i = n
    BY <1>1, <1>5, <1>8, <2>1
  <2>2. CASE i \in DOMAIN events /\ events'[i] = events[i]
    <3>1. events[i].id \in Routines /\ routines[events[i].id] = "retired" /\ events[i].id # r
      BY <1>2, <1>8, <2>2
    <3> QED BY <1>1, <1>8, <2>2, <3>1
  <2> QED BY <1>6, <2>1, <2>2
<1>12. \A i, j \in DOMAIN events' :
          Fired(events'[j]) /\ Retired(events'[i]) /\ events'[i].id = events'[j].id => j < i
  <2> SUFFICES ASSUME NEW i \in DOMAIN events', NEW j \in DOMAIN events',
                      Fired(events'[j]), Retired(events'[i]), events'[i].id = events'[j].id
               PROVE  j < i
    OBVIOUS
  <2>1. j \in DOMAIN events /\ events'[j] = events[j]
    BY <1>5, <1>6
  <2>2. CASE i = n
    BY <1>4, <2>1, <2>2
  <2>3. CASE i \in DOMAIN events /\ events'[i] = events[i]
    BY <1>8, <2>1, <2>3
  <2> QED BY <1>6, <2>2, <2>3
<1>13. routines' \in [Routines -> RoutineStatus]
  BY <1>1, <1>8
<1>14. Delivered'
  BY <1>1, <1>8, <1>9, <1>10, <1>11, <1>12, <1>13 DEF Delivered
<1> QED BY <1>1, <1>3, <1>14, RoutineKeeps

\* What a recorded fire writes: its own event, and perhaps a Review's behind it.
LEMMA FireWrites ==
    ASSUME LedgerInv, NEW f \in FireIds, NEW r \in Routines, NEW s, scheduler_fired(f, r, s)
    PROVE  /\ Grows /\ Len(events) + 1 \in New
           /\ \A i \in New : i = Len(events) + 1 \/ (events'[i].entity = "review" /\ events'[i].at = now)
           /\ LET e == events'[Len(events) + 1]
              IN  e.entity = "routine" /\ e.id = r /\ e.kind = "fired" /\ e.at = now
                  /\ e.payload = [fire |-> f]
<1> DEFINE e == Event("routine", r, "fired", None, [fire |-> f])
<1> DEFINE w == iso_week_of(s)
<1> DEFINE g == Event("review", w, "created", "draft", <<>>)
<1>1. e.entity = "routine" /\ e.id = r /\ e.kind = "fired" /\ e.at = now /\ e.payload = [fire |-> f]
  BY EventIs
<1>2. g.entity = "review" /\ g.at = now
  BY EventIs
<1>3. events' = Append(events, e) \/ events' = Append(Append(events, e), g)
  BY DEF scheduler_fired, record_routine_fire, insert_weekly_review_draft_if_absent, append_event
<1> HIDE DEF e, g
<1>4. CASE events' = Append(events, e)
  <2>1. Grows /\ New = {Len(events) + 1} /\ events'[Len(events) + 1] = e
    BY <1>4, OneNew DEF LedgerInv
  <2> QED BY <1>1, <2>1
<1>5. CASE events' = Append(Append(events, e), g)
  <2>1. /\ Grows /\ New = {Len(events) + 1, Len(events) + 2}
        /\ events'[Len(events) + 1] = e /\ events'[Len(events) + 2] = g
    BY <1>5, TwoNew DEF LedgerInv
  <2> QED BY <1>1, <1>2, <2>1
<1> QED BY <1>3, <1>4, <1>5

\* A fire is recorded once, of a Routine that is not retired.
LEMMA FireKeeps ==
    ASSUME LedgerInv, NEW f \in FireIds, NEW r \in Routines, NEW s, scheduler_fired(f, r, s)
    PROVE  LedgerInv'
<1> DEFINE n == Len(events) + 1
<1>1. /\ UNCHANGED <<plan, daily, watermark, scope>> /\ now' = now /\ UNCHANGED routines
      /\ fires' = [fires EXCEPT ![f] = [routine |-> r, received_at |-> now]]
  BY DEF scheduler_fired, record_routine_fire
<1>2. routines[r] # "retired" /\ fires[f] = None
  BY DEF scheduler_fired, record_routine_fire, RoutineFireOutcome, is_new_fire
<1>3. /\ Grows /\ n \in New
      /\ \A i \in New : i = n \/ (events'[i].entity = "review" /\ events'[i].at = now)
      /\ LET e == events'[n]
         IN  e.entity = "routine" /\ e.id = r /\ e.kind = "fired" /\ e.at = now
             /\ e.payload = [fire |-> f]
  BY FireWrites
<1> HIDE DEF n
<1>5. /\ Fired(events'[n]) /\ ~Retired(events'[n]) /\ events'[n].id = r
      /\ events'[n].payload.fire = f
      /\ \A i \in New : i # n => ~Fired(events'[i]) /\ ~Retired(events'[i])
  BY <1>3 DEF Fired, Retired
<1>6. \A i \in DOMAIN events' : i \in New \/ (i \in DOMAIN events /\ events'[i] = events[i])
  BY <1>3 DEF New, Grows
<1>7. /\ \A i \in DOMAIN events : i \in DOMAIN events' /\ events'[i] = events[i]
      /\ n \in DOMAIN events'
  BY <1>3 DEF Grows, New
<1>8. /\ routines \in [Routines -> RoutineStatus]
      /\ fires \in [FireIds -> [routine : Routines, received_at : Nat] \cup {None}]
      /\ \A x \in FireIds : fires[x] # None =>
            \E i \in DOMAIN events :
                /\ Fired(events[i]) /\ events[i].payload.fire = x /\ events[i].id = fires[x].routine
                /\ \A j \in DOMAIN events : Fired(events[j]) /\ events[j].payload.fire = x => j = i
      /\ \A i \in DOMAIN events : Fired(events[i]) =>
          events[i].payload.fire \in FireIds /\ fires[events[i].payload.fire] # None
      /\ \A i \in DOMAIN events : Retired(events[i]) =>
          events[i].id \in Routines /\ routines[events[i].id] = "retired"
      /\ \A i, j \in DOMAIN events :
            Fired(events[j]) /\ Retired(events[i]) /\ events[i].id = events[j].id => j < i
  BY DEF LedgerInv, Delivered
<1> DEFINE row == [routine |-> r, received_at |-> now]
<1>9. row \in [routine : Routines, received_at : Nat] /\ row # None /\ row.routine = r
  <2>1. now \in Nat
    BY JournalAssumption DEF LedgerInv, Typed
  <2>2. row \in [routine : Routines, received_at : Nat]
    BY <2>1
  <2> HIDE DEF row
  <2>3. row # None
    BY <2>2, JournalAssumption
  <2> QED BY <2>2, <2>3 DEF row
<1> HIDE DEF row
<1>10. /\ fires' \in [FireIds -> [routine : Routines, received_at : Nat] \cup {None}]
       /\ fires'[f] = row /\ \A x \in FireIds : x # f => fires'[x] = fires[x]
  BY <1>1, <1>8, <1>9 DEF row
<1>11. \A i \in DOMAIN events : Fired(events[i]) => events[i].payload.fire # f
  BY <1>2, <1>8
<1>12. ASSUME NEW x \in FireIds, fires'[x] # None
       PROVE  \E i \in DOMAIN events' :
                 /\ Fired(events'[i]) /\ events'[i].payload.fire = x /\ events'[i].id = fires'[x].routine
                 /\ \A j \in DOMAIN events' : Fired(events'[j]) /\ events'[j].payload.fire = x => j = i
  <2>1. CASE x = f
    <3>1. \A j \in DOMAIN events' : Fired(events'[j]) /\ events'[j].payload.fire = x => j = n
      BY <1>5, <1>6, <1>11, <2>1
    <3>2. events'[n].id = fires'[x].routine
      BY <1>5, <1>9, <1>10, <2>1
    <3> QED BY <1>5, <1>7, <2>1, <3>1, <3>2
  <2>2. CASE x # f
    <3>1. fires'[x] = fires[x] /\ fires[x] # None
      BY <1>10, <1>12, <2>2
    <3>2. PICK i \in DOMAIN events :
              /\ Fired(events[i]) /\ events[i].payload.fire = x /\ events[i].id = fires[x].routine
              /\ \A j \in DOMAIN events : Fired(events[j]) /\ events[j].payload.fire = x => j = i
      BY <1>8, <3>1
    <3>3. \A j \in DOMAIN events' : Fired(events'[j]) /\ events'[j].payload.fire = x => j = i
      BY <1>5, <1>6, <2>2, <3>2
    <3> QED BY <1>7, <3>1, <3>2, <3>3
  <2> QED BY <2>1, <2>2
<1>13. \A i \in DOMAIN events' : Fired(events'[i]) =>
          events'[i].payload.fire \in FireIds /\ fires'[events'[i].payload.fire] # None
  <2> SUFFICES ASSUME NEW i \in DOMAIN events', Fired(events'[i])
               PROVE  events'[i].payload.fire \in FireIds /\ fires'[events'[i].payload.fire] # None
    OBVIOUS
  <2>1. CASE i \in New
    BY <1>5, <1>9, <1>10, <2>1
  <2>2. CASE i \in DOMAIN events /\ events'[i] = events[i]
    <3>1. events[i].payload.fire \in FireIds /\ fires[events[i].payload.fire] # None /\ events[i].payload.fire # f
      BY <1>8, <1>11, <2>2
    <3>2. fires'[events[i].payload.fire] = fires[events[i].payload.fire]
      BY <1>1, <1>8, <3>1
    <3> QED BY <2>2, <3>1, <3>2
  <2> QED BY <1>6, <2>1, <2>2
<1>14. \A i \in DOMAIN events' : Retired(events'[i]) =>
          events'[i].id \in Routines /\ routines[events'[i].id] = "retired"
  BY <1>5, <1>6, <1>8
<1>15. \A i, j \in DOMAIN events' :
          Fired(events'[j]) /\ Retired(events'[i]) /\ events'[i].id = events'[j].id => j < i
  <2> SUFFICES ASSUME NEW i \in DOMAIN events', NEW j \in DOMAIN events',
                      Fired(events'[j]), Retired(events'[i]), events'[i].id = events'[j].id
               PROVE  j < i
    OBVIOUS
  <2>1. i \in DOMAIN events /\ events'[i] = events[i]
    BY <1>5, <1>6
  <2>2. CASE j \in New
    <3>1. events[i].id = r
      BY <1>5, <2>1, <2>2
    <3> QED BY <1>2, <1>8, <2>1, <3>1
  <2>3. CASE j \in DOMAIN events /\ events'[j] = events[j]
    BY <1>8, <2>1, <2>3
  <2> QED BY <1>6, <2>2, <2>3
<1>16. Delivered'
  BY <1>1, <1>8, <1>10, <1>12, <1>13, <1>14, <1>15 DEF Delivered
<1> QED BY <1>1, <1>3, <1>16, RoutineKeeps
-----------------------------------------------------------------------------
(* Texts *)

TextTables == <<reviews, drafts, run>>

\* The rows' types read no table but the weeks.
LEMMA SameTextRows ==
    ASSUME NEW B, UNCHANGED weeks
    PROVE  /\ ReviewRow(B)' = ReviewRow(B) /\ DraftRow(B)' = DraftRow(B) /\ Run(B)' = Run(B)
           /\ Weeks' = Weeks
BY DEF ReviewRow, DraftRow, Run, Weeks, Idle

\* A step of another table.
LEMMA DraftedKept ==
    ASSUME Drafted, UNCHANGED TextTables, UNCHANGED weeks
    PROVE  Drafted'
<1>1. PICK B : Texted(B)
  BY DEF Drafted
<1>2. Texted(B)'
  BY <1>1, SameTextRows DEF Texted, TextTables
<1> QED BY <1>2 DEF Drafted, TextTables, Weeks, Blank

\* More texts are texts.
LEMMA MoreTexts ==
    ASSUME NEW B, NEW C, B \subseteq C, Texted(B)
    PROVE  Texted(C)
<1>1. ReviewRow(B) \subseteq ReviewRow(C)
  BY DEF ReviewRow
<1>2. DraftRow(B) \subseteq DraftRow(C)
  BY DEF DraftRow
<1>3. Run(B) \subseteq Run(C)
  BY DEF Run
<1>4. drafts \in Seq(DraftRow(C))
  BY <1>2 DEF Texted
<1> QED BY <1>1, <1>3, <1>4 DEF Texted

\* The Review of one week is rewritten.
LEMMA ReviewRewritten ==
    ASSUME Drafted, UNCHANGED <<drafts, run, weeks>>, NEW w \in Weeks,
           NEW status \in {"draft", "finalized"}, NEW body,
           reviews' = [reviews EXCEPT ![w] = [status |-> status, body |-> body]]
    PROVE  Drafted'
<1>1. PICK A : Texted(A)
  BY DEF Drafted
<1> DEFINE B == A \cup {body}
<1>2. Texted(B)
  BY <1>1, MoreTexts
<1>3. [status |-> status, body |-> body] \in ReviewRow(B)
  BY DEF ReviewRow
<1> HIDE DEF B
<1>4. reviews' \in [Weeks -> ReviewRow(B)]
  BY <1>2, <1>3 DEF Texted
<1>5. Texted(B)'
  BY <1>2, <1>4, SameTextRows DEF Texted
<1>6. reviews \in [Weeks -> ReviewRow(B)]
  BY <1>2 DEF Texted
<1>7. \A v \in Weeks : reviews'[v].status = "absent" => reviews'[v].body = Blank
  <2> SUFFICES ASSUME NEW v \in Weeks, reviews'[v].status = "absent" PROVE reviews'[v].body = Blank
    OBVIOUS
  <2>1. v # w
    BY <1>6
  <2>2. reviews'[v] = reviews[v]
    BY <1>6, <2>1
  <2> QED BY <2>2 DEF Drafted
<1>8. /\ run'.pc = "decide" => run'.base.by \in Programs
      /\ \A i \in DOMAIN drafts' : drafts'[i].base.by \in Programs
  BY DEF Drafted
<1>9. Weeks' = Weeks
  BY DEF Weeks
<1> QED BY <1>5, <1>7, <1>8, <1>9 DEF Drafted, Blank

\* The run goes on.
LEMMA RunMoved ==
    ASSUME Drafted, UNCHANGED <<reviews, drafts, weeks>>, NEW C,
           run' \in Run(C),
           run'.pc = "decide" => run'.base.by \in Programs
    PROVE  Drafted'
<1>1. PICK A : Texted(A)
  BY DEF Drafted
<1> DEFINE B == A \cup C
<1>2. Texted(B)
  BY <1>1, MoreTexts
<1>3. run' \in Run(B)
  BY DEF Run
<1> HIDE DEF B
<1>4. Texted(B)'
  BY <1>2, <1>3, SameTextRows DEF Texted
<1> QED BY <1>4 DEF Drafted, Weeks, Blank

\* A body of the program's.
LEMMA ProgramOnly ==
    ASSUME NEW body, NEW draft, is_program_only(body, Candidates(draft))
    PROVE  body.by \in Programs
BY DEF is_program_only, Candidates, render_facts, render_weekly_draft_markdown, Blank, Programs

\* The row of a Review that is there.
LEMMA ReviewIs ==
    ASSUME Drafted, NEW w \in Weeks
    PROVE  /\ reviews[w] = [status |-> reviews[w].status, body |-> reviews[w].body]
           /\ reviews[w].status \in {"absent", "draft", "finalized"}
           /\ \A b : [reviews EXCEPT ![w].body = b]
                     = [reviews EXCEPT ![w] = [status |-> reviews[w].status, body |-> b]]
           /\ \A s : [reviews EXCEPT ![w].status = s]
                     = [reviews EXCEPT ![w] = [status |-> s, body |-> reviews[w].body]]
<1>1. PICK B : reviews \in [Weeks -> ReviewRow(B)]
  BY DEF Drafted, Texted
<1>2. reviews[w] \in ReviewRow(B)
  BY <1>1
<1>3. /\ reviews[w] = [status |-> reviews[w].status, body |-> reviews[w].body]
      /\ reviews[w].status \in {"absent", "draft", "finalized"}
  BY <1>2 DEF ReviewRow
<1>4. /\ \A b : [reviews[w] EXCEPT !.body = b] = [status |-> reviews[w].status, body |-> b]
      /\ \A s : [reviews[w] EXCEPT !.status = s] = [status |-> s, body |-> reviews[w].body]
  BY <1>3
<1> QED BY <1>1, <1>3, <1>4

\* The user's own edits of a Review.
LEMMA EditKeepsTexts ==
    ASSUME Drafted, NEW w \in Weeks, NEW body,
           create_review(w) \/ finalize_review(w) \/ update_review_body(w, body)
    PROVE  Drafted'
<1>1. UNCHANGED <<drafts, run, weeks>>
  BY DEF create_review, finalize_review, update_review_body, scope
<1>2. CASE create_review(w)
  <2>1. reviews' = [reviews EXCEPT ![w] = [status |-> "draft", body |-> Blank]]
    BY <1>2 DEF create_review
  <2> QED BY <1>1, <2>1, ReviewRewritten
<1>3. CASE finalize_review(w)
  <2>1. PICK b : b = reviews[w].body
    OBVIOUS
  <2>2. reviews' = [reviews EXCEPT ![w] = [status |-> "finalized", body |-> b]]
    BY <1>3, <2>1, ReviewIs DEF finalize_review
  <2> QED BY <1>1, <2>2, ReviewRewritten
<1>4. CASE update_review_body(w, body)
  <2>1. reviews[w].status = "draft" /\ reviews' = [reviews EXCEPT ![w].body = body]
    BY <1>4 DEF update_review_body
  <2>2. reviews' = [reviews EXCEPT ![w] = [status |-> "draft", body |-> body]]
    BY <2>1, ReviewIs
  <2> QED BY <1>1, <2>2, ReviewRewritten
<1> QED BY <1>2, <1>3, <1>4

\* The weeks of the slots that have come.
LEMMA SlotWeek ==
    ASSUME Typed, NEW s \in 0..now
    PROVE  iso_week_of(s) \in Weeks
<1>1. world.last \in Nat /\ now \in 0..world.last
  BY JournalAssumption DEF Typed
<1>2. s \in 0..world.last
  BY <1>1
<1> QED BY <1>2, OneWeek

\* A fire leaves every Review alone, or writes the one that is absent.
LEMMA FireKeepsTexts ==
    ASSUME Typed, Drafted, NEW f, NEW r, NEW s \in 0..now, scheduler_fired(f, r, s)
    PROVE  Drafted'
<1>1. UNCHANGED <<drafts, run, weeks>>
  BY DEF scheduler_fired, record_routine_fire, scope
<1>2. PICK w \in Weeks : w = iso_week_of(s)
  BY SlotWeek
<1>3. \/ UNCHANGED reviews
      \/ \E b : reviews' = [reviews EXCEPT ![w] = [status |-> "draft", body |-> b]]
  BY <1>2 DEF scheduler_fired, record_routine_fire, insert_weekly_review_draft_if_absent
<1>4. CASE UNCHANGED reviews
  BY <1>1, <1>4, DraftedKept DEF TextTables
<1>5. ASSUME NEW b, reviews' = [reviews EXCEPT ![w] = [status |-> "draft", body |-> b]]
      PROVE  Drafted'
  BY <1>1, <1>5, ReviewRewritten
<1> QED BY <1>3, <1>4, <1>5

\* The run is at one of its steps, each with what it has read.
LEMMA RunIs ==
    ASSUME Drafted
    PROVE  \E B : /\ run \in Run(B) /\ reviews \in [Weeks -> ReviewRow(B)]
                  /\ run.pc \in {"idle", "dedup", "read", "decide"}
                  /\ run.pc # "idle" => run.week \in Weeks /\ run.base \in B
                  /\ run.pc \in {"dedup", "read"} => run = [pc |-> run.pc, week |-> run.week, base |-> run.base]
                  /\ run.pc = "decide" =>
                        /\ run = [pc |-> "decide", week |-> run.week, base |-> run.base,
                                  draft |-> run.draft, reply |-> run.reply]
                        /\ run.draft \in B /\ run.reply \in B
<1>1. PICK B : Texted(B)
  BY DEF Drafted
<1>2. run \in Run(B) /\ reviews \in [Weeks -> ReviewRow(B)]
  BY <1>1 DEF Texted
<1>3. CASE run = Idle
  BY <1>2, <1>3 DEF Idle
<1>4. CASE run \in [pc : {"dedup", "read"}, week : Weeks, base : B]
  BY <1>2, <1>4
<1>5. CASE run \in [pc : {"decide"}, week : Weeks, base : B, draft : B, reply : B]
  BY <1>2, <1>5
<1> QED BY <1>2, <1>3, <1>4, <1>5 DEF Run

\* The steps of a run before it writes.
LEMMA RunKeepsTexts ==
    ASSUME Drafted,
           \/ \E w \in Weeks : trigger_summarize(w)
           \/ dedup_summarize \/ read_weekly_draft \/ run_ends
           \/ \E c \in world.chars : model_writes(c)
    PROVE  Drafted'
<1>1. UNCHANGED <<reviews, drafts, weeks>>
  BY DEF trigger_summarize, dedup_summarize, read_weekly_draft, run_ends, model_writes, scope
<1>2. PICK B : /\ run \in Run(B) /\ reviews \in [Weeks -> ReviewRow(B)]
               /\ run.pc # "idle" => run.week \in Weeks /\ run.base \in B
               /\ run.pc \in {"dedup", "read"} => run = [pc |-> run.pc, week |-> run.week, base |-> run.base]
               /\ run.pc = "decide" =>
                     /\ run = [pc |-> "decide", week |-> run.week, base |-> run.base,
                               draft |-> run.draft, reply |-> run.reply]
                     /\ run.draft \in B /\ run.reply \in B
  BY RunIs
<1>3. ASSUME run' = Idle PROVE Drafted'
  <2>1. run' \in Run(B) /\ run'.pc # "decide"
    BY <1>3 DEF Run, Idle
  <2> QED BY <1>1, <2>1, RunMoved
<1>4. ASSUME NEW w \in Weeks, trigger_summarize(w) PROVE Drafted'
  <2>1. run' = [pc |-> "dedup", week |-> w, base |-> reviews[w].body]
    BY <1>4 DEF trigger_summarize
  <2>2. reviews[w].body \in B
    BY <1>2 DEF ReviewRow
  <2>3. run' \in Run(B) /\ run'.pc # "decide"
    BY <2>1, <2>2 DEF Run
  <2> QED BY <1>1, <2>3, RunMoved
<1>5. CASE dedup_summarize
  <2>1. run.pc = "dedup" /\ (run' = Idle \/ run' = [run EXCEPT !.pc = "read"])
    BY <1>5 DEF dedup_summarize
  <2>2. CASE run' = [run EXCEPT !.pc = "read"]
    <3>1. run = [pc |-> "dedup", week |-> run.week, base |-> run.base]
      BY <1>2, <2>1
    <3>2. run' = [pc |-> "read", week |-> run.week, base |-> run.base]
      BY <2>2, <3>1
    <3>3. run' \in Run(B) /\ run'.pc # "decide"
      BY <1>2, <2>1, <3>2 DEF Run
    <3> QED BY <1>1, <3>3, RunMoved
  <2> QED BY <1>3, <2>1, <2>2
<1>6. CASE read_weekly_draft
  <2>1. PICK d : d = weekly_draft_on(events, run.week)
    OBVIOUS
  <2>2. run.pc = "read" /\ (run' = Idle \/
          /\ is_program_only(run.base, Candidates(d))
          /\ run' = [pc |-> "decide", week |-> run.week, base |-> run.base, draft |-> d,
                     reply |-> <<>>])
    BY <1>6, <2>1 DEF read_weekly_draft
  <2>3. CASE /\ is_program_only(run.base, Candidates(d))
             /\ run' = [pc |-> "decide", week |-> run.week, base |-> run.base, draft |-> d,
                        reply |-> <<>>]
    <3>1. run'.base = run.base /\ run.base.by \in Programs
      BY <2>3, ProgramOnly
    <3>2. run.week \in Weeks /\ run.base \in B
      BY <1>2, <2>2
    <3> DEFINE C == B \cup {d, <<>>}
    <3>3. run.base \in C /\ d \in C /\ <<>> \in C
      BY <3>2
    <3> HIDE DEF C
    <3>4. run' \in Run(C)
      BY <2>3, <3>2, <3>3 DEF Run
    <3> QED BY <1>1, <3>1, <3>4, RunMoved
  <2> QED BY <1>3, <2>2, <2>3
<1>7. ASSUME NEW c, model_writes(c) PROVE Drafted'
  <2>1. PICK p : p = Append(run.reply, c)
    OBVIOUS
  <2>2. run.pc = "decide" /\ run' = [run EXCEPT !.reply = p]
    BY <1>7, <2>1 DEF model_writes
  <2>3. /\ run = [pc |-> "decide", week |-> run.week, base |-> run.base,
                  draft |-> run.draft, reply |-> run.reply]
        /\ run.draft \in B /\ run.week \in Weeks /\ run.base \in B
    BY <1>2, <2>2
  <2>4. run' = [pc |-> "decide", week |-> run.week, base |-> run.base, draft |-> run.draft,
                reply |-> p]
    BY <2>2, <2>3
  <2> DEFINE C == B \cup {p}
  <2>5. run.base \in C /\ run.draft \in C /\ p \in C
    BY <2>3
  <2> HIDE DEF C
  <2>6. run' \in Run(C)
    BY <2>3, <2>4, <2>5 DEF Run
  <2>7. run'.base.by \in Programs
    BY <2>2, <2>4 DEF Drafted
  <2> QED BY <1>1, <2>6, <2>7, RunMoved
<1>8. CASE run_ends
  BY <1>3, <1>8 DEF run_ends
<1> QED BY <1>4, <1>5, <1>6, <1>7, <1>8

\* What a run writes is a draft of the body it was triggered on.
LEMMA SubmitKeepsTexts ==
    ASSUME Typed, Drafted, run_summarize
    PROVE  Drafted'
<1>1. UNCHANGED <<reviews, weeks>> /\ run' = Idle /\ run.pc = "decide"
  BY DEF run_summarize, scope
<1>2. PICK p : p = compose_body(run.draft, parse_summarize_reply(run.reply))
  OBVIOUS
<1>3. PICK d : d = [week |-> run.week, base |-> run.base, at |-> now, status |-> "pending", body |-> p]
  OBVIOUS
<1>4. drafts' = drafts \/ drafts' = Append(drafts, d)
  BY <1>2, <1>3 DEF run_summarize
<1>5. PICK A : Texted(A)
  BY DEF Drafted
<1>6. run.week \in Weeks /\ run.base.by \in Programs
  BY <1>1, RunIs DEF Drafted
<1>0. PICK b : b = run.base
  OBVIOUS
<1> DEFINE B == A \cup {p, b}
<1>7. Texted(B)
  BY <1>5, MoreTexts
<1>8. run.base \in B /\ p \in B
  BY <1>0
<1> HIDE DEF B
<1>9. now \in Nat
  BY JournalAssumption DEF Typed
<1>10. d \in DraftRow(B) /\ d.base = run.base
  BY <1>3, <1>6, <1>8, <1>9 DEF DraftRow
<1>11. drafts \in Seq(DraftRow(B)) /\ drafts' \in Seq(DraftRow(B))
  BY <1>4, <1>7, <1>10 DEF Texted
<1>12. \A i \in DOMAIN drafts' : drafts'[i].base.by \in Programs
  <2>1. CASE drafts' = drafts
    BY <2>1 DEF Drafted
  <2>2. CASE drafts' = Append(drafts, d)
    <3>1. \A i \in DOMAIN drafts' : (i \in DOMAIN drafts /\ drafts'[i] = drafts[i]) \/ drafts'[i] = d
      BY <1>11, <2>2
    <3> QED BY <1>6, <1>10, <3>1 DEF Drafted
  <2> QED BY <1>4, <2>1, <2>2
<1>13. run' \in Run(B) /\ run'.pc # "decide"
  BY <1>1 DEF Run, Idle
<1>14. Texted(B)'
  BY <1>1, <1>7, <1>11, <1>13, SameTextRows DEF Texted
<1>15. \A w \in Weeks' : reviews'[w].status = "absent" => reviews'[w].body = Blank
  BY <1>1 DEF Drafted, Weeks
<1> QED BY <1>12, <1>13, <1>14, <1>15 DEF Drafted, Blank

\* A draft that is there.
LEMMA DraftIs ==
    ASSUME Drafted, NEW B, Texted(B), NEW i \in DOMAIN drafts
    PROVE  /\ drafts[i] \in DraftRow(B) /\ drafts[i].week \in Weeks
           /\ drafts[i].body \in B /\ drafts[i].base.by \in Programs
<1>1. drafts \in Seq(DraftRow(B))
  BY DEF Texted
<1>2. drafts[i] \in DraftRow(B)
  BY <1>1
<1>3. drafts[i].base.by \in Programs
  BY DEF Drafted
<1> QED BY <1>2, <1>3 DEF DraftRow

\* A draft is decided.
LEMMA DraftDecided ==
    ASSUME Drafted, NEW B, Texted(B), NEW i \in DOMAIN drafts,
           NEW status \in {"pending", "accepted", "rejected"},
           drafts' = [drafts EXCEPT ![i].status = status]
    PROVE  /\ drafts' \in Seq(DraftRow(B)) /\ DOMAIN drafts' = DOMAIN drafts
           /\ \A j \in DOMAIN drafts' : drafts'[j].base.by \in Programs
<1>1. drafts \in Seq(DraftRow(B)) /\ drafts[i] \in DraftRow(B)
  BY DraftIs DEF Texted
<1>2. PICK d : d = [drafts[i] EXCEPT !.status = status]
  OBVIOUS
<1>3. d \in DraftRow(B) /\ d.base = drafts[i].base
  BY <1>1, <1>2 DEF DraftRow
<1>4. drafts' = [drafts EXCEPT ![i] = d]
  BY <1>2
<1>5. drafts' \in Seq(DraftRow(B)) /\ DOMAIN drafts' = DOMAIN drafts
  BY <1>1, <1>3, <1>4
<1>6. \A j \in DOMAIN drafts : drafts'[j] = drafts[j] \/ (drafts'[j] = d /\ j = i)
  BY <1>1, <1>4
<1> QED BY <1>3, <1>5, <1>6 DEF Drafted

\* The user's decisions on a draft.
LEMMA DecisionKeepsTexts ==
    ASSUME Drafted, NEW i \in DOMAIN drafts, apply_draft(i) \/ reject_draft(i)
    PROVE  Drafted'
<1>1. PICK B : Texted(B)
  BY DEF Drafted
<1>2. UNCHANGED <<run, weeks>>
  BY DEF apply_draft, reject_draft, scope
<1>3. /\ drafts' \in Seq(DraftRow(B))
      /\ \A j \in DOMAIN drafts' : drafts'[j].base.by \in Programs
  <2>1. \/ drafts' = [drafts EXCEPT ![i].status = "accepted"]
        \/ drafts' = [drafts EXCEPT ![i].status = "rejected"]
    BY DEF apply_draft, reject_draft
  <2>2. "accepted" \in {"pending", "accepted", "rejected"} /\ "rejected" \in {"pending", "accepted", "rejected"}
    OBVIOUS
  <2> QED BY <1>1, <2>1, <2>2, DraftDecided
<1>4. PICK w \in Weeks : w = drafts[i].week /\ drafts[i].body \in B
  BY <1>1, DraftIs
<1>5. /\ reviews' \in [Weeks -> ReviewRow(B)]
      /\ \A v \in Weeks : reviews'[v].status = "absent" => reviews'[v].body = Blank
  <2>0. reviews \in [Weeks -> ReviewRow(B)]
    BY <1>1 DEF Texted
  <2>1. CASE UNCHANGED reviews
    BY <2>0, <2>1 DEF Drafted
  <2>2. CASE apply_draft(i)
    <3>1. reviews[w].status = "draft" /\ reviews' = [reviews EXCEPT ![w].body = drafts[i].body]
      BY <1>4, <2>2 DEF apply_draft, StillApplies
    <3>2. PICK p : p = [status |-> "draft", body |-> drafts[i].body]
      OBVIOUS
    <3>3. reviews' = [reviews EXCEPT ![w] = p]
      <4>1. PICK b : b = drafts[i].body
        OBVIOUS
      <4>2. [reviews EXCEPT ![w].body = b]
            = [reviews EXCEPT ![w] = [status |-> reviews[w].status, body |-> b]]
        BY ReviewIs
      <4> QED BY <3>1, <3>2, <4>1, <4>2
    <3>4. p \in ReviewRow(B) /\ p.status # "absent"
      BY <1>4, <3>2 DEF ReviewRow
    <3>5. reviews' \in [Weeks -> ReviewRow(B)]
      BY <2>0, <3>3, <3>4
    <3>6. \A v \in Weeks : reviews'[v] = reviews[v] \/ reviews'[v] = p
      BY <2>0, <3>3
    <3> QED BY <3>4, <3>5, <3>6 DEF Drafted
  <2> QED BY <2>1, <2>2 DEF reject_draft
<1>6. Weeks' = Weeks
  BY <1>2 DEF Weeks
<1>7. Texted(B)'
  BY <1>1, <1>2, <1>3, <1>5, SameTextRows DEF Texted
<1>8. run'.pc = "decide" => run'.base.by \in Programs
  BY <1>2 DEF Drafted
<1> QED BY <1>3, <1>5, <1>6, <1>7, <1>8 DEF Drafted, Blank

JournalInv == LedgerInv /\ Drafted

\* Every step keeps the texts.
LEMMA TextsKept ==
    ASSUME JournalInv, [Next]_vars
    PROVE  Drafted'
<1> USE DEF JournalInv, LedgerInv
<1>1. CASE UNCHANGED vars
  BY <1>1, DraftedKept DEF vars, reflect, scope, TextTables
<1>2. CASE Tick
  BY <1>2, DraftedKept DEF Tick, reflect, scope, TextTables
<1>3. CASE Writes
  <2>1. UNCHANGED <<reflect, scope>>
    BY <1>3 DEF Writes, create_direction, create_task, apply_create_tasks, InsertTask, transition_task,
                apply_assign_task_direction, create_block, transition_block, transition_routine
  <2> QED BY <2>1, DraftedKept DEF reflect, scope, TextTables
<1>4. CASE Fires
  BY <1>4, FireKeepsTexts DEF Fires
<1>5. CASE Human
  <2>1. ASSUME NEW w \in Weeks, create_review(w) \/ finalize_review(w) PROVE Drafted'
    BY <2>1, EditKeepsTexts
  <2>2. ASSUME NEW w \in Weeks, NEW body, update_review_body(w, body) PROVE Drafted'
    BY <2>2, EditKeepsTexts
  <2>3. ASSUME NEW i \in DOMAIN drafts, apply_draft(i) \/ reject_draft(i) PROVE Drafted'
    BY <2>3, DecisionKeepsTexts
  <2> QED BY <1>5, <2>1, <2>2, <2>3 DEF Human
<1>6. CASE Summarize
  BY <1>6, RunKeepsTexts, SubmitKeepsTexts DEF Summarize
<1>7. CASE attention_apply_new_events \/ attention_rebuild
  BY <1>7, DraftedKept DEF attention_apply_new_events, attention_rebuild, reflect, scope, TextTables
<1> QED BY <1>1, <1>2, <1>3, <1>4, <1>5, <1>6, <1>7 DEF Next
-----------------------------------------------------------------------------
(* The start, and every step *)

\* A sum of zeros.
LEMMA SumZeros ==
    ASSUME NEW S, IsFiniteSet(S)
    PROVE  SumFunction([x \in S |-> 0]) = 0
<1> DEFINE T == {n \in Nat : \A s \in SUBSET S : Cardinality(s) = n => SumFunction([x \in s |-> 0]) = 0}
<1>0. \A s \in SUBSET S : IsFiniteSet(s) /\ Cardinality(s) \in Nat
  BY FS_Subset, FS_CardinalityType
<1>1. 0 \in T
  <2> SUFFICES ASSUME NEW s \in SUBSET S, Cardinality(s) = 0
               PROVE  SumFunction([x \in s |-> 0]) = 0
    OBVIOUS
  <2>1. s = {}
    BY <1>0, FS_EmptySet
  <2>2. PICK f : f = [x \in s |-> 0]
    OBVIOUS
  <2>3. DOMAIN f = {}
    BY <2>1, <2>2
  <2> QED BY <2>2, <2>3, SumNone
<1>2. ASSUME NEW n \in Nat, n \in T PROVE n + 1 \in T
  <2> SUFFICES ASSUME NEW s \in SUBSET S, Cardinality(s) = n + 1
               PROVE  SumFunction([x \in s |-> 0]) = 0
    OBVIOUS
  <2>1. s # {}
    BY <1>0, FS_EmptySet
  <2>2. PICK c : c \in s
    BY <2>1
  <2>3. PICK r : r = s \ {c}
    OBVIOUS
  <2>4. Cardinality(r) = n /\ IsFiniteSet(r) /\ r \in SUBSET S /\ c \notin r /\ s = r \cup {c}
    <3>1. IsFiniteSet(s \ {c}) /\ Cardinality(s \ {c}) \in Nat /\ Cardinality(s) = Cardinality(s \ {c}) + 1
      BY <1>0, <2>2, OneLess
    <3> QED BY <2>2, <2>3, <3>1
  <2>5. SumFunction([x \in r |-> 0]) = 0
    BY <1>2, <2>4
  <2>6. PICK f : f = [x \in r |-> 0]
    OBVIOUS
  <2>7. PICK h : h = [x \in s |-> 0]
    OBVIOUS
  <2>8. f \in [r -> Nat] /\ h \in [r \cup {c} -> Nat]
    BY <2>2, <2>4, <2>6, <2>7
  <2>11. (\A y \in r : h[y] = f[y]) /\ h[c] = 0
    BY <2>2, <2>4, <2>6, <2>7
  <2>10. IsFiniteSet(r) /\ c \notin r
    BY <2>4
  <2> HIDE DEF T
  <2>9. SumFunction(h) = SumFunction(f) + h[c]
    <3>1. \A y \in r : h[y] = f[y]
      BY <2>11
    <3> QED BY ONLY <2>8, <3>1, <2>10, SumMore
  <2> QED BY <2>5, <2>6, <2>7, <2>9, <2>11
<1> HIDE DEF T
<1>3. Nat \subseteq T
  BY <1>1, <1>2, Replay!NatSetInduction
<1> QED BY <1>0, <1>3 DEF T

\* At the start the tables are empty, and every account of them is zero.
LEMMA JournalInit == Init => JournalInv
<1> SUFFICES ASSUME Init PROVE JournalInv
  OBVIOUS
<1>0. events = <<>> /\ directions = <<>> /\ tasks = <<>> /\ blocks = <<>> /\ daily = <<>> /\ watermark = 0
  BY DEF Init
<1>1. Typed
  <2>1. world \in Worlds /\ now \in 0..world.last
    BY JournalAssumption DEF Init
  <2>2. events \in Seq({}) /\ directions \in Seq({}) /\ tasks \in Seq(Task) /\ blocks \in Seq(Block)
    BY <1>0
  <2>3. watermark \in 0..Len(events)
    BY <1>0
  <2> QED BY <2>1, <2>2, <2>3 DEF Typed, Init
<1>2. Logged
  BY <1>0 DEF Logged
<1>3. Delivered
  <2>1. routines \in [Routines -> RoutineStatus]
    BY DEF Init, RoutineStatus
  <2>2. fires \in [FireIds -> [routine : Routines, received_at : Nat] \cup {None}]
        /\ \A f \in FireIds : fires[f] = None
    BY DEF Init
  <2> QED BY <1>0, <2>1, <2>2 DEF Delivered
<1>4. DaysAgree
  <2>1. SubSeq(events, 1, watermark) = <<>>
    BY <1>0
  <2>2. Replay!Folded(<<>>, <<>>, world) = <<>>
    BY Replay!FoldNil
  <2> QED BY <1>0, <2>1, <2>2, ReplayIs DEF DaysAgree
<1>5. \A es : MinutesAt(es, {}) = 0 /\ BlockMinutes(es, {}) = 0
  <2> SUFFICES ASSUME NEW es PROVE MinutesAt(es, {}) = 0 /\ BlockMinutes(es, {}) = 0
    OBVIOUS
  <2>1. PICK f : f = [i \in {} |-> es[i].payload.minutes]
    OBVIOUS
  <2>2. PICK g : g = [b \in {} |-> es[b].minutes]
    OBVIOUS
  <2>3. DOMAIN f = {} /\ DOMAIN g = {}
    BY <2>1, <2>2
  <2> QED BY <2>1, <2>2, <2>3, SumNone DEF MinutesAt, BlockMinutes
<1>6. WeeksHold
  <2>1. \A w : WeekSeqs(w) = {} /\ WeekBlocks(w) = {}
    BY <1>0 DEF WeekSeqs, WeekBlocks
  <2> QED BY <1>5, <2>1 DEF WeeksHold
<1>7. AreasHold
  <2>1. \A w, a : AreaSeqs(w, a) = {} /\ AreaBlocks(a) = {}
    BY <1>0 DEF AreaSeqs, AreaBlocks, CompletedIn
  <2>2. \A w, a : AreaMinutes(w, a) = 0
    BY <1>5, <2>1 DEF AreaMinutes
  <2>3. \A a : [w \in Weeks |-> AreaMinutes(w, a)] = [w \in Weeks |-> 0]
    BY <2>2
  <2>4. SumFunction([w \in Weeks |-> 0]) = 0
    BY <1>1, SumZeros, WeeksAreFinite
  <2> QED BY <1>5, <2>1, <2>3, <2>4 DEF AreasHold
<1>8. Drafted
  <2> DEFINE B == {Blank}
  <2>1. reviews = [w \in Weeks |-> NoReview] /\ drafts = <<>> /\ run = Idle
    BY DEF Init, Weeks
  <2>2. NoReview \in ReviewRow(B) /\ NoReview.body = Blank
    BY DEF NoReview, ReviewRow
  <2> HIDE DEF B
  <2>3. Texted(B)
    BY <2>1, <2>2 DEF Texted, Run
  <2>4. run.pc # "decide"
    BY <2>1 DEF Idle
  <2> QED BY <2>1, <2>2, <2>3, <2>4 DEF Drafted
<1> QED BY <1>1, <1>2, <1>3, <1>4, <1>6, <1>7, <1>8 DEF JournalInv, LedgerInv

\* Every step keeps the accounts.
LEMMA LedgerKept ==
    ASSUME LedgerInv, [Next]_vars
    PROVE  LedgerInv'
<1>1. CASE UNCHANGED vars
  <2>1. UNCHANGED Ledger /\ UNCHANGED events /\ now' = now
    BY <1>1 DEF vars, Ledger, log
  <2> QED BY <2>1, SilentKeeps DEF LedgerInv, Typed
<1>2. CASE Writes
  <2>1. ASSUME NEW a, create_direction(a) PROVE LedgerInv'
    BY <2>1, CreateDirectionKeeps
  <2>2. ASSUME NEW d \in Ids(directions), NEW t \in Ids(tasks), NEW m \in Minutes, create_block(d, t, m)
        PROVE  LedgerInv'
    BY <2>2, CreateBlockKeeps
  <2>3. ASSUME NEW b \in DOMAIN blocks, NEW to \in ScheduleBlockStatus, transition_block(b, to)
        PROVE  LedgerInv'
    BY <2>3, TransitionBlockKeeps
  <2>4. ASSUME NEW r \in Routines, NEW to \in RoutineStatus, transition_routine(r, to)
        PROVE  LedgerInv'
    BY <2>4, TransitionRoutineKeeps
  <2> QED BY <1>2, <2>1, <2>2, <2>3, <2>4, TasksKeep DEF Writes
<1>3. CASE Fires
  BY <1>3, FireKeeps DEF Fires
<1> QED BY <1>1, <1>2, <1>3, TickKeeps, HumanKeeps, SummarizeKeeps, AttentionKeeps DEF Next
-----------------------------------------------------------------------------
(* Theorems *)

\* The accounts of attention, of the fires and of the texts hold together in
\* every state: whatever the clock, the kernel's deliveries, the user, a
\* summarize run and an apply or a rebuild of the view do to each other.
THEOREM JournalInvariant == Spec => []JournalInv
<1>1. JournalInv /\ [Next]_vars => JournalInv'
  BY LedgerKept, TextsKept DEF JournalInv
<1> QED BY <1>1, JournalInit, PTL DEF Spec

\* Three accounts of the same minutes agree (AttentionAgrees), in every state and
\* for every number of blocks, weeks, days and zones.
THEOREM AttentionHolds == Spec => []AttentionAgrees
<1>1. JournalInv => AttentionAgrees
  BY AreasAre, WeeksAre DEF JournalInv, LedgerInv, AttentionAgrees
<1> QED BY <1>1, JournalInvariant, PTL

\* The kernel delivers at least once, the log records once (FiredOnce).
THEOREM FiresRecordedOnce == Spec => []FiredOnce
<1>1. ASSUME JournalInv PROVE FiredOnce
  <2>0. Delivered
    BY <1>1 DEF JournalInv, LedgerInv
  <2>1. ASSUME NEW f \in FireIds
        PROVE  LET mine == {i \in DOMAIN events : FiredAt(i) /\ events[i].payload.fire = f}
               IN  IF fires[f] = None THEN mine = {}
                   ELSE Cardinality(mine) = 1 /\ \A i \in mine : events[i].id = fires[f].routine
    <3> DEFINE mine == {i \in DOMAIN events : FiredAt(i) /\ events[i].payload.fire = f}
    <3>1. CASE fires[f] = None
      <4>1. mine = {}
        BY <2>0, <3>1 DEF Delivered, FiredAt, Fired
      <4> QED BY <3>1, <4>1
    <3>2. CASE fires[f] # None
      <4>1. PICK i \in DOMAIN events :
               /\ Fired(events[i]) /\ events[i].payload.fire = f /\ events[i].id = fires[f].routine
               /\ \A j \in DOMAIN events : Fired(events[j]) /\ events[j].payload.fire = f => j = i
        BY <2>0, <3>2 DEF Delivered
      <4>2. mine = {i}
        BY <4>1 DEF FiredAt, Fired
      <4>3. Cardinality(mine) = 1
        BY <4>2, FS_Singleton
      <4> QED BY <3>2, <4>1, <4>2, <4>3
    <3> QED BY <3>1, <3>2
  <2>2. \A i, j \in DOMAIN events :
          FiredAt(j) /\ events[i].entity = "routine" /\ events[i].kind = "retired"
          /\ events[i].id = events[j].id => j < i
    BY <2>0 DEF Delivered, FiredAt, Fired, Retired
  <2> QED BY <2>1, <2>2 DEF FiredOnce
<1> QED BY <1>1, JournalInvariant, PTL

\* The text of a person is not replaced by the program (HumanTextKept): a fire
\* writes an absent Review only, and an accepted draft rewrites the body it was
\* made from, which the run found to be the program's own.
THEOREM TextIsKept == Spec => HumanTextKept
<1>1. ASSUME JournalInv, [Next]_vars
      PROVE  \A w \in Weeks : reviews'[w].body # reviews[w].body =>
               /\ reviews[w].status # "finalized"
               /\ \/ reviews[w].body.by \in {"nobody", "routine", "facts"}
                  \/ drafts' = drafts /\ fires' = fires
  <2> SUFFICES ASSUME NEW w \in Weeks, reviews'[w].body # reviews[w].body
               PROVE  /\ reviews[w].status # "finalized"
                      /\ \/ reviews[w].body.by \in {"nobody", "routine", "facts"}
                         \/ drafts' = drafts /\ fires' = fires
    OBVIOUS
  <2>0. Typed /\ Drafted
    BY <1>1 DEF JournalInv, LedgerInv
  <2>1. PICK B : Texted(B) /\ reviews \in [Weeks -> ReviewRow(B)]
    BY <2>0 DEF Drafted, Texted
  <2>2. Next /\ reviews' # reviews
    BY <1>1 DEF vars, reflect
  <2>3. ~Tick /\ ~Writes /\ ~Summarize /\ ~attention_apply_new_events /\ ~attention_rebuild
    BY <2>2 DEF Tick, Writes, create_direction, create_task, apply_create_tasks, InsertTask,
                transition_task, apply_assign_task_direction, create_block, transition_block,
                transition_routine, Summarize, trigger_summarize, dedup_summarize,
                read_weekly_draft, run_summarize, run_ends, model_writes,
                attention_apply_new_events, attention_rebuild, reflect
  <2>4. ASSUME NEW v \in Weeks, NEW row, reviews' = [reviews EXCEPT ![v] = row]
        PROVE  v = w /\ reviews'[v] = row
    BY <2>1, <2>4
  <2>5. ASSUME NEW v \in Weeks, create_review(v)
        PROVE  FALSE
    <3>1. v = w /\ reviews'[w] = [status |-> "draft", body |-> Blank]
      BY <2>4, <2>5 DEF create_review
    <3>2. reviews[w].body = Blank
      BY <2>0, <2>5, <3>1 DEF create_review, Drafted
    <3> QED BY <3>1, <3>2
  <2>6. ASSUME NEW v \in Weeks, finalize_review(v)
        PROVE  FALSE
    <3>1. reviews' = [reviews EXCEPT ![v] = [status |-> "finalized", body |-> reviews[v].body]]
      BY <2>0, <2>6, ReviewIs DEF finalize_review
    <3>2. v = w /\ reviews'[w] = [status |-> "finalized", body |-> reviews[v].body]
      BY <2>4, <3>1
    <3> QED BY <3>2
  <2>7. ASSUME NEW v \in Weeks, NEW body, update_review_body(v, body)
        PROVE  reviews[w].status = "draft" /\ drafts' = drafts /\ fires' = fires
    <3>1. reviews' = [reviews EXCEPT ![v] = [status |-> reviews[v].status, body |-> body]]
      BY <2>0, <2>7, ReviewIs DEF update_review_body
    <3> QED BY <2>4, <2>7, <3>1 DEF update_review_body
  <2>8. ASSUME NEW i \in DOMAIN drafts, apply_draft(i)
        PROVE  reviews[w].status = "draft" /\ reviews[w].body.by \in Programs
    <3>1. PICK v \in Weeks : v = drafts[i].week /\ drafts[i].base.by \in Programs
      BY <2>0, <2>1, DraftIs
    <3>2. reviews' = [reviews EXCEPT ![v] = [status |-> reviews[v].status, body |-> drafts[i].body]]
      BY <2>0, <2>8, <3>1, ReviewIs DEF apply_draft
    <3>3. v = w
      BY <2>4, <3>2
    <3> QED BY <2>8, <3>1, <3>3 DEF apply_draft, StillApplies
  <2>9. ASSUME NEW i, reject_draft(i) PROVE FALSE
    BY <2>2, <2>9 DEF reject_draft
  <2>10. ASSUME NEW f, NEW r, NEW s \in 0..now, scheduler_fired(f, r, s)
         PROVE  reviews[w].status = "absent" /\ reviews[w].body.by \in Programs
    <3>1. PICK v \in Weeks : v = iso_week_of(s)
      BY <2>0, SlotWeek
    <3>2. reviews[v].status = "absent" /\ \E row : reviews' = [reviews EXCEPT ![v] = row]
      BY <2>2, <2>10, <3>1 DEF scheduler_fired, record_routine_fire, insert_weekly_review_draft_if_absent
    <3>3. v = w
      BY <2>4, <3>2
    <3>4. reviews[w].body = Blank
      BY <2>0, <3>2, <3>3 DEF Drafted
    <3> QED BY <3>2, <3>3, <3>4 DEF Blank, Programs
  <2>11. CASE Human
    <3>1. ASSUME NEW v \in Weeks, create_review(v) \/ finalize_review(v) PROVE FALSE
      BY <3>1, <2>5, <2>6
    <3>2. \/ \E v \in Weeks, body \in Texts \cup {Blank} : update_review_body(v, body)
          \/ \E i \in DOMAIN drafts : apply_draft(i)
      BY <2>9, <2>11, <3>1 DEF Human
    <3>3. reviews[w].status = "draft" /\ (reviews[w].body.by \in Programs \/ (drafts' = drafts /\ fires' = fires))
      BY <2>7, <2>8, <3>2
    <3> QED BY <3>3 DEF Programs
  <2>12. CASE Fires
    <3>1. reviews[w].status = "absent" /\ reviews[w].body.by \in Programs
      BY <2>10, <2>12 DEF Fires
    <3> QED BY <3>1 DEF Programs
  <2> QED BY <2>2, <2>3, <2>11, <2>12 DEF Next
<1> QED BY <1>1, JournalInvariant, PTL DEF Spec, HumanTextKept

\* The tail that a draft does not read.
Beside(fs, es) ==
    /\ DOMAIN es \subseteq DOMAIN fs
    /\ \A i \in DOMAIN es : fs[i] = es[i]
    /\ \A i \in DOMAIN fs \ DOMAIN es : fs[i].entity = "review"

\* A group's minutes are the same in both logs.
LEMMA GroupsSame ==
    ASSUME NEW fs, NEW es, NEW seqs, \A i \in seqs : fs[i] = es[i], NEW key(_)
    PROVE  MinutesBy(fs, seqs, key) = MinutesBy(es, seqs, key)
<1>1. {key(fs[i]) : i \in seqs} = {key(es[i]) : i \in seqs}
  OBVIOUS
<1>2. ASSUME NEW k
      PROVE  MinutesAt(fs, {i \in seqs : key(fs[i]) = k}) = MinutesAt(es, {i \in seqs : key(es[i]) = k})
  <2>1. {i \in seqs : key(fs[i]) = k} = {i \in seqs : key(es[i]) = k}
    OBVIOUS
  <2>2. PICK T : T = {i \in seqs : key(es[i]) = k}
    OBVIOUS
  <2>3. \A i \in T : fs[i] = es[i]
    BY <2>2
  <2>4. MinutesAt(fs, T) = MinutesAt(es, T)
    BY <2>3, MinutesSame
  <2> QED BY <2>1, <2>2, <2>4
<1> QED BY <1>1, <1>2 DEF MinutesBy

\* An event of a Review changes no number of the weekly draft.
LEMMA DraftSame ==
    ASSUME NEW fs, NEW es, Beside(fs, es), NEW w
    PROVE  weekly_draft_on(fs, w) = weekly_draft_on(es, w)
<1> DEFINE seqs == CompletedIn(es, weeks[w])
<1>1. /\ DOMAIN es \subseteq DOMAIN fs /\ \A i \in DOMAIN es : fs[i] = es[i]
      /\ \A i \in DOMAIN fs \ DOMAIN es : fs[i].entity = "review"
  BY DEF Beside
<1>2. CompletedIn(fs, weeks[w]) = seqs
  BY <1>1 DEF CompletedIn, Completed
<1>3. \A i \in seqs : fs[i] = es[i]
  BY <1>1 DEF CompletedIn
<1>4. attention_on(fs, w) = attention_on(es, w)
  <2>1. PICK T : T = seqs
    OBVIOUS
  <2>2. MinutesBy(fs, T, LAMBDA e : e.payload.direction) = MinutesBy(es, T, LAMBDA e : e.payload.direction)
    <3>1. \A i \in T : fs[i] = es[i]
      BY <1>3, <2>1
    <3> HIDE DEF seqs
    <3> QED BY <3>1, GroupsSame
  <2> QED BY <1>2, <2>1, <2>2 DEF attention_on
<1>5. direction_area_snapshot_on(fs) = direction_area_snapshot_on(es)
  <2> DEFINE created(s) == {i \in DOMAIN s : s[i].entity = "direction" /\ s[i].kind = "created"}
  <2>1. created(fs) = created(es)
    BY <1>1
  <2>2. PICK C : C = created(es)
    OBVIOUS
  <2>3. \A i \in C : fs[i] = es[i]
    BY <1>1, <2>2
  <2>4. direction_area_snapshot_on(fs)
        = [d \in {fs[i].id : i \in C} |-> fs[CHOOSE i \in C : fs[i].id = d].payload.area]
    <3>1. direction_area_snapshot_on(fs)
          = [d \in {fs[i].id : i \in created(fs)} |->
                fs[CHOOSE i \in created(fs) : fs[i].id = d].payload.area]
      BY DEF direction_area_snapshot_on
    <3>2. created(fs) = C
      BY <2>1, <2>2
    <3> HIDE DEF created
    <3> QED BY <3>1, <3>2
  <2>5. direction_area_snapshot_on(es)
        = [d \in {es[i].id : i \in C} |-> es[CHOOSE i \in C : es[i].id = d].payload.area]
    BY <2>2 DEF direction_area_snapshot_on
  <2> HIDE DEF created
  <2>6. {fs[i].id : i \in C} = {es[i].id : i \in C}
    BY <2>3
  <2>7. ASSUME NEW d \in {es[i].id : i \in C}
        PROVE  fs[CHOOSE i \in C : fs[i].id = d] = es[CHOOSE i \in C : es[i].id = d]
    <3>1. \A i : (i \in C /\ fs[i].id = d) <=> (i \in C /\ es[i].id = d)
      BY <2>3
    <3>2. (CHOOSE i : i \in C /\ fs[i].id = d) = (CHOOSE i : i \in C /\ es[i].id = d)
      BY <3>1
    <3>3. (CHOOSE i \in C : fs[i].id = d) = (CHOOSE i \in C : es[i].id = d)
      BY <3>2
    <3>4. (CHOOSE i \in C : es[i].id = d) \in C
      BY <2>7
    <3> QED BY <2>3, <3>3, <3>4
  <2> DEFINE new(d) == fs[CHOOSE i \in C : fs[i].id = d].payload.area
  <2> DEFINE old(d) == es[CHOOSE i \in C : es[i].id = d].payload.area
  <2>8. \A d \in {es[i].id : i \in C} : new(d) = old(d)
    BY <2>7
  <2>9. [d \in {fs[i].id : i \in C} |-> new(d)] = [d \in {es[i].id : i \in C} |-> old(d)]
    <3> HIDE DEF new, old
    <3> QED BY <2>6, <2>8
  <2> QED BY <2>4, <2>5, <2>9
<1>6. by_area(fs, w) = by_area(es, w)
  <2>1. PICK T : T = seqs
    OBVIOUS
  <2>2. PICK area_of : area_of = direction_area_snapshot_on(es)
    OBVIOUS
  <2> DEFINE key(e) == IF e.payload.direction \in DOMAIN area_of
                       THEN area_of[e.payload.direction] ELSE None
  <2>3. \A i \in T : fs[i] = es[i]
    BY <1>3, <2>1
  <2>4. MinutesBy(fs, T, key) = MinutesBy(es, T, key)
    <3> HIDE DEF seqs, key
    <3> QED BY <2>3, GroupsSame
  <2> QED BY <1>2, <1>5, <2>1, <2>2, <2>4 DEF by_area
<1>7. tasks_done(fs, w) = tasks_done(es, w)
  <2>1. {i \in DOMAIN fs : /\ fs[i].entity = "task" /\ fs[i].kind = "transitioned"
                           /\ fs[i].to = "done" /\ InWeek(fs[i], weeks[w])}
        = {i \in DOMAIN es : /\ es[i].entity = "task" /\ es[i].kind = "transitioned"
                             /\ es[i].to = "done" /\ InWeek(es[i], weeks[w])}
    BY <1>1
  <2> QED BY <2>1 DEF tasks_done
<1>8. RoutinesFired(fs, w) = RoutinesFired(es, w)
  <2> DEFINE fired(s) == {i \in DOMAIN s : /\ s[i].entity = "routine" /\ s[i].kind = "fired"
                                           /\ InWeek(s[i], weeks[w])}
  <2>1. PICK F : F = fired(es)
    OBVIOUS
  <2>2. fired(fs) = F /\ \A i \in F : fs[i] = es[i]
    BY <1>1, <2>1
  <2>3. RoutinesFired(fs, w) = [r \in {fs[i].id : i \in F} |-> Cardinality({i \in F : fs[i].id = r})]
    BY <2>2 DEF RoutinesFired
  <2>4. RoutinesFired(es, w) = [r \in {es[i].id : i \in F} |-> Cardinality({i \in F : es[i].id = r})]
    BY <2>1 DEF RoutinesFired
  <2> HIDE DEF fired
  <2>5. {fs[i].id : i \in F} = {es[i].id : i \in F}
    BY <2>2
  <2>6. \A r : {i \in F : fs[i].id = r} = {i \in F : es[i].id = r}
    BY <2>2
  <2> QED BY <2>3, <2>4, <2>5, <2>6
<1> QED BY <1>4, <1>6, <1>7, <1>8 DEF weekly_draft_on

\* A Review that a fire creates is one summarize may rewrite
\* (AutoDraftIsRewritable): it is rendered from the log with the fire's own
\* event in it, and the event of the Review itself changes no number.
THEOREM AutoDraftStaysRewritable == Spec => AutoDraftIsRewritable
<1>1. ASSUME JournalInv, [Next]_vars
      PROVE  \A w \in Weeks :
               reviews[w].status = "absent" /\ reviews'[w].status = "draft"
               => is_program_only(reviews'[w].body, Candidates(weekly_draft_on(events', w)))
  <2> SUFFICES ASSUME NEW w \in Weeks, reviews[w].status = "absent", reviews'[w].status = "draft"
               PROVE  is_program_only(reviews'[w].body, Candidates(weekly_draft_on(events', w)))
    OBVIOUS
  <2>0. Typed /\ Drafted
    BY <1>1 DEF JournalInv, LedgerInv
  <2>1. PICK B : Texted(B) /\ reviews \in [Weeks -> ReviewRow(B)]
    BY <2>0 DEF Drafted, Texted
  <2>2. Next /\ reviews' # reviews
    BY <1>1 DEF vars, reflect
  <2>3. ~Tick /\ ~Writes /\ ~Summarize /\ ~attention_apply_new_events /\ ~attention_rebuild
    BY <2>2 DEF Tick, Writes, create_direction, create_task, apply_create_tasks, InsertTask,
                transition_task, apply_assign_task_direction, create_block, transition_block,
                transition_routine, Summarize, trigger_summarize, dedup_summarize,
                read_weekly_draft, run_summarize, run_ends, model_writes,
                attention_apply_new_events, attention_rebuild, reflect
  <2>4. ASSUME NEW v \in Weeks, NEW row, reviews' = [reviews EXCEPT ![v] = row]
        PROVE  v = w /\ reviews'[w] = row
    BY <2>1, <2>4
  <2>5. ASSUME NEW v \in Weeks, create_review(v)
        PROVE  reviews'[w].body = Blank
    <3>1. reviews'[w] = [status |-> "draft", body |-> Blank]
      BY <2>4, <2>5 DEF create_review
    <3> QED BY <3>1
  <2>6. ASSUME NEW v \in Weeks, finalize_review(v)
        PROVE  FALSE
    <3>1. reviews' = [reviews EXCEPT ![v] = [status |-> "finalized", body |-> reviews[v].body]]
      BY <2>0, <2>6, ReviewIs DEF finalize_review
    <3> QED BY <2>4, <2>6, <3>1 DEF finalize_review
  <2>7. ASSUME NEW v \in Weeks, NEW body, update_review_body(v, body)
        PROVE  FALSE
    <3>1. reviews' = [reviews EXCEPT ![v] = [status |-> reviews[v].status, body |-> body]]
      BY <2>0, <2>7, ReviewIs DEF update_review_body
    <3> QED BY <2>4, <2>7, <3>1 DEF update_review_body
  <2>8. ASSUME NEW i \in DOMAIN drafts, apply_draft(i)
        PROVE  FALSE
    <3>1. PICK v \in Weeks : v = drafts[i].week
      BY <2>0, <2>1, DraftIs
    <3>2. reviews' = [reviews EXCEPT ![v] = [status |-> reviews[v].status, body |-> drafts[i].body]]
      BY <2>0, <2>8, <3>1, ReviewIs DEF apply_draft
    <3>3. v = w
      BY <2>4, <3>2
    <3> QED BY <2>8, <3>1, <3>3 DEF apply_draft, StillApplies
  <2>9. ASSUME NEW i, reject_draft(i) PROVE FALSE
    BY <2>2, <2>9 DEF reject_draft
  <2>10. ASSUME NEW f, NEW r, NEW s \in 0..now, scheduler_fired(f, r, s)
         PROVE  reviews'[w].body = render_weekly_draft_markdown(weekly_draft_on(events', w))
    <3>1. PICK v \in Weeks : v = iso_week_of(s)
      BY <2>0, SlotWeek
    <3>2. PICK fired : fired = append_event("routine", r, "fired", None, [fire |-> f])
      OBVIOUS
    <3>3. PICK e : e = Event("review", v, "created", "draft", <<>>)
      OBVIOUS
    <3>4. PICK body : body = render_weekly_draft_markdown(weekly_draft_on(fired, v))
      OBVIOUS
    <3>5. /\ events' = Append(fired, e)
          /\ reviews' = [reviews EXCEPT ![v] = [status |-> "draft", body |-> body]]
      BY <2>2, <2>10, <3>1, <3>2, <3>3, <3>4
         DEF scheduler_fired, record_routine_fire, insert_weekly_review_draft_if_absent, RenderedFrom
    <3>6. v = w /\ reviews'[w].body = body
      <4>1. v = w /\ reviews'[w] = [status |-> "draft", body |-> body]
        BY <2>4, <3>5
      <4> QED BY <4>1
    <3>7. e.entity = "review"
      BY <3>3, EventIs
    <3>8. \E S : fired \in Seq(S)
      <4>1. PICK S : events \in Seq(S)
        BY <2>0 DEF Typed
      <4>2. PICK g : g = Event("routine", r, "fired", None, [fire |-> f])
        OBVIOUS
      <4>3. fired = Append(events, g)
        BY <3>2, <4>2 DEF append_event
      <4> QED BY <4>1, <4>3, AppendIs
    <3>9. Beside(events', fired)
      BY <3>5, <3>7, <3>8, AppendIs DEF Beside
    <3>10. weekly_draft_on(events', w) = weekly_draft_on(fired, w)
      BY <3>9, DraftSame
    <3> QED BY <3>4, <3>6, <3>10
  <2>11. CASE Human
    <3>1. ASSUME NEW v \in Weeks, create_review(v) \/ finalize_review(v)
          PROVE  reviews'[w].body = Blank
      BY <3>1, <2>5, <2>6
    <3>2. reviews'[w].body = Blank
      BY <2>7, <2>8, <2>9, <2>11, <3>1 DEF Human
    <3> QED BY <3>2 DEF is_program_only
  <2>12. CASE Fires
    <3>1. reviews'[w].body = render_weekly_draft_markdown(weekly_draft_on(events', w))
      BY <2>10, <2>12 DEF Fires
    <3> QED BY <3>1 DEF is_program_only, Candidates
  <2> QED BY <2>2, <2>3, <2>11, <2>12 DEF Next
<1> QED BY <1>1, JournalInvariant, PTL DEF Spec, AutoDraftIsRewritable
-----------------------------------------------------------------------------
(* What the queries of Today return *)

\* R orders the members of S, each against each.
Orders(R, S) ==
    /\ \A x \in S : <<x, x>> \notin R
    /\ \A x, y \in S : x = y \/ <<x, y>> \in R \/ <<y, x>> \in R
    /\ \A x, y, z \in S : <<x, y>> \in R /\ <<y, z>> \in R => <<x, z>> \in R

\* How many of S come before x.
Ahead(R, S, x) == Cardinality({y \in S : <<y, x>> \in R})

\* As many come before a member as its place says, and each place is taken.
LEMMA Places ==
    ASSUME NEW S, IsFiniteSet(S), NEW R, Orders(R, S)
    PROVE  /\ \A x \in S : Ahead(R, S, x) \in 0..(Cardinality(S) - 1)
           /\ \A x, y \in S : <<x, y>> \in R <=> Ahead(R, S, x) < Ahead(R, S, y)
           /\ \A x, y \in S : Ahead(R, S, x) = Ahead(R, S, y) => x = y
           /\ \A k \in 1..Cardinality(S) : \E x \in S : Ahead(R, S, x) = k - 1
<1> DEFINE n == Cardinality(S)
<1> DEFINE B(x) == {y \in S : <<y, x>> \in R}
<1>0. n \in Nat
  BY FS_CardinalityType
<1>1. \A x \in S : IsFiniteSet(B(x)) /\ Cardinality(B(x)) \in Nat /\ Ahead(R, S, x) = Cardinality(B(x))
  BY FS_Subset, FS_CardinalityType DEF Ahead
<1>2. ASSUME NEW x \in S PROVE Cardinality(B(x)) < n
  <2>1. B(x) \in SUBSET S /\ x \notin B(x)
    BY DEF Orders
  <2>2. Cardinality(B(x)) <= n /\ Cardinality(B(x)) # n
    BY <2>1, FS_Subset
  <2> QED BY <1>0, <1>1, <2>2
<1>3. ASSUME NEW x \in S, NEW y \in S, <<x, y>> \in R PROVE Cardinality(B(x)) < Cardinality(B(y))
  <2>1. B(x) \in SUBSET B(y) /\ x \in B(y) /\ x \notin B(x)
    BY <1>3 DEF Orders
  <2>2. Cardinality(B(x)) <= Cardinality(B(y)) /\ Cardinality(B(x)) # Cardinality(B(y))
    BY <1>1, <2>1, FS_Subset
  <2> QED BY <1>1, <2>2
<1> HIDE DEF B, n
<1>4. \A x \in S : Ahead(R, S, x) \in 0..(n - 1)
  BY <1>0, <1>1, <1>2
<1>5. \A x, y \in S : <<x, y>> \in R => Ahead(R, S, x) < Ahead(R, S, y)
  BY <1>1, <1>3
<1>6. \A x, y \in S : Ahead(R, S, x) < Ahead(R, S, y) => <<x, y>> \in R
  <2> SUFFICES ASSUME NEW x \in S, NEW y \in S, Ahead(R, S, x) < Ahead(R, S, y) PROVE <<x, y>> \in R
    OBVIOUS
  <2>1. Ahead(R, S, x) \in Nat /\ Ahead(R, S, y) \in Nat
    BY <1>1
  <2>2. x = y \/ <<x, y>> \in R \/ <<y, x>> \in R
    BY DEF Orders
  <2> QED BY <1>5, <2>1, <2>2
<1>7. \A x, y \in S : Ahead(R, S, x) = Ahead(R, S, y) => x = y
  <2> SUFFICES ASSUME NEW x \in S, NEW y \in S, Ahead(R, S, x) = Ahead(R, S, y) PROVE x = y
    OBVIOUS
  <2>1. Ahead(R, S, x) \in Nat
    BY <1>1
  <2>2. x = y \/ <<x, y>> \in R \/ <<y, x>> \in R
    BY DEF Orders
  <2> QED BY <1>5, <2>1, <2>2
<1>8. \A k \in 1..n : \E x \in S : Ahead(R, S, x) = k - 1
  <2> DEFINE f == [x \in S |-> Ahead(R, S, x)]
  <2> DEFINE T == 0..(n - 1)
  <2>1. f \in Injection(S, T)
    BY <1>4, <1>7 DEF Injection, IsInjective
  <2>2. IsFiniteSet(T) /\ Cardinality(T) = n
    BY <1>0, FS_Interval
  <2>3. f \in Surjection(S, T)
    BY <2>1, <2>2, FS_Injection DEF n
  <2>4. \A t \in T : \E x \in S : f[x] = t
    BY <2>3 DEF Surjection
  <2>5. \A k \in 1..n : k - 1 \in T
    BY <1>0
  <2> QED BY <2>4, <2>5
<1> QED BY <1>4, <1>5, <1>6, <1>7, <1>8 DEF n

\* A sequence with the members of S in their places.
InPlaces(s, R, S) ==
    /\ s = [k \in 1..Cardinality(S) |-> s[k]]
    /\ \A k \in 1..Cardinality(S) : s[k] \in S /\ Ahead(R, S, s[k]) = k - 1

\* It holds S, each member once and in order.
LEMMA InPlace ==
    ASSUME NEW S, IsFiniteSet(S), NEW R, Orders(R, S), NEW s, InPlaces(s, R, S)
    PROVE  /\ s \in Seq(S) /\ Len(s) = Cardinality(S) /\ DOMAIN s = 1..Cardinality(S)
           /\ \A x \in S : \E k \in DOMAIN s : s[k] = x
           /\ \A j, k \in DOMAIN s : j < k => <<s[j], s[k]>> \in R
<1> DEFINE n == Cardinality(S)
<1>0. n \in Nat
  BY FS_CardinalityType
<1>1. s = [k \in 1..n |-> s[k]] /\ \A k \in 1..n : s[k] \in S /\ Ahead(R, S, s[k]) = k - 1
  BY DEF InPlaces
<1>2. s \in [1..n -> S] /\ DOMAIN s = 1..n
  BY <1>1
<1>3. s \in Seq(S) /\ Len(s) = n
  BY <1>0, <1>2
<1> HIDE DEF n
<1>4. ASSUME NEW x \in S PROVE \E k \in 1..n : s[k] = x
  <2>1. Ahead(R, S, x) \in 0..(n - 1)
    BY Places DEF n
  <2>2. PICK k \in 1..n : k - 1 = Ahead(R, S, x)
    <3>1. Ahead(R, S, x) + 1 \in 1..n /\ (Ahead(R, S, x) + 1) - 1 = Ahead(R, S, x)
      BY <1>0, <2>1
    <3> QED BY <3>1
  <2>3. Ahead(R, S, s[k]) = Ahead(R, S, x) /\ s[k] \in S
    BY <1>1, <2>2
  <2> QED BY <2>3, Places
<1>5. ASSUME NEW j \in 1..n, NEW k \in 1..n, j < k PROVE <<s[j], s[k]>> \in R
  <2>1. Ahead(R, S, s[j]) < Ahead(R, S, s[k]) /\ s[j] \in S /\ s[k] \in S
    BY <1>0, <1>1, <1>5
  <2> QED BY <2>1, Places
<1> QED BY <1>2, <1>3, <1>4, <1>5 DEF n

\* Each place is taken.
LEMMA EachPlace ==
    ASSUME NEW S, IsFiniteSet(S), NEW R, Orders(R, S), NEW k \in 1..Cardinality(S)
    PROVE  \E x \in S : Ahead(R, S, x) = k - 1
BY Places

\* The members of a set of numbers, the smallest first and the greatest first.
Ascending(S) ==
    [k \in 1..Cardinality(S) |-> CHOOSE x \in S : Cardinality({y \in S : y < x}) = k - 1]
Descending(S) ==
    [k \in 1..Cardinality(S) |-> CHOOSE x \in S : Cardinality({y \in S : y > x}) = k - 1]

\* The rows of a query, oldest first.
LEMMA OldestIs ==
    ASSUME NEW S, IsFiniteSet(S), S \subseteq Nat, NEW s, s = Ascending(S)
    PROVE  /\ s \in Seq(S) /\ Len(s) = Cardinality(S) /\ DOMAIN s = 1..Cardinality(S) /\ Range(s) = S
           /\ \A j, k \in DOMAIN s : j < k => s[j] < s[k]
<1> DEFINE R == {p \in S \X S : p[1] < p[2]}
<1>1. \A x, y \in S : <<x, y>> \in R <=> x < y
  OBVIOUS
<1>2. \A x \in S : {y \in S : <<y, x>> \in R} = {y \in S : y < x}
  BY <1>1
<1> HIDE DEF R
<1> DEFINE N(x) == Cardinality({y \in S : y < x})
<1>3. Orders(R, S)
  <2>1. \A x, y, z \in S : x < y /\ y < z => x < z
    OBVIOUS
  <2>2. \A x, y \in S : ~(x < x) /\ (x = y \/ x < y \/ y < x)
    OBVIOUS
  <2> QED BY <1>1, <2>1, <2>2 DEF Orders
<1>4. \A x \in S : Ahead(R, S, x) = N(x)
  BY <1>2 DEF Ahead
<1>0. s = [k \in 1..Cardinality(S) |-> CHOOSE x \in S : N(x) = k - 1]
  BY DEF Ascending
<1> HIDE DEF N
<1>5. \A k \in 1..Cardinality(S) : \E x \in S : N(x) = k - 1
  <2>1. \A k \in 1..Cardinality(S) : \E x \in S : Ahead(R, S, x) = k - 1
    BY <1>3, EachPlace
  <2> QED BY <1>4, <2>1
<1>6. \A k \in 1..Cardinality(S) : s[k] \in S /\ N(s[k]) = k - 1
  BY <1>0, <1>5
<1>7. InPlaces(s, R, S)
  <2>1. s = [k \in 1..Cardinality(S) |-> s[k]]
    BY <1>0
  <2> QED BY <1>4, <1>6, <2>1 DEF InPlaces
<1>8. /\ s \in Seq(S) /\ Len(s) = Cardinality(S) /\ DOMAIN s = 1..Cardinality(S)
      /\ \A x \in S : \E k \in DOMAIN s : s[k] = x
      /\ \A j, k \in DOMAIN s : j < k => <<s[j], s[k]>> \in R
  BY <1>3, <1>7, InPlace
<1>9. \A k \in DOMAIN s : s[k] \in S
  BY <1>6, <1>8
<1>10. Range(s) = S
  BY <1>8, <1>9 DEF Range
<1>11. \A j, k \in DOMAIN s : j < k => s[j] < s[k]
  BY <1>1, <1>8, <1>9
<1> QED BY <1>8, <1>10, <1>11

\* The rows of a query, newest first.
LEMMA NewestIs ==
    ASSUME NEW S, IsFiniteSet(S), S \subseteq Nat, NEW s, s = Descending(S)
    PROVE  Range(s) = S
<1> DEFINE R == {p \in S \X S : p[1] > p[2]}
<1>1. \A x, y \in S : <<x, y>> \in R <=> x > y
  OBVIOUS
<1>2. \A x \in S : {y \in S : <<y, x>> \in R} = {y \in S : y > x}
  BY <1>1
<1> HIDE DEF R
<1> DEFINE N(x) == Cardinality({y \in S : y > x})
<1>3. Orders(R, S)
  <2>1. \A x, y, z \in S : x > y /\ y > z => x > z
    OBVIOUS
  <2>2. \A x, y \in S : ~(x > x) /\ (x = y \/ x > y \/ y > x)
    OBVIOUS
  <2> QED BY <1>1, <2>1, <2>2 DEF Orders
<1>4. \A x \in S : Ahead(R, S, x) = N(x)
  BY <1>2 DEF Ahead
<1>0. s = [k \in 1..Cardinality(S) |-> CHOOSE x \in S : N(x) = k - 1]
  BY DEF Descending
<1> HIDE DEF N
<1>5. \A k \in 1..Cardinality(S) : \E x \in S : N(x) = k - 1
  <2>1. \A k \in 1..Cardinality(S) : \E x \in S : Ahead(R, S, x) = k - 1
    BY <1>3, EachPlace
  <2> QED BY <1>4, <2>1
<1>6. \A k \in 1..Cardinality(S) : s[k] \in S /\ N(s[k]) = k - 1
  BY <1>0, <1>5
<1>7. InPlaces(s, R, S)
  <2>1. s = [k \in 1..Cardinality(S) |-> s[k]]
    BY <1>0
  <2> QED BY <1>4, <1>6, <2>1 DEF InPlaces
<1>8. /\ s \in Seq(S) /\ DOMAIN s = 1..Cardinality(S)
      /\ \A x \in S : \E k \in DOMAIN s : s[k] = x
  BY <1>3, <1>7, InPlace
<1>9. \A k \in DOMAIN s : s[k] \in S
  BY <1>6, <1>8
<1> QED BY <1>8, <1>9 DEF Range

\* What Oldest returns.
LEMMA OldestRows ==
    ASSUME NEW S, IsFiniteSet(S), S \subseteq Nat
    PROVE  Range(Oldest(S)) = S
<1>1. Oldest(S) = Ascending(S)
  BY DEF Oldest, InOrder, Ascending
<1> QED BY <1>1, OldestIs

\* GET /tasks, by status and by Area.
WithStatus(s) == Range(list_tasks(LAMBDA t : tasks[t].status = s))
WithArea(a) == Range(list_tasks(LAMBDA t : InArea(t, a)))

\* What the lists return.
LEMMA ListsAre ==
    ASSUME Typed
    PROVE  /\ \A s : WithStatus(s) = {t \in DOMAIN tasks : tasks[t].status = s}
           /\ \A a : WithArea(a) = {t \in DOMAIN tasks : InArea(t, a)}
           /\ Range(list_directions) = DOMAIN directions
           /\ Range(list_blocks) = DOMAIN blocks
<1>0. ASSUME NEW S, \/ S \in SUBSET DOMAIN tasks \/ S \in SUBSET DOMAIN directions
                    \/ S \in SUBSET DOMAIN blocks
      PROVE  IsFiniteSet(S) /\ S \subseteq Nat
  <2>1. PICK D : directions \in Seq(D)
    BY DEF Typed
  <2>0. tasks \in Seq(Task) /\ blocks \in Seq(Block)
    BY DEF Typed
  <2>2. PICK n \in Nat : S \in SUBSET (1..n)
    <3>1. /\ Len(tasks) \in Nat /\ DOMAIN tasks = 1..Len(tasks)
          /\ Len(blocks) \in Nat /\ DOMAIN blocks = 1..Len(blocks)
          /\ Len(directions) \in Nat /\ DOMAIN directions = 1..Len(directions)
      BY <2>0, <2>1
    <3> QED BY <1>0, <3>1
  <2>3. IsFiniteSet(1..n)
    BY FS_Interval
  <2>4. IsFiniteSet(S)
    BY <2>2, <2>3, FS_Subset
  <2> QED BY <2>2, <2>4
<1>1. ASSUME NEW S, S \in SUBSET DOMAIN tasks \/ S \in SUBSET DOMAIN directions \/ S \in SUBSET DOMAIN blocks
      PROVE  Range(Descending(S)) = S
  BY <1>0, <1>1, NewestIs
<1>2. ASSUME NEW s
      PROVE  WithStatus(s) = {t \in DOMAIN tasks : tasks[t].status = s}
  <2> DEFINE S == {t \in DOMAIN tasks : tasks[t].status = s}
  <2>1. list_tasks(LAMBDA t : tasks[t].status = s)
        = Descending(S)
    BY DEF list_tasks, NewestFirst, InOrder, Descending
  <2>2. S \in SUBSET DOMAIN tasks
    OBVIOUS
  <2> HIDE DEF S
  <2>3. Range(Descending(S)) = S
    BY <1>1, <2>2
  <2>4. WithStatus(s) = S
    BY <2>1, <2>3, Zenon DEF WithStatus
  <2> QED BY <2>4 DEF S
<1>3. ASSUME NEW a
      PROVE  WithArea(a) = {t \in DOMAIN tasks : InArea(t, a)}
  <2> DEFINE S == {t \in DOMAIN tasks : InArea(t, a)}
  <2>1. list_tasks(LAMBDA t : InArea(t, a))
        = Descending(S)
    BY DEF list_tasks, NewestFirst, InOrder, Descending
  <2>2. S \in SUBSET DOMAIN tasks
    OBVIOUS
  <2> HIDE DEF S
  <2>3. Range(Descending(S)) = S
    BY <1>1, <2>2
  <2>4. WithArea(a) = S
    BY <2>1, <2>3, Zenon DEF WithArea
  <2> QED BY <2>4 DEF S
<1>4. Range(list_directions) = DOMAIN directions
  <2> DEFINE S == {t \in DOMAIN directions : TRUE}
  <2>1. list_directions
        = Descending(S)
    BY DEF list_directions, NewestFirst, InOrder, Descending
  <2>2. S = DOMAIN directions
    OBVIOUS
  <2> HIDE DEF S
  <2> QED BY <1>1, <2>1, <2>2
<1>5. Range(list_blocks) = DOMAIN blocks
  <2> DEFINE S == {t \in DOMAIN blocks : TRUE}
  <2>1. list_blocks
        = Descending(S)
    BY DEF list_blocks, NewestFirst, InOrder, Descending
  <2>2. S = DOMAIN blocks
    OBVIOUS
  <2> HIDE DEF S
  <2> QED BY <1>1, <2>1, <2>2
<1> QED BY <1>2, <1>3, <1>4, <1>5

\* The open tasks, as today's list ranks them.
Open == {t \in DOMAIN tasks : Filed(t) /\ ~task_is_terminal(tasks[t].status)}

Rank(t) == Precedence(tasks[t].status)

Precedes(s, t) ==
    \/ Precedence(tasks[s].status) < Precedence(tasks[t].status)
    \/ Precedence(tasks[s].status) = Precedence(tasks[t].status) /\ s < t

Ranked ==
    [k \in 1..Cardinality(Open) |->
        CHOOSE x \in Open : Cardinality({y \in Open : Precedes(y, x)}) = k - 1]

\* An open task has a rank.
LEMMA OpenRows ==
    ASSUME Typed
    PROVE  /\ Open \subseteq Nat /\ IsFiniteSet(Open)
           /\ \A t \in Open : Rank(t) \in 0..2
<1>1. tasks \in Seq(Task)
  BY DEF Typed
<1>2. DOMAIN tasks = 1..Len(tasks) /\ Len(tasks) \in Nat
  BY <1>1
<1>3. IsFiniteSet(1..Len(tasks)) /\ Open \in SUBSET (1..Len(tasks))
  BY <1>2, FS_Interval DEF Open
<1>4. IsFiniteSet(Open) /\ Open \subseteq Nat
  <2>1. IsFiniteSet(Open)
    BY <1>3, FS_Subset
  <2>2. Open \subseteq Nat
    BY <1>2, <1>3
  <2> QED BY <2>1, <2>2
<1>5. ASSUME NEW t \in Open PROVE Rank(t) \in 0..2
  <2>1. tasks[t] \in Task /\ ~task_is_terminal(tasks[t].status)
    BY <1>1, <1>5 DEF Open
  <2>2. tasks[t].status \in {"backlog", "planned", "in_progress"}
    BY <2>1 DEF Task, TaskStatus, task_is_terminal
  <2> QED BY <2>2 DEF Rank, Precedence
<1> QED BY <1>4, <1>5

\* The list before it is cut.
LEMMA RankedIs ==
    ASSUME Typed
    PROVE  /\ Ranked \in Seq(Open) /\ DOMAIN Ranked = 1..Len(Ranked) /\ Len(Ranked) \in Nat
           /\ \A x \in Open : \E k \in DOMAIN Ranked : Ranked[k] = x
           /\ \A j, k \in DOMAIN Ranked : j < k => Rank(Ranked[j]) <= Rank(Ranked[k])
<1>0. Open \subseteq Nat /\ IsFiniteSet(Open) /\ \A t \in Open : Rank(t) \in 0..2
  BY OpenRows
<1> DEFINE R == {p \in Open \X Open : Precedes(p[1], p[2])}
<1>1. \A x, y \in Open : <<x, y>> \in R <=> Precedes(x, y)
  OBVIOUS
<1>2. \A x \in Open : {y \in Open : <<y, x>> \in R} = {y \in Open : Precedes(y, x)}
  BY <1>1
<1> HIDE DEF R
<1> DEFINE N(x) == Cardinality({y \in Open : Precedes(y, x)})
<1>3. Orders(R, Open)
  <2>0. \A x, y \in Open : <<x, y>> \in R <=> Rank(x) < Rank(y) \/ (Rank(x) = Rank(y) /\ x < y)
    BY <1>1 DEF Precedes, Rank
  <2>1. \A x \in Open : <<x, x>> \notin R
    BY <1>0, <2>0
  <2>2. ASSUME NEW x \in Open, NEW y \in Open PROVE x = y \/ <<x, y>> \in R \/ <<y, x>> \in R
    <3>1. x \in Nat /\ y \in Nat /\ Rank(x) \in Int /\ Rank(y) \in Int
      BY <1>0
    <3>2. Rank(x) < Rank(y) \/ Rank(y) < Rank(x) \/ Rank(x) = Rank(y)
      BY <3>1
    <3>3. x < y \/ y < x \/ x = y
      BY <3>1
    <3> QED BY <2>0, <3>2, <3>3
  <2>3. \A x, y, z \in Open : <<x, y>> \in R /\ <<y, z>> \in R => <<x, z>> \in R
    BY <1>0, <2>0
  <2> QED BY <2>1, <2>2, <2>3 DEF Orders
<1>4. \A x \in Open : Ahead(R, Open, x) = N(x)
  BY <1>2 DEF Ahead
<1>5. Ranked = [k \in 1..Cardinality(Open) |-> CHOOSE x \in Open : N(x) = k - 1]
  BY DEF Ranked
<1> HIDE DEF N
<1>6. \A k \in 1..Cardinality(Open) : \E x \in Open : N(x) = k - 1
  <2>1. \A k \in 1..Cardinality(Open) : \E x \in Open : Ahead(R, Open, x) = k - 1
    BY <1>0, <1>3, EachPlace
  <2> QED BY <1>4, <2>1
<1>7. \A k \in 1..Cardinality(Open) : Ranked[k] \in Open /\ N(Ranked[k]) = k - 1
  BY <1>5, <1>6
<1>8. InPlaces(Ranked, R, Open)
  <2>1. Ranked = [k \in 1..Cardinality(Open) |-> Ranked[k]]
    BY <1>5
  <2> QED BY <1>4, <1>7, <2>1 DEF InPlaces
<1>9. /\ Ranked \in Seq(Open)
      /\ \A x \in Open : \E k \in DOMAIN Ranked : Ranked[k] = x
      /\ \A j, k \in DOMAIN Ranked : j < k => <<Ranked[j], Ranked[k]>> \in R
  BY <1>0, <1>3, <1>8, InPlace
<1>10. DOMAIN Ranked = 1..Len(Ranked) /\ Len(Ranked) \in Nat /\ \A k \in DOMAIN Ranked : Ranked[k] \in Open
  BY <1>9
<1>11. ASSUME NEW j \in DOMAIN Ranked, NEW k \in DOMAIN Ranked, j < k
       PROVE  Rank(Ranked[j]) <= Rank(Ranked[k])
  <2>1. Precedes(Ranked[j], Ranked[k])
    BY <1>1, <1>9, <1>10, <1>11
  <2>2. Rank(Ranked[j]) < Rank(Ranked[k]) \/ Rank(Ranked[j]) = Rank(Ranked[k])
    BY <2>1 DEF Precedes, Rank
  <2>0. PICK x \in Open, y \in Open : x = Ranked[j] /\ y = Ranked[k]
    BY <1>10
  <2>3. Rank(x) \in Int /\ Rank(y) \in Int
    BY <1>0
  <2> QED BY <2>0, <2>2, <2>3
<1> QED BY <1>9, <1>10, <1>11

\* The smaller of two numbers.
LEMMA MinOfTwo ==
    ASSUME NEW a \in Nat, NEW b \in Nat
    PROVE  Min({a, b}) \in {a, b} /\ Min({a, b}) <= a /\ Min({a, b}) <= b
<1>1. \E x \in {a, b} : \A y \in {a, b} : x <= y
  OBVIOUS
<1> QED BY <1>1 DEF Min

\* Today's list holds every open task that is filed, or as many as it may, each
\* of them at least as far along as any left out.
LEMMA MustDoIs ==
    ASSUME Typed
    PROVE  /\ \A u \in Range(must_do) : u \in Open
           /\ \A t \in Open : \/ t \in Range(must_do)
                              \/ /\ Len(must_do) = MustDo
                                 /\ \A u \in Range(must_do) : Rank(u) <= Rank(t)
<1>1. /\ Ranked \in Seq(Open) /\ DOMAIN Ranked = 1..Len(Ranked) /\ Len(Ranked) \in Nat
      /\ \A x \in Open : \E k \in DOMAIN Ranked : Ranked[k] = x
      /\ \A j, k \in DOMAIN Ranked : j < k => Rank(Ranked[j]) <= Rank(Ranked[k])
  BY RankedIs
<1>2. PICK n \in Nat : n = Len(Ranked) /\ DOMAIN Ranked = 1..n
  BY <1>1
<1>3. PICK m : m = Min({MustDo, n})
  OBVIOUS
<1>4. must_do = SubSeq(Ranked, 1, m)
  BY <1>2, <1>3 DEF must_do, InOrder, Ranked, Open, Precedes
<1>5. m \in Nat /\ m <= n /\ (m = n \/ m = MustDo)
  <2>1. MustDo \in Nat
    BY TodayAssumption
  <2>2. m \in {MustDo, n} /\ m <= MustDo /\ m <= n
    BY <1>3, <2>1, MinOfTwo
  <2> QED BY <2>1, <2>2
<1>6. DOMAIN must_do = 1..m /\ Len(must_do) = m /\ \A k \in 1..m : must_do[k] = Ranked[k]
  <2>1. m \in 0..Len(Ranked)
    BY <1>2, <1>5
  <2>2. \A s \in Seq(Open) : m \in 0..Len(s) =>
           /\ DOMAIN SubSeq(s, 1, m) = 1..m /\ Len(SubSeq(s, 1, m)) = m
           /\ \A k \in 1..m : SubSeq(s, 1, m)[k] = s[k]
    BY <1>5
  <2> QED BY <1>1, <1>4, <2>1, <2>2
<1>7. \A k \in 1..m : k \in DOMAIN Ranked /\ Ranked[k] \in Open
  <2>1. \A k \in 1..m : k \in 1..n
    BY <1>5
  <2> QED BY <1>1, <1>2, <2>1
<1>8. \A u \in Range(must_do) : \E k \in 1..m : u = Ranked[k]
  BY <1>6 DEF Range
<1>9. ASSUME NEW t \in Open
       PROVE  \/ t \in Range(must_do)
              \/ Len(must_do) = MustDo /\ \A u \in Range(must_do) : Rank(u) <= Rank(t)
  <2>1. PICK k \in 1..n : Ranked[k] = t
    BY <1>1, <1>2
  <2>2. CASE k <= m
    <3>1. k \in 1..m
      BY <1>5, <2>2
    <3> QED BY <1>6, <2>1, <3>1 DEF Range
  <2>3. CASE ~(k <= m)
    <3>1. m # n /\ k \in DOMAIN Ranked
      BY <1>2, <1>5, <2>3
    <3>2. Len(must_do) = MustDo
      BY <1>5, <1>6, <3>1
    <3>3. ASSUME NEW j \in 1..m PROVE Rank(Ranked[j]) <= Rank(t)
      <4>1. j < k
        BY <1>5, <2>3
      <4>2. j \in DOMAIN Ranked
        BY <1>7
      <4> QED BY <1>1, <2>1, <3>1, <4>1, <4>2
    <3> QED BY <1>8, <3>2, <3>3
  <2> QED BY <2>2, <2>3
<1> QED BY <1>7, <1>8, <1>9
-----------------------------------------------------------------------------
(* The log in pages of one event *)

\* What a client that holds seen asks for next, and what it then holds.
After(seen) == IF seen = <<>> THEN 0 ELSE Last(seen)

PageAfter(since, es) ==
    LET matching == Oldest({i \in DOMAIN es : None \in {None, es[i].entity} /\ i > since})
    IN  SubSeq(matching, 1, Min({clamp(1, 1, Len(es)), Len(matching)}))

PageStep(seen, i, es) == seen \o PageAfter(After(seen), es)

Pages == INSTANCE FoldLemmas WITH Step <- PageStep

\* The pages are a fold.
LEMMA FollowedIs == Followed(None, 1) = Pages!Folded([i \in DOMAIN events |-> i], <<>>, events)
BY DEF Followed, list_events, PageStep, PageAfter, After, FoldLeft, MapThenFoldSet, Max, Pages!Folded,
       Pages!FoldLeft, Pages!MapThenFoldSet, Pages!Max

\* A page of one event.
LEMMA ClampIs ==
    ASSUME NEW n \in Nat \ {0}
    PROVE  clamp(1, 1, n) = 1
<1>1. Min({1, n}) = 1
  BY MinOfTwo
<1>2. Max({1}) = 1
  <2>1. \E x \in {1} : \A y \in {1} : x >= y
    OBVIOUS
  <2> QED BY <2>1 DEF Max
<1>3. {1, 1} = {1}
  OBVIOUS
<1> QED BY <1>1, <1>2, <1>3 DEF clamp

\* The page after k is the event k + 1.
LEMMA PageIs ==
    ASSUME NEW S, NEW es \in Seq(S), NEW k \in Nat, k + 1 <= Len(es)
    PROVE  PageAfter(k, es) = <<k + 1>>
<1> DEFINE M == {i \in DOMAIN es : None \in {None, es[i].entity} /\ i > k}
<1>1. PICK n \in Nat \ {0} : n = Len(es) /\ DOMAIN es = 1..n /\ k + 1 \in 1..n
  OBVIOUS
<1>2. M = {i \in 1..n : i > k}
  BY <1>1
<1>3. PICK s : s = Oldest(M)
  OBVIOUS
<1>4. PageAfter(k, es) = SubSeq(s, 1, Min({1, Len(s)}))
  <2>1. PageAfter(k, es) = SubSeq(s, 1, Min({clamp(1, 1, n), Len(s)}))
    BY <1>1, <1>3 DEF PageAfter
  <2> QED BY <2>1, ClampIs
<1> HIDE DEF M
<1>5. IsFiniteSet(M) /\ M \subseteq Nat /\ k + 1 \in M /\ \A x \in M : k + 1 <= x
  <2>1. IsFiniteSet(1..n) /\ M \in SUBSET (1..n)
    BY <1>2, FS_Interval
  <2>2. IsFiniteSet(M)
    BY <2>1, FS_Subset
  <2>3. \A x \in M : x \in Nat /\ k + 1 <= x
    BY <1>2
  <2> QED BY <1>1, <1>2, <2>2, <2>3
<1>6. s = Ascending(M)
  BY <1>3 DEF Oldest, InOrder, Ascending
<1>7. /\ s \in Seq(M) /\ DOMAIN s = 1..Len(s) /\ Range(s) = M
      /\ \A i, j \in DOMAIN s : i < j => s[i] < s[j]
  BY <1>5, <1>6, OldestIs
<1>8. PICK c \in DOMAIN s : s[c] = k + 1
  BY <1>5, <1>7 DEF Range
<1>0. PICK m \in Nat : m = Len(s) /\ DOMAIN s = 1..m
  <2>1. Cardinality(M) \in Nat
    BY <1>5, FS_CardinalityType
  <2>2. Len(s) = Cardinality(M) /\ DOMAIN s = 1..Cardinality(M)
    BY <1>5, <1>6, OldestIs
  <2> QED BY <2>1, <2>2
<1>9. c \in 1..m /\ m # 0 /\ 1 \in DOMAIN s
  <2>1. c \in 1..m
    BY <1>0, <1>8
  <2>2. m # 0 /\ 1 \in 1..m
    BY <2>1
  <2> QED BY <1>0, <2>1, <2>2
<1>10. s[1] = k + 1
  <2>0. s[1] \in M
    BY <1>7, <1>9 DEF Range
  <2>1. s[1] \in Nat /\ k + 1 <= s[1]
    BY <1>5, <2>0
  <2>2. c = 1 \/ 1 < c
    BY <1>9
  <2>3. c = 1 \/ s[1] < k + 1
    BY <1>7, <1>8, <1>9, <2>2
  <2> QED BY <1>8, <2>1, <2>3
<1>11. Min({1, m}) = 1
  <2>1. 1 \in Nat /\ m \in Nat /\ 1 <= m
    BY <1>9
  <2>2. Min({1, m}) \in {1, m} /\ Min({1, m}) <= 1
    BY <2>1, MinOfTwo
  <2> QED BY <2>1, <2>2
<1>12. PageAfter(k, es) = SubSeq(s, 1, 1)
  BY <1>0, <1>4, <1>11
<1>13. SubSeq(s, 1, 1) = <<s[1]>>
  <2>1. s \in Seq(M) /\ 1 <= Len(s) /\ s[1] \in M
    BY <1>0, <1>7, <1>9 DEF Range
  <2>2. PICK t : t = SubSeq(s, 1, 1)
    OBVIOUS
  <2>3. t \in Seq(M) /\ Len(t) = 1 /\ t[1] = s[1]
    BY <2>1, <2>2
  <2>4. t = <<t[1]>>
    BY <2>3
  <2> QED BY <2>2, <2>3, <2>4
<1> QED BY <1>10, <1>12, <1>13

\* The seqs up to n.
Upto(n) == [i \in 1..n |-> i]

\* One page more.
LEMMA PageMore ==
    ASSUME NEW S, NEW es \in Seq(S), NEW k \in Nat, k + 1 <= Len(es), NEW i
    PROVE  PageStep(Upto(k), i, es) = Upto(k + 1)
<1>1. Upto(k) \in Seq(Nat) /\ Len(Upto(k)) = k
  BY DEF Upto
<1>2. After(Upto(k)) = k
  <2>1. CASE k = 0
    BY <1>1, <2>1 DEF After
  <2>2. CASE k # 0
    <3>1. Upto(k) # <<>> /\ Upto(k)[k] = k
      BY <1>1, <2>2 DEF Upto
    <3> QED BY <1>1, <3>1 DEF After, Last
  <2> QED BY <2>1, <2>2
<1>3. PageStep(Upto(k), i, es) = Upto(k) \o <<k + 1>>
  BY <1>2, PageIs DEF PageStep
<1>4. Upto(k) \o <<k + 1>> = Upto(k + 1)
  BY DEF Upto
<1> QED BY <1>3, <1>4

\* A client that follows the pages holds every event.
LEMMA AllSeen ==
    ASSUME Typed
    PROVE  Range(Followed(None, 1)) = DOMAIN events
<1>1. PICK S : events \in Seq(S)
  BY DEF Typed
<1>2. PICK n \in Nat : n = Len(events) /\ DOMAIN events = 1..n
  BY <1>1
<1>3. [i \in DOMAIN events |-> i] = Upto(n) /\ DOMAIN Upto(n) = 1..n
  BY <1>2 DEF Upto
<1>4. PICK g : /\ Pages!Folds(g, Upto(n), <<>>, events, n)
               /\ Pages!Folded(Upto(n), <<>>, events) = g[1..n]
  BY <1>3, Pages!FoldedIs
<1> DEFINE T == {k \in Nat : k <= n => g[1..k] = Upto(k)}
<1>5. 0 \in T
  <2>1. 1..0 = {} /\ {} \in SUBSET (1..n)
    OBVIOUS
  <2>2. g[{}] = <<>>
    BY <1>4, <2>1 DEF Pages!Folds
  <2>3. Upto(0) = <<>>
    BY DEF Upto
  <2> QED BY <2>1, <2>2, <2>3
<1>6. ASSUME NEW k \in Nat, k \in T PROVE k + 1 \in T
  <2> SUFFICES ASSUME k + 1 <= n PROVE g[1..k+1] = Upto(k + 1)
    OBVIOUS
  <2>1. g[1..k] = Upto(k)
    BY <1>6
  <2>2. g[1..k+1] = PageStep(g[1..k], Upto(n)[k+1], events)
    BY <1>4, Pages!FoldsLast
  <2> QED BY <1>1, <1>2, <2>1, <2>2, PageMore
<1> HIDE DEF T
<1>7. Nat \subseteq T
  BY <1>5, <1>6, Pages!NatSetInduction
<1>8. g[1..n] = Upto(n)
  BY <1>7 DEF T
<1>9. Followed(None, 1) = Upto(n)
  BY <1>3, <1>4, <1>8, FollowedIs
<1>10. Range(Upto(n)) = 1..n
  BY DEF Range, Upto
<1> QED BY <1>2, <1>9, <1>10
-----------------------------------------------------------------------------
(* Days and last events *)

\* Division by a positive number.
LEMMA DivisionIs ==
    ASSUME NEW p \in Int, p > 0, NEW a \in Int
    PROVE  /\ a \div p \in Int /\ a % p \in Int /\ 0 <= a % p /\ a % p < p
           /\ a = p * (a \div p) + (a % p)
OBVIOUS

\* Multiples leave nothing.
LEMMA MultipleIs ==
    ASSUME NEW p \in Int, p > 0, NEW q \in Int
    PROVE  (p * q) % p = 0
OBVIOUS

\* Two numbers that share a remainder are a day apart, or more.
LEMMA DayApart ==
    ASSUME NEW p \in Int, p > 0, NEW a \in Int, NEW b \in Int, NEW q \in Int, NEW u \in Int,
           a = p * q, b = p * u, a < b
    PROVE  a + p <= b
<1>1. q < u
  <2>1. u <= q => p * u <= p * q
    OBVIOUS
  <2> QED BY <2>1
<1>2. q + 1 <= u
  BY <1>1
<1>3. p * (q + 1) <= p * u
  BY <1>2
<1> QED BY <1>3

\* The user's midnight is the last one there was.
LEMMA MidnightIs ==
    ASSUME Typed, NEW at \in Int
    PROVE  SinceMidnight(at) <=> at < local_day_start_utc
<1>0. world.per_day \in Int /\ world.per_day > 0 /\ world.zone \in Int /\ now \in Int
  <2>1. world \in Worlds /\ now \in 0..world.last
    BY DEF Typed
  <2>2. world.per_day \in Nat \ {0} /\ world.last \in Nat
    BY <2>1, JournalAssumption
  <2>3. world.zone \in Int
    BY <2>1, TodayAssumption
  <2> QED BY <2>1, <2>2, <2>3
<1>1. PICK p \in Int, z \in Int, n \in Int :
         p > 0 /\ p = world.per_day /\ z = world.zone /\ n = now
  BY <1>0
<1>2. PICK r \in Int, q \in Int : r = (n + z) % p /\ 0 <= r /\ r < p /\ n + z = p * q + r
  <2>1. PICK a \in Int : a = n + z
    OBVIOUS
  <2>2. /\ a \div p \in Int /\ a % p \in Int /\ 0 <= a % p /\ a % p < p
        /\ a = p * (a \div p) + (a % p)
    BY <1>1, DivisionIs
  <2>3. PICK r \in Int, q \in Int : r = a % p /\ q = a \div p
    BY <2>2
  <2>4. r = (n + z) % p /\ n + z = p * q + r
    BY <2>1, <2>2, <2>3
  <2> QED BY <2>2, <2>3, <2>4
<1>3. local_day_start_utc = n - r
  BY <1>1, <1>2 DEF local_day_start_utc
<1>4. SinceMidnight(at) <=> \E t \in (at + 1)..n : (t + z) % p = 0
  BY <1>1 DEF SinceMidnight
<1>5. ASSUME at < n - r PROVE \E t \in (at + 1)..n : (t + z) % p = 0
  <2>1. n - r \in (at + 1)..n
    BY <1>2, <1>5
  <2>2. (n - r) + z = p * q
    BY <1>2
  <2>3. (p * q) % p = 0
    BY <1>1, MultipleIs
  <2> QED BY <2>1, <2>2, <2>3
<1>6. ASSUME NEW t \in (at + 1)..n, (t + z) % p = 0 PROVE at < n - r
  <2>1. PICK u \in Int : t + z = p * u
    <3>1. PICK a \in Int : a = t + z
      OBVIOUS
    <3>2. a = p * (a \div p) + (a % p) /\ a \div p \in Int
      BY <1>1, DivisionIs
    <3>3. a % p = 0
      BY <1>6, <3>1
    <3> QED BY <1>1, <3>1, <3>2, <3>3
  <2>2. (n - r) + z = p * q
    BY <1>2
  <2>3. (n - r) + z < t + z => ((n - r) + z) + p <= t + z
    BY <1>1, <2>1, <2>2, DayApart
  <2>4. t <= n - r
    BY <1>2, <2>3
  <2> QED BY <2>4
<1> QED BY <1>3, <1>4, <1>5, <1>6

\* The last of some positions.
LEMMA LastIs ==
    ASSUME NEW M, M \subseteq Nat, NEW i \in M, \A j \in M : j <= i
    PROVE  Max({0} \cup M) = i
<1>1. i \in {0} \cup M /\ \A j \in {0} \cup M : i >= j
  OBVIOUS
<1>2. \A x \in {0} \cup M : (\A j \in {0} \cup M : x >= j) => x = i
  BY <1>1
<1> QED BY <1>1, <1>2 DEF Max

\* There was none.
LEMMA LastNone ==
    ASSUME NEW M, M = {}
    PROVE  Max({0} \cup M) = 0
<1>1. {0} \cup M = {0}
  OBVIOUS
<1>2. \A x \in {0} : (\A j \in {0} : x >= j) <=> x = 0
  OBVIOUS
<1> QED BY <1>1, <1>2 DEF Max
-----------------------------------------------------------------------------
(* What the log records of the rows *)

\* The events that give a row a status.
Moves(es, x, id) == {i \in DOMAIN es : es[i].entity = x /\ es[i].id = id /\ es[i].to # None}

\* The events that say what Direction a task has.
Assigned(es, t) ==
    {i \in DOMAIN es : /\ es[i].entity = "task" /\ es[i].id = t
                       /\ es[i].kind \in {"created", "direction_assigned"}}

LastOf(M, i) == \A j \in M : j <= i

\* The rows of entity x are those there are events of, and the last move of each
\* is its status; first is the status of a row that has not moved.
Told(es, x, f, first) ==
    /\ \A i \in DOMAIN es : es[i].entity = x => es[i].id \in DOMAIN f
    /\ \A id \in DOMAIN f :
          \/ f[id] = first /\ Moves(es, x, id) = {}
          \/ \E i \in Moves(es, x, id) : LastOf(Moves(es, x, id), i) /\ es[i].to = f[id]

\* The last assignment of a task is its Direction.
FiledAs(es, f) ==
    \A t \in DOMAIN f :
        \E i \in Assigned(es, t) : LastOf(Assigned(es, t), i) /\ es[i].payload.direction = f[t]

\* The log is in the order of its stamps.
Stamped(es, at) ==
    \A i \in DOMAIN es : /\ es[i].at \in Nat /\ es[i].at <= at
                         /\ \A j \in DOMAIN es : i <= j => es[i].at <= es[j].at

\* A fired event is a Routine's, stamped as the row of its fire.
FiresStamped(es, fs) ==
    \A i \in DOMAIN es : es[i].kind = "fired" =>
        es[i].entity = "routine" /\ fs[es[i].payload.fire].received_at = es[i].at

Statuses(rows) == [i \in DOMAIN rows |-> rows[i].status]
Directed(rows) == [i \in DOMAIN rows |-> rows[i].direction]
Drawn(rows) == [i \in DOMAIN rows |-> "draft"]
Opened(rows) == [w \in {v \in DOMAIN rows : rows[v].status # "absent"} |-> rows[w].status]

Recorded ==
    /\ Told(events, "task", Statuses(tasks), None)
    /\ Told(events, "block", Statuses(blocks), None)
    /\ Told(events, "direction", Drawn(directions), None)
    /\ Told(events, "review", Opened(reviews), None)
    /\ Told(events, "routine", routines, "active")
    /\ FiledAs(events, Directed(tasks))
    /\ Stamped(events, now)
    /\ FiresStamped(events, fires)

\* What an event does to the statuses of x.
Follows(e, x, f, g) ==
    /\ e.entity = x => e.id \in DOMAIN g
    /\ DOMAIN f \subseteq DOMAIN g
    /\ \A id \in DOMAIN g : IF e.entity = x /\ e.id = id /\ e.to # None THEN g[id] = e.to
                            ELSE id \in DOMAIN f /\ g[id] = f[id]

\* What an event does to the Directions of the tasks.
Files(e, f, g) ==
    \A t \in DOMAIN g :
        IF e.entity = "task" /\ e.id = t /\ e.kind \in {"created", "direction_assigned"}
        THEN g[t] = e.payload.direction ELSE t \in DOMAIN f /\ g[t] = f[t]

\* The log one event longer.
LEMMA LongerLog ==
    ASSUME NEW S, NEW es \in Seq(S), NEW e, NEW fs, fs = Append(es, e), NEW n, n = Len(es) + 1
    PROVE  /\ DOMAIN fs = DOMAIN es \cup {n} /\ n \notin DOMAIN es /\ n \in Nat
           /\ \A i \in DOMAIN es : fs[i] = es[i] /\ i \in Nat /\ i < n
           /\ fs[n] = e
<1>1. /\ DOMAIN es = 1..Len(es)
      /\ DOMAIN fs = DOMAIN es \cup {n}
      /\ n \notin DOMAIN es
      /\ \A i \in DOMAIN es : fs[i] = es[i]
      /\ fs[n] = e
  BY AppendIs
<1>2. Len(es) \in Nat
  OBVIOUS
<1> QED BY <1>1, <1>2

\* The record of the statuses goes on.
LEMMA ToldNext ==
    ASSUME NEW S, NEW es \in Seq(S), NEW e, NEW fs, fs = Append(es, e),
           NEW x, NEW f, NEW g, NEW first, Told(es, x, f, first), Follows(e, x, f, g)
    PROVE  Told(fs, x, g, first)
<1>1. PICK n : n = Len(es) + 1
  OBVIOUS
<1>2. /\ DOMAIN fs = DOMAIN es \cup {n} /\ n \notin DOMAIN es /\ n \in Nat
      /\ \A i \in DOMAIN es : fs[i] = es[i] /\ i \in Nat /\ i < n
      /\ fs[n] = e
  BY <1>1, LongerLog
<1>3. \A i \in DOMAIN fs : fs[i].entity = x => fs[i].id \in DOMAIN g
  <2>1. \A i \in DOMAIN es : es[i].entity = x => es[i].id \in DOMAIN g
    BY DEF Told, Follows
  <2>2. e.entity = x => e.id \in DOMAIN g
    BY DEF Follows
  <2> QED BY <1>2, <2>1, <2>2
<1>4. ASSUME NEW id \in DOMAIN g
      PROVE  \/ g[id] = first /\ Moves(fs, x, id) = {}
             \/ \E i \in Moves(fs, x, id) : LastOf(Moves(fs, x, id), i) /\ fs[i].to = g[id]
  <2>1. CASE e.entity = x /\ e.id = id /\ e.to # None
    <3>1. g[id] = e.to
      BY <2>1 DEF Follows
    <3>2. n \in Moves(fs, x, id) /\ fs[n].to = g[id]
      BY <1>2, <2>1, <3>1 DEF Moves
    <3>3. \A j \in Moves(fs, x, id) : j <= n
      BY <1>2 DEF Moves
    <3> QED BY <3>2, <3>3 DEF LastOf
  <2>2. CASE ~(e.entity = x /\ e.id = id /\ e.to # None)
    <3>1. id \in DOMAIN f /\ g[id] = f[id]
      BY <2>2 DEF Follows
    <3>2. Moves(fs, x, id) = Moves(es, x, id) /\ \A i \in Moves(es, x, id) : fs[i] = es[i]
      BY <1>2, <2>2 DEF Moves
    <3>3. \/ f[id] = first /\ Moves(es, x, id) = {}
          \/ \E i \in Moves(es, x, id) : LastOf(Moves(es, x, id), i) /\ es[i].to = f[id]
      BY <3>1 DEF Told
    <3> QED BY <3>1, <3>2, <3>3
  <2> QED BY <2>1, <2>2
<1> QED BY <1>3, <1>4 DEF Told

\* The record of the Directions goes on.
LEMMA FiledNext ==
    ASSUME NEW S, NEW es \in Seq(S), NEW e, NEW fs, fs = Append(es, e),
           NEW f, NEW g, FiledAs(es, f), Files(e, f, g)
    PROVE  FiledAs(fs, g)
<1>1. PICK n : n = Len(es) + 1
  OBVIOUS
<1>2. /\ DOMAIN fs = DOMAIN es \cup {n} /\ n \notin DOMAIN es /\ n \in Nat
      /\ \A i \in DOMAIN es : fs[i] = es[i] /\ i \in Nat /\ i < n
      /\ fs[n] = e
  BY <1>1, LongerLog
<1>3. ASSUME NEW t \in DOMAIN g
      PROVE  \E i \in Assigned(fs, t) : LastOf(Assigned(fs, t), i) /\ fs[i].payload.direction = g[t]
  <2>1. CASE e.entity = "task" /\ e.id = t /\ e.kind \in {"created", "direction_assigned"}
    <3>1. g[t] = e.payload.direction
      BY <2>1 DEF Files
    <3>2. n \in Assigned(fs, t) /\ fs[n].payload.direction = g[t]
      BY <1>2, <2>1, <3>1 DEF Assigned
    <3>3. \A j \in Assigned(fs, t) : j <= n
      BY <1>2 DEF Assigned
    <3> QED BY <3>2, <3>3 DEF LastOf
  <2>2. CASE ~(e.entity = "task" /\ e.id = t /\ e.kind \in {"created", "direction_assigned"})
    <3>1. t \in DOMAIN f /\ g[t] = f[t]
      BY <2>2 DEF Files
    <3>2. Assigned(fs, t) = Assigned(es, t) /\ \A i \in Assigned(es, t) : fs[i] = es[i]
      BY <1>2, <2>2 DEF Assigned
    <3>3. \E i \in Assigned(es, t) : LastOf(Assigned(es, t), i) /\ es[i].payload.direction = f[t]
      BY <3>1 DEF FiledAs
    <3> QED BY <3>1, <3>2, <3>3
  <2> QED BY <2>1, <2>2
<1> QED BY <1>3 DEF FiledAs

\* A stamp is no earlier than those before it.
LEMMA StampedNext ==
    ASSUME NEW S, NEW es \in Seq(S), NEW e, NEW fs, fs = Append(es, e),
           NEW at \in Nat, Stamped(es, at), e.at = at
    PROVE  Stamped(fs, at)
<1>1. PICK n : n = Len(es) + 1
  OBVIOUS
<1>2. /\ DOMAIN fs = DOMAIN es \cup {n} /\ n \notin DOMAIN es /\ n \in Nat
      /\ \A i \in DOMAIN es : fs[i] = es[i] /\ i \in Nat /\ i < n
      /\ fs[n] = e
  BY <1>1, LongerLog
<1>3. ASSUME NEW i \in DOMAIN fs
      PROVE  /\ fs[i].at \in Nat /\ fs[i].at <= at
             /\ \A j \in DOMAIN fs : i <= j => fs[i].at <= fs[j].at
  <2>1. CASE i = n
    <3>1. \A j \in DOMAIN fs : i <= j => j = n
      BY <1>2, <2>1
    <3> QED BY <1>2, <2>1, <3>1
  <2>2. CASE i \in DOMAIN es
    <3>1. /\ es[i].at \in Nat /\ es[i].at <= at
          /\ \A j \in DOMAIN es : i <= j => es[i].at <= es[j].at
      BY <2>2 DEF Stamped
    <3> QED BY <1>2, <2>2, <3>1
  <2> QED BY <1>2, <2>1, <2>2
<1> QED BY <1>3 DEF Stamped

\* An event of something else.
LEMMA Elsewhere ==
    ASSUME NEW e, NEW x, e.entity # x, NEW f
    PROVE  Follows(e, x, f, f)
BY DEF Follows

\* An event that gives no status.
LEMMA NoStatus ==
    ASSUME NEW e, NEW x, e.to = None, NEW f, e.entity = x => e.id \in DOMAIN f
    PROVE  Follows(e, x, f, f)
BY DEF Follows

\* An event that files no task.
LEMMA FilesNone ==
    ASSUME NEW e, \/ e.entity # "task" \/ e.kind \notin {"created", "direction_assigned"}, NEW f
    PROVE  Files(e, f, f)
BY DEF Files

\* A step that writes one event and no fire keeps the record.
LEMMA RecordGoesOn ==
    ASSUME Typed, Recorded, NEW e, events' = Append(events, e), e.at = now, now' = now,
           Follows(e, "task", Statuses(tasks), Statuses(tasks')),
           Follows(e, "block", Statuses(blocks), Statuses(blocks')),
           Follows(e, "direction", Drawn(directions), Drawn(directions')),
           Follows(e, "review", Opened(reviews), Opened(reviews')),
           Follows(e, "routine", routines, routines'),
           Files(e, Directed(tasks), Directed(tasks')),
           e.kind # "fired", fires' = fires
    PROVE  Recorded'
<1>1. PICK S : events \in Seq(S)
  BY DEF Typed
<1>2. now \in Nat
  BY JournalAssumption DEF Typed
<1>3. PICK es, fs : es = events /\ fs = events' /\ es \in Seq(S) /\ fs = Append(es, e)
  BY <1>1
<1>4. /\ Told(fs, "task", Statuses(tasks'), None)
      /\ Told(fs, "block", Statuses(blocks'), None)
      /\ Told(fs, "direction", Drawn(directions'), None)
      /\ Told(fs, "review", Opened(reviews'), None)
      /\ Told(fs, "routine", routines', "active")
  <2>0. /\ Told(es, "task", Statuses(tasks), None)
        /\ Told(es, "block", Statuses(blocks), None)
        /\ Told(es, "direction", Drawn(directions), None)
        /\ Told(es, "review", Opened(reviews), None)
        /\ Told(es, "routine", routines, "active")
    BY <1>3 DEF Recorded
  <2>1. Told(fs, "task", Statuses(tasks'), None)
    BY <1>3, <2>0, ToldNext
  <2>2. Told(fs, "block", Statuses(blocks'), None)
    BY <1>3, <2>0, ToldNext
  <2>3. Told(fs, "direction", Drawn(directions'), None)
    BY <1>3, <2>0, ToldNext
  <2>4. Told(fs, "review", Opened(reviews'), None)
    BY <1>3, <2>0, ToldNext
  <2>5. Told(fs, "routine", routines', "active")
    BY <1>3, <2>0, ToldNext
  <2> QED BY <2>1, <2>2, <2>3, <2>4, <2>5
<1>5. FiledAs(fs, Directed(tasks'))
  BY <1>3, FiledNext DEF Recorded
<1>6. Stamped(fs, now)
  BY <1>2, <1>3, StampedNext DEF Recorded
<1>7. FiresStamped(fs, fires)
  <2>1. PICK n : n = Len(es) + 1
    OBVIOUS
  <2>2. DOMAIN fs = DOMAIN es \cup {n} /\ (\A i \in DOMAIN es : fs[i] = es[i]) /\ fs[n] = e
    BY <1>3, <2>1, LongerLog
  <2>3. FiresStamped(es, fires)
    BY <1>3 DEF Recorded
  <2> QED BY <2>2, <2>3 DEF FiresStamped
<1> QED BY <1>3, <1>4, <1>5, <1>6, <1>7 DEF Recorded

\* A row added with the status its event gives it.
LEMMA RowAdded ==
    ASSUME NEW S, NEW rows \in Seq(S), NEW row, NEW rs, rs = Append(rows, row),
           NEW e, NEW x, e.entity = x, e.id = Len(rows) + 1, e.to # None, row.status = e.to
    PROVE  Follows(e, x, Statuses(rows), Statuses(rs))
<1>1. PICK n : n = Len(rows) + 1
  OBVIOUS
<1>2. /\ DOMAIN rs = DOMAIN rows \cup {n} /\ n \notin DOMAIN rows
      /\ \A i \in DOMAIN rows : rs[i] = rows[i]
      /\ rs[n] = row
  BY <1>1, LongerLog
<1>3. /\ DOMAIN Statuses(rs) = DOMAIN rs /\ DOMAIN Statuses(rows) = DOMAIN rows
      /\ \A i \in DOMAIN rs : Statuses(rs)[i] = rs[i].status
      /\ \A i \in DOMAIN rows : Statuses(rows)[i] = rows[i].status
  BY DEF Statuses
<1> QED BY <1>1, <1>2, <1>3 DEF Follows

\* A row moved to the status its event gives it.
LEMMA RowMoved ==
    ASSUME NEW f, NEW g, DOMAIN g = DOMAIN f, NEW id \in DOMAIN f,
           NEW e, NEW x, e.entity = x, e.id = id, e.to # None,
           g[id] = e.to, \A c \in DOMAIN f : c # id => g[c] = f[c]
    PROVE  Follows(e, x, f, g)
BY DEF Follows

\* The statuses an event may give are no None.
LEMMA Something ==
    /\ \A to \in TaskStatus \cup ScheduleBlockStatus \cup RoutineStatus : to # None
    /\ "draft" # None /\ "finalized" # None
BY TodayAssumption DEF TaskStatus, ScheduleBlockStatus, RoutineStatus

\* A new Direction.
LEMMA DirectionRecorded ==
    ASSUME Typed, Recorded, NEW area, create_direction(area)
    PROVE  Recorded'
<1>1. PICK S : directions \in Seq(S)
  BY DEF Typed
<1>2. PICK e : e = Event("direction", Len(directions) + 1, "created", "draft", [area |-> area])
  OBVIOUS
<1>3. e.entity = "direction" /\ e.id = Len(directions) + 1 /\ e.kind = "created" /\ e.to = "draft"
      /\ e.at = now
  BY <1>2, EventIs
<1>4. events' = Append(events, e) /\ directions' = Append(directions, area)
      /\ now' = now /\ UNCHANGED <<tasks, blocks, reviews, routines, fires>>
  BY <1>2 DEF create_direction, append_event, reflect
<1>5. Follows(e, "direction", Drawn(directions), Drawn(directions'))
  <2>1. PICK n : n = Len(directions) + 1
    OBVIOUS
  <2>2. DOMAIN directions' = DOMAIN directions \cup {n} /\ n \notin DOMAIN directions
    BY <1>1, <1>4, <2>1, LongerLog
  <2>3. /\ DOMAIN Drawn(directions') = DOMAIN directions' /\ DOMAIN Drawn(directions) = DOMAIN directions
        /\ \A i \in DOMAIN directions' : Drawn(directions')[i] = "draft"
        /\ \A i \in DOMAIN directions : Drawn(directions)[i] = "draft"
    BY DEF Drawn
  <2>4. e.to # None
    BY <1>3, Something
  <2> QED BY <1>3, <2>1, <2>2, <2>3, <2>4 DEF Follows
<1>6. /\ Follows(e, "task", Statuses(tasks), Statuses(tasks'))
      /\ Follows(e, "block", Statuses(blocks), Statuses(blocks'))
      /\ Follows(e, "review", Opened(reviews), Opened(reviews'))
      /\ Follows(e, "routine", routines, routines')
      /\ Files(e, Directed(tasks), Directed(tasks'))
  BY <1>3, <1>4, Elsewhere, FilesNone
<1> QED BY <1>3, <1>4, <1>5, <1>6, RecordGoesOn

\* A step of one task.
LEMMA TaskRecorded ==
    ASSUME Typed, Recorded, NEW id, NEW kind, NEW to, NEW payload,
           events' = append_event("task", id, kind, to, payload), kind # "fired",
           now' = now, UNCHANGED <<directions, blocks, reviews, routines, fires>>,
           \A e : e = Event("task", id, kind, to, payload) =>
              /\ Follows(e, "task", Statuses(tasks), Statuses(tasks'))
              /\ Files(e, Directed(tasks), Directed(tasks'))
    PROVE  Recorded'
<1>1. PICK e : e = Event("task", id, kind, to, payload)
  OBVIOUS
<1>2. e.entity = "task" /\ e.kind = kind /\ e.at = now
  BY <1>1, EventIs
<1>3. events' = Append(events, e)
  BY <1>1 DEF append_event
<1>4. /\ Follows(e, "block", Statuses(blocks), Statuses(blocks'))
      /\ Follows(e, "direction", Drawn(directions), Drawn(directions'))
      /\ Follows(e, "review", Opened(reviews), Opened(reviews'))
      /\ Follows(e, "routine", routines, routines')
  BY <1>2, Elsewhere
<1> QED BY <1>1, <1>2, <1>3, <1>4, RecordGoesOn

\* A new task.
LEMMA InsertRecorded ==
    ASSUME Typed, Recorded, NEW w, NEW d, NEW status \in {"backlog", "planned"}, NEW payload,
           payload.direction = d, InsertTask(w, d, status, payload)
    PROVE  Recorded'
<1>1. PICK row : row = [week |-> w, direction |-> d, status |-> status, created_at |-> now]
  OBVIOUS
<1>2. row.status = status /\ row.direction = d
  BY <1>1
<1>3. tasks \in Seq(Task) /\ tasks' = Append(tasks, row)
  BY <1>1 DEF Typed, InsertTask
<1>4. /\ events' = append_event("task", Len(tasks) + 1, "created", status, payload)
      /\ now' = now /\ UNCHANGED <<directions, blocks, reviews, routines, fires>>
  BY DEF InsertTask, reflect
<1>5. status # None
  BY Something DEF TaskStatus
<1>6. ASSUME NEW e, e = Event("task", Len(tasks) + 1, "created", status, payload)
      PROVE  /\ Follows(e, "task", Statuses(tasks), Statuses(tasks'))
             /\ Files(e, Directed(tasks), Directed(tasks'))
  <2>1. e.entity = "task" /\ e.id = Len(tasks) + 1 /\ e.kind = "created" /\ e.to = status
        /\ e.payload = payload
    BY <1>6, EventIs
  <2>2. Follows(e, "task", Statuses(tasks), Statuses(tasks'))
    BY <1>2, <1>3, <1>5, <2>1, RowAdded
  <2>3. PICK n : n = Len(tasks) + 1
    OBVIOUS
  <2>4. /\ DOMAIN tasks' = DOMAIN tasks \cup {n} /\ n \notin DOMAIN tasks
        /\ (\A i \in DOMAIN tasks : tasks'[i] = tasks[i]) /\ tasks'[n] = row
    BY <1>3, <2>3, LongerLog
  <2>5. /\ DOMAIN Directed(tasks') = DOMAIN tasks' /\ DOMAIN Directed(tasks) = DOMAIN tasks
        /\ \A i \in DOMAIN tasks' : Directed(tasks')[i] = tasks'[i].direction
        /\ \A i \in DOMAIN tasks : Directed(tasks)[i] = tasks[i].direction
    BY DEF Directed
  <2>6. Files(e, Directed(tasks), Directed(tasks'))
    BY <1>2, <2>1, <2>3, <2>4, <2>5 DEF Files
  <2> QED BY <2>2, <2>6
<1> QED BY <1>4, <1>6, TaskRecorded

\* The rows' statuses and Directions, position by position.
LEMMA RowsAre ==
    ASSUME NEW rows
    PROVE  /\ DOMAIN Statuses(rows) = DOMAIN rows /\ DOMAIN Directed(rows) = DOMAIN rows
           /\ \A i \in DOMAIN rows : Statuses(rows)[i] = rows[i].status /\ Directed(rows)[i] = rows[i].direction
BY DEF Statuses, Directed

\* A task moved.
LEMMA TransitionRecorded ==
    ASSUME Typed, Recorded, NEW t \in DOMAIN tasks, NEW to, transition_task(t, to)
    PROVE  Recorded'
<1>1. tasks \in Seq(Task)
  BY DEF Typed
<1>2. tasks[t] \in Task /\ to \in TaskStatus
  BY <1>1 DEF transition_task, task_transition_allowed, TaskStatus
<1> DEFINE us == [tasks[t] EXCEPT !.status = to]
<1>3. us.status = to /\ us.direction = tasks[t].direction
  BY <1>2 DEF Task
<1>4. tasks' = [tasks EXCEPT ![t] = us]
  BY DEF transition_task
<1> HIDE DEF us
<1>5. DOMAIN tasks' = DOMAIN tasks /\ tasks'[t] = us /\ \A c \in DOMAIN tasks : c # t => tasks'[c] = tasks[c]
  BY <1>1, <1>4
<1>6. /\ events' = append_event("task", t, "transitioned", to, <<>>)
      /\ now' = now /\ UNCHANGED <<directions, blocks, reviews, routines, fires>>
  BY DEF transition_task, reflect
<1>7. to # None
  BY <1>2, Something
<1>8. ASSUME NEW e, e = Event("task", t, "transitioned", to, <<>>)
      PROVE  /\ Follows(e, "task", Statuses(tasks), Statuses(tasks'))
             /\ Files(e, Directed(tasks), Directed(tasks'))
  <2>1. e.entity = "task" /\ e.id = t /\ e.kind = "transitioned" /\ e.to = to
    BY <1>8, EventIs
  <2>2. /\ DOMAIN Statuses(tasks') = DOMAIN Statuses(tasks) /\ t \in DOMAIN Statuses(tasks)
        /\ Statuses(tasks')[t] = to
        /\ \A c \in DOMAIN Statuses(tasks) : c # t => Statuses(tasks')[c] = Statuses(tasks)[c]
    BY <1>3, <1>5, RowsAre
  <2>3. Follows(e, "task", Statuses(tasks), Statuses(tasks'))
    BY <1>7, <2>1, <2>2, RowMoved
  <2>4. /\ DOMAIN Directed(tasks') = DOMAIN Directed(tasks)
        /\ \A c \in DOMAIN Directed(tasks) : Directed(tasks')[c] = Directed(tasks)[c]
    BY <1>3, <1>5, RowsAre
  <2>5. Files(e, Directed(tasks), Directed(tasks'))
    BY <2>1, <2>4 DEF Files
  <2> QED BY <2>3, <2>5
<1> QED BY <1>6, <1>8, TaskRecorded

\* A task filed.
LEMMA AssignRecorded ==
    ASSUME Typed, Recorded, NEW t \in DOMAIN tasks, NEW d, apply_assign_task_direction(t, d)
    PROVE  Recorded'
<1>1. tasks \in Seq(Task)
  BY DEF Typed
<1>2. tasks[t] \in Task
  BY <1>1
<1> DEFINE us == [tasks[t] EXCEPT !.direction = d]
<1>3. us.direction = d /\ us.status = tasks[t].status
  BY <1>2 DEF Task
<1>4. tasks' = [tasks EXCEPT ![t] = us]
  BY DEF apply_assign_task_direction
<1> HIDE DEF us
<1>5. DOMAIN tasks' = DOMAIN tasks /\ tasks'[t] = us /\ \A c \in DOMAIN tasks : c # t => tasks'[c] = tasks[c]
  BY <1>1, <1>4
<1>6. /\ events' = append_event("task", t, "direction_assigned", None, [direction |-> d])
      /\ now' = now /\ UNCHANGED <<directions, blocks, reviews, routines, fires>>
  BY DEF apply_assign_task_direction, reflect
<1>8. ASSUME NEW e, e = Event("task", t, "direction_assigned", None, [direction |-> d])
      PROVE  /\ Follows(e, "task", Statuses(tasks), Statuses(tasks'))
             /\ Files(e, Directed(tasks), Directed(tasks'))
  <2>1. e.entity = "task" /\ e.id = t /\ e.kind = "direction_assigned" /\ e.to = None
        /\ e.payload.direction = d
    BY <1>8, EventIs
  <2>2. /\ DOMAIN Statuses(tasks') = DOMAIN Statuses(tasks) /\ t \in DOMAIN Statuses(tasks)
        /\ \A c \in DOMAIN Statuses(tasks) : Statuses(tasks')[c] = Statuses(tasks)[c]
    BY <1>3, <1>5, RowsAre
  <2>3. Follows(e, "task", Statuses(tasks), Statuses(tasks'))
    BY <2>1, <2>2 DEF Follows
  <2>4. /\ DOMAIN Directed(tasks') = DOMAIN Directed(tasks) /\ Directed(tasks')[t] = d
        /\ \A c \in DOMAIN Directed(tasks) : c # t => Directed(tasks')[c] = Directed(tasks)[c]
    BY <1>3, <1>5, RowsAre
  <2>5. Files(e, Directed(tasks), Directed(tasks'))
    BY <2>1, <2>4 DEF Files
  <2> QED BY <2>3, <2>5
<1> QED BY <1>6, <1>8, TaskRecorded

\* A step of one block.
LEMMA BlockRecorded ==
    ASSUME Typed, Recorded, NEW id, NEW kind \in {"created", "transitioned"}, NEW to, NEW payload,
           events' = append_event("block", id, kind, to, payload),
           now' = now, UNCHANGED <<directions, tasks, reviews, routines, fires>>,
           \A e : e = Event("block", id, kind, to, payload) =>
              Follows(e, "block", Statuses(blocks), Statuses(blocks'))
    PROVE  Recorded'
<1>1. PICK e : e = Event("block", id, kind, to, payload)
  OBVIOUS
<1>2. e.entity = "block" /\ e.kind = kind /\ e.at = now
  BY <1>1, EventIs
<1>3. events' = Append(events, e)
  BY <1>1 DEF append_event
<1>4. /\ Follows(e, "task", Statuses(tasks), Statuses(tasks'))
      /\ Follows(e, "direction", Drawn(directions), Drawn(directions'))
      /\ Follows(e, "review", Opened(reviews), Opened(reviews'))
      /\ Follows(e, "routine", routines, routines')
      /\ Files(e, Directed(tasks), Directed(tasks'))
  BY <1>2, Elsewhere, FilesNone
<1>5. e.kind # "fired"
  BY <1>2
<1> QED BY <1>1, <1>2, <1>3, <1>4, <1>5, RecordGoesOn

\* A new block.
LEMMA NewBlockRecorded ==
    ASSUME Typed, Recorded, NEW d, NEW t, NEW m, create_block(d, t, m)
    PROVE  Recorded'
<1>1. PICK row : row = ScheduleBlock(d, t, m)
  OBVIOUS
<1>2. row.status = "planned" /\ "planned" # None
  BY <1>1, Something DEF ScheduleBlock, ScheduleBlockStatus
<1>3. blocks \in Seq(Block) /\ blocks' = Append(blocks, row)
  BY <1>1 DEF Typed, create_block
<1>4. /\ events' = append_event("block", Len(blocks) + 1, "created", "planned", <<>>)
      /\ now' = now /\ UNCHANGED <<directions, tasks, reviews, routines, fires>>
  BY DEF create_block, reflect
<1>5. ASSUME NEW e, e = Event("block", Len(blocks) + 1, "created", "planned", <<>>)
      PROVE  Follows(e, "block", Statuses(blocks), Statuses(blocks'))
  <2>1. e.entity = "block" /\ e.id = Len(blocks) + 1 /\ e.to = "planned"
    BY <1>5, EventIs
  <2> QED BY <1>2, <1>3, <2>1, RowAdded
<1> QED BY <1>4, <1>5, BlockRecorded

\* A block moved.
LEMMA BlockMoveRecorded ==
    ASSUME LedgerInv, Recorded, NEW b \in DOMAIN blocks, NEW to \in ScheduleBlockStatus,
           transition_block(b, to)
    PROVE  Recorded'
<1>1. PICK payload : events' = append_event("block", b, "transitioned", to, payload)
  BY DEF transition_block
<1>2. now' = now /\ UNCHANGED <<directions, tasks, reviews, routines, fires>>
  BY DEF transition_block, reflect
<1>3. /\ DOMAIN blocks' = DOMAIN blocks /\ blocks'[b].status = to
      /\ \A c \in DOMAIN blocks : c # b => blocks'[c].status = blocks[c].status
  BY BlockMoved
<1>4. to # None
  BY Something
<1>5. ASSUME NEW e, e = Event("block", b, "transitioned", to, payload)
      PROVE  Follows(e, "block", Statuses(blocks), Statuses(blocks'))
  <2>1. e.entity = "block" /\ e.id = b /\ e.to = to
    BY <1>5, EventIs
  <2>2. /\ DOMAIN Statuses(blocks') = DOMAIN Statuses(blocks) /\ b \in DOMAIN Statuses(blocks)
        /\ Statuses(blocks')[b] = to
        /\ \A c \in DOMAIN Statuses(blocks) : c # b => Statuses(blocks')[c] = Statuses(blocks)[c]
    BY <1>3, RowsAre
  <2> QED BY <1>4, <2>1, <2>2, RowMoved
<1> QED BY <1>1, <1>2, <1>5, BlockRecorded DEF LedgerInv

\* A Routine moved.
LEMMA RoutineRecorded ==
    ASSUME LedgerInv, Recorded, NEW r \in Routines, NEW to \in RoutineStatus, transition_routine(r, to)
    PROVE  Recorded'
<1>1. PICK e : e = Event("routine", r, to, to, <<>>)
  OBVIOUS
<1>2. e.entity = "routine" /\ e.id = r /\ e.kind = to /\ e.to = to /\ e.at = now
  BY <1>1, EventIs
<1>3. /\ events' = Append(events, e) /\ now' = now
      /\ UNCHANGED <<directions, tasks, blocks, reviews, fires>>
  BY <1>1 DEF transition_routine, append_event, plan, reflect
<1>4. routines \in [Routines -> RoutineStatus] /\ routines' = [routines EXCEPT ![r] = to]
  BY DEF LedgerInv, Delivered, transition_routine
<1>5. to # None /\ to # "fired"
  BY Something DEF RoutineStatus
<1>6. Follows(e, "routine", routines, routines')
  BY <1>2, <1>4, <1>5, RowMoved
<1>7. /\ Follows(e, "task", Statuses(tasks), Statuses(tasks'))
      /\ Follows(e, "block", Statuses(blocks), Statuses(blocks'))
      /\ Follows(e, "direction", Drawn(directions), Drawn(directions'))
      /\ Follows(e, "review", Opened(reviews), Opened(reviews'))
      /\ Files(e, Directed(tasks), Directed(tasks'))
  BY <1>2, <1>3, Elsewhere, FilesNone
<1> QED BY <1>2, <1>3, <1>5, <1>6, <1>7, RecordGoesOn DEF LedgerInv

\* A Review opened, or moved to the status its event gives it.
LEMMA ReviewMoved ==
    ASSUME NEW rows, NEW w \in DOMAIN rows, NEW rs, DOMAIN rs = DOMAIN rows,
           \A v \in DOMAIN rows : v # w => rs[v].status = rows[v].status,
           NEW e, e.entity = "review", e.id = w, e.to # None, e.to # "absent", rs[w].status = e.to
    PROVE  Follows(e, "review", Opened(rows), Opened(rs))
<1>1. /\ DOMAIN Opened(rows) = {v \in DOMAIN rows : rows[v].status # "absent"}
      /\ DOMAIN Opened(rs) = {v \in DOMAIN rs : rs[v].status # "absent"}
      /\ \A v \in DOMAIN Opened(rows) : Opened(rows)[v] = rows[v].status
      /\ \A v \in DOMAIN Opened(rs) : Opened(rs)[v] = rs[v].status
  BY DEF Opened
<1>2. DOMAIN Opened(rs) = DOMAIN Opened(rows) \cup {w}
  BY <1>1
<1> QED BY <1>1, <1>2 DEF Follows

\* A body rewritten moves no Review.
LEMMA BodiesOnly ==
    ASSUME NEW rows, NEW rs, DOMAIN rs = DOMAIN rows, \A v \in DOMAIN rows : rs[v].status = rows[v].status
    PROVE  Opened(rs) = Opened(rows)
BY DEF Opened

\* A step of one Review, or of one Proposal.
LEMMA ReviewRecorded ==
    ASSUME Typed, Recorded, NEW entity \in {"review", "proposal"}, NEW id,
           NEW kind \in {"created", "updated", "finalized", "submitted", "rejected"}, NEW to, NEW payload,
           events' = append_event(entity, id, kind, to, payload),
           now' = now, UNCHANGED <<directions, tasks, blocks, routines, fires>>,
           \A e : e = Event(entity, id, kind, to, payload) =>
              Follows(e, "review", Opened(reviews), Opened(reviews'))
    PROVE  Recorded'
<1>1. PICK e : e = Event(entity, id, kind, to, payload)
  OBVIOUS
<1>2. e.entity = entity /\ e.kind = kind /\ e.at = now
  BY <1>1, EventIs
<1>3. events' = Append(events, e)
  BY <1>1 DEF append_event
<1>4. /\ Follows(e, "task", Statuses(tasks), Statuses(tasks'))
      /\ Follows(e, "block", Statuses(blocks), Statuses(blocks'))
      /\ Follows(e, "direction", Drawn(directions), Drawn(directions'))
      /\ Follows(e, "routine", routines, routines')
      /\ Files(e, Directed(tasks), Directed(tasks'))
  BY <1>2, Elsewhere, FilesNone
<1>5. e.kind # "fired"
  BY <1>2
<1> QED BY <1>1, <1>2, <1>3, <1>4, <1>5, RecordGoesOn

\* The Review of one week, given the status its event gives it.
LEMMA ReviewStep ==
    ASSUME JournalInv, Recorded, NEW w \in Weeks, NEW status \in {"draft", "finalized"}, NEW body,
           NEW kind \in {"created", "finalized"}, NEW payload,
           events' = append_event("review", w, kind, status, payload),
           reviews' = [reviews EXCEPT ![w] = [status |-> status, body |-> body]],
           now' = now, UNCHANGED <<directions, tasks, blocks, routines, fires>>
    PROVE  Recorded'
<1>1. PICK B : reviews \in [Weeks -> ReviewRow(B)]
  BY DEF JournalInv, Drafted, Texted
<1>2. PICK row : row = [status |-> status, body |-> body]
  OBVIOUS
<1>3. row.status = status
  BY <1>2
<1>4. /\ DOMAIN reviews' = DOMAIN reviews /\ w \in DOMAIN reviews /\ reviews'[w] = row
      /\ \A v \in DOMAIN reviews : v # w => reviews'[v].status = reviews[v].status
  BY <1>1, <1>2
<1>5. status # None /\ status # "absent"
  BY Something
<1>6. ASSUME NEW e, e = Event("review", w, kind, status, payload)
      PROVE  Follows(e, "review", Opened(reviews), Opened(reviews'))
  <2>1. e.entity = "review" /\ e.id = w /\ e.to = status
    BY <1>6, EventIs
  <2> QED BY <1>3, <1>4, <1>5, <2>1, ReviewMoved
<1>7. kind \in {"created", "updated", "finalized", "submitted", "rejected"}
  OBVIOUS
<1> QED BY <1>6, <1>7, ReviewRecorded DEF JournalInv, LedgerInv

\* The body of the Review of one week, rewritten.
LEMMA BodyStep ==
    ASSUME JournalInv, Recorded, NEW w \in Weeks, reviews[w].status = "draft", NEW body,
           events' = append_event("review", w, "updated", None, <<>>),
           reviews' = [reviews EXCEPT ![w].body = body],
           now' = now, UNCHANGED <<directions, tasks, blocks, routines, fires>>
    PROVE  Recorded'
<1>1. PICK B : reviews \in [Weeks -> ReviewRow(B)]
  BY DEF JournalInv, Drafted, Texted
<1>2. PICK row : row = [status |-> "draft", body |-> body]
  OBVIOUS
<1>3. reviews' = [reviews EXCEPT ![w] = row]
  BY <1>2, ReviewIs DEF JournalInv
<1>4. DOMAIN reviews' = DOMAIN reviews /\ \A v \in DOMAIN reviews : reviews'[v].status = reviews[v].status
  BY <1>1, <1>2, <1>3
<1>5. Opened(reviews') = Opened(reviews)
  BY <1>4, BodiesOnly
<1>6. w \in DOMAIN Opened(reviews)
  BY <1>1 DEF Opened
<1>7. ASSUME NEW e, e = Event("review", w, "updated", None, <<>>)
      PROVE  Follows(e, "review", Opened(reviews), Opened(reviews'))
  <2>1. e.id = w /\ e.to = None
    BY <1>7, EventIs
  <2> QED BY <1>5, <1>6, <2>1, NoStatus
<1>8. "updated" \in {"created", "updated", "finalized", "submitted", "rejected"}
      /\ "review" \in {"review", "proposal"}
  OBVIOUS
<1> QED BY <1>7, <1>8, ReviewRecorded DEF JournalInv, LedgerInv

\* An event of a Proposal alone.
LEMMA ProposalStep ==
    ASSUME JournalInv, Recorded, NEW i, NEW kind \in {"submitted", "rejected"},
           events' = append_event("proposal", i, kind, None, <<>>),
           now' = now, UNCHANGED <<directions, tasks, blocks, reviews, routines, fires>>
    PROVE  Recorded'
<1>1. ASSUME NEW e, e = Event("proposal", i, kind, None, <<>>)
      PROVE  Follows(e, "review", Opened(reviews), Opened(reviews'))
  <2>1. e.entity = "proposal"
    BY <1>1, EventIs
  <2> QED BY <2>1, Elsewhere
<1>2. kind \in {"created", "updated", "finalized", "submitted", "rejected"}
      /\ "proposal" \in {"review", "proposal"}
  OBVIOUS
<1> QED BY <1>1, <1>2, ReviewRecorded DEF JournalInv, LedgerInv

\* The user's Reviews and decisions.
LEMMA HumanRecorded ==
    ASSUME JournalInv, Recorded, Human
    PROVE  Recorded'
<1>1. ASSUME NEW w \in Weeks, create_review(w) PROVE Recorded'
  <2>1. /\ events' = append_event("review", w, "created", "draft", <<>>)
        /\ reviews' = [reviews EXCEPT ![w] = [status |-> "draft", body |-> Blank]]
        /\ now' = now /\ UNCHANGED <<directions, tasks, blocks, routines, fires>>
    BY <1>1 DEF create_review, plan
  <2>2. "draft" \in {"draft", "finalized"} /\ "created" \in {"created", "finalized"}
    OBVIOUS
  <2> QED BY <2>1, <2>2, ReviewStep
<1>2. ASSUME NEW w \in Weeks, finalize_review(w) PROVE Recorded'
  <2>1. PICK b : b = reviews[w].body
    OBVIOUS
  <2>2. reviews' = [reviews EXCEPT ![w] = [status |-> "finalized", body |-> b]]
    BY <1>2, <2>1, ReviewIs DEF finalize_review, JournalInv
  <2>3. /\ events' = append_event("review", w, "finalized", "finalized", <<>>)
        /\ now' = now /\ UNCHANGED <<directions, tasks, blocks, routines, fires>>
    BY <1>2 DEF finalize_review, plan
  <2>4. "finalized" \in {"draft", "finalized"} /\ "finalized" \in {"created", "finalized"}
    OBVIOUS
  <2> QED BY <2>2, <2>3, <2>4, ReviewStep
<1>3. ASSUME NEW w \in Weeks, NEW body, update_review_body(w, body) PROVE Recorded'
  <2>1. /\ events' = append_event("review", w, "updated", None, <<>>)
        /\ reviews[w].status = "draft" /\ reviews' = [reviews EXCEPT ![w].body = body]
        /\ now' = now /\ UNCHANGED <<directions, tasks, blocks, routines, fires>>
    BY <1>3 DEF update_review_body, plan
  <2> QED BY <2>1, BodyStep
<1>4. ASSUME NEW i \in DOMAIN drafts, apply_draft(i) PROVE Recorded'
  <2>1. PICK w \in Weeks : w = drafts[i].week
    BY DraftIs DEF JournalInv, Drafted
  <2>2. PICK b : b = drafts[i].body
    OBVIOUS
  <2>3. /\ events' = append_event("review", w, "updated", None, <<>>)
        /\ reviews[w].status = "draft" /\ reviews' = [reviews EXCEPT ![w].body = b]
        /\ now' = now /\ UNCHANGED <<directions, tasks, blocks, routines, fires>>
    BY <1>4, <2>1, <2>2 DEF apply_draft, StillApplies, plan
  <2> QED BY <2>3, BodyStep
<1>5. ASSUME NEW i, reject_draft(i) PROVE Recorded'
  <2>1. /\ events' = append_event("proposal", i, "rejected", None, <<>>)
        /\ now' = now /\ UNCHANGED <<directions, tasks, blocks, reviews, routines, fires>>
    BY <1>5 DEF reject_draft, plan
  <2>2. "rejected" \in {"submitted", "rejected"}
    OBVIOUS
  <2> QED BY <2>1, <2>2, ProposalStep
<1> QED BY <1>1, <1>2, <1>3, <1>4, <1>5 DEF Human

\* A step that writes no event.
LEMMA SilentRecorded ==
    ASSUME Typed, Recorded, UNCHANGED <<events, directions, tasks, blocks, reviews, routines, fires>>,
           now' \in Nat, now <= now'
    PROVE  Recorded'
<1>1. now \in Nat
  BY JournalAssumption DEF Typed
<1>2. PICK es, m, n : m \in Nat /\ n \in Nat /\ es = events /\ m = now /\ n = now'
  BY <1>1
<1>3. Stamped(es, n)
  <2>1. Stamped(es, m) /\ m <= n
    BY <1>2 DEF Recorded
  <2> QED BY <1>2, <2>1 DEF Stamped
<1> QED BY <1>2, <1>3 DEF Recorded

\* Summarize, and the clock.
LEMMA SummarizeRecorded ==
    ASSUME JournalInv, Recorded, Summarize
    PROVE  Recorded'
<1>0. now \in Nat /\ Typed
  BY JournalAssumption DEF JournalInv, LedgerInv, Typed
<1>1. CASE \/ \E w \in Weeks : trigger_summarize(w)
           \/ dedup_summarize \/ read_weekly_draft \/ run_ends
           \/ \E c \in world.chars : model_writes(c)
  <2>1. UNCHANGED <<events, directions, tasks, blocks, reviews, routines, fires>> /\ now' = now
    BY <1>1 DEF trigger_summarize, dedup_summarize, read_weekly_draft, run_ends, model_writes, log, plan
  <2> QED BY <1>0, <2>1, SilentRecorded
<1>2. CASE run_summarize
  <2>1. UNCHANGED <<directions, tasks, blocks, reviews, routines, fires>> /\ now' = now
    BY <1>2 DEF run_summarize, plan
  <2>2. \/ events' = append_event("proposal", Len(drafts) + 1, "submitted", None, <<>>)
        \/ UNCHANGED events
    BY <1>2 DEF run_summarize
  <2>3. "submitted" \in {"submitted", "rejected"}
    OBVIOUS
  <2> QED BY <1>0, <2>1, <2>2, <2>3, SilentRecorded, ProposalStep
<1> QED BY <1>1, <1>2 DEF Summarize

\* What a fire does to the log, before a Review is written behind it.
LEMMA FireLogged ==
    ASSUME JournalInv, Recorded, NEW f \in FireIds, NEW r \in Routines, fires[f] = None,
           NEW e, e = Event("routine", r, "fired", None, [fire |-> f]),
           NEW fs, fs = Append(events, e),
           NEW row, row = [routine |-> r, received_at |-> now],
           NEW rows, rows = [fires EXCEPT ![f] = row]
    PROVE  /\ Told(fs, "task", Statuses(tasks), None)
           /\ Told(fs, "block", Statuses(blocks), None)
           /\ Told(fs, "direction", Drawn(directions), None)
           /\ Told(fs, "review", Opened(reviews), None)
           /\ Told(fs, "routine", routines, "active")
           /\ FiledAs(fs, Directed(tasks))
           /\ Stamped(fs, now)
           /\ FiresStamped(fs, rows)
<1>1. Typed /\ Delivered
  BY DEF JournalInv, LedgerInv
<1>2. PICK S : events \in Seq(S)
  BY <1>1 DEF Typed
<1>3. now \in Nat
  BY <1>1, JournalAssumption DEF Typed
<1>4. /\ e.entity = "routine" /\ e.id = r /\ e.kind = "fired" /\ e.to = None /\ e.at = now
      /\ e.payload = [fire |-> f]
  BY EventIs
<1>5. DOMAIN routines = Routines
  BY <1>1 DEF Delivered
<1>6. Follows(e, "routine", routines, routines)
  BY <1>4, <1>5, NoStatus
<1>7. /\ Follows(e, "task", Statuses(tasks), Statuses(tasks))
      /\ Follows(e, "block", Statuses(blocks), Statuses(blocks))
      /\ Follows(e, "direction", Drawn(directions), Drawn(directions))
      /\ Follows(e, "review", Opened(reviews), Opened(reviews))
      /\ Files(e, Directed(tasks), Directed(tasks))
  BY <1>4, Elsewhere, FilesNone
<1>8. /\ Told(fs, "task", Statuses(tasks), None)
      /\ Told(fs, "block", Statuses(blocks), None)
      /\ Told(fs, "direction", Drawn(directions), None)
      /\ Told(fs, "review", Opened(reviews), None)
      /\ Told(fs, "routine", routines, "active")
  <2>0. /\ Told(events, "task", Statuses(tasks), None)
        /\ Told(events, "block", Statuses(blocks), None)
        /\ Told(events, "direction", Drawn(directions), None)
        /\ Told(events, "review", Opened(reviews), None)
        /\ Told(events, "routine", routines, "active")
    BY DEF Recorded
  <2>1. Told(fs, "task", Statuses(tasks), None)
    BY <1>2, <1>7, <2>0, ToldNext
  <2>2. Told(fs, "block", Statuses(blocks), None)
    BY <1>2, <1>7, <2>0, ToldNext
  <2>3. Told(fs, "direction", Drawn(directions), None)
    BY <1>2, <1>7, <2>0, ToldNext
  <2>4. Told(fs, "review", Opened(reviews), None)
    BY <1>2, <1>7, <2>0, ToldNext
  <2>5. Told(fs, "routine", routines, "active")
    BY <1>2, <1>6, <2>0, ToldNext
  <2> QED BY <2>1, <2>2, <2>3, <2>4, <2>5
<1>9. FiledAs(fs, Directed(tasks))
  BY <1>2, <1>7, FiledNext DEF Recorded
<1>10. Stamped(fs, now)
  BY <1>2, <1>3, <1>4, StampedNext DEF Recorded
<1>11. FiresStamped(fs, rows)
  <2>1. PICK n : n = Len(events) + 1
    OBVIOUS
  <2>2. DOMAIN fs = DOMAIN events \cup {n} /\ (\A i \in DOMAIN events : fs[i] = events[i]) /\ fs[n] = e
    BY <1>2, <2>1, LongerLog
  <2>3. FiresStamped(events, fires)
    BY DEF Recorded
  <2>4. /\ f \in DOMAIN fires
        /\ \A i \in DOMAIN events : Fired(events[i]) =>
              events[i].payload.fire \in FireIds /\ fires[events[i].payload.fire] # None
        /\ DOMAIN fires = FireIds
    BY <1>1 DEF Delivered
  <2>5. rows[f] = row /\ row.received_at = now /\ \A x \in FireIds : x # f => rows[x] = fires[x]
    BY <2>4
  <2>6. ASSUME NEW i \in DOMAIN fs, fs[i].kind = "fired"
        PROVE  fs[i].entity = "routine" /\ rows[fs[i].payload.fire].received_at = fs[i].at
    <3>1. CASE i = n
      BY <1>4, <2>2, <2>5, <3>1
    <3>2. CASE i \in DOMAIN events
      <4>1. fs[i] = events[i] /\ events[i].kind = "fired"
        BY <2>2, <2>6, <3>2
      <4>2. events[i].entity = "routine" /\ fires[events[i].payload.fire].received_at = events[i].at
        BY <2>3, <3>2, <4>1 DEF FiresStamped
      <4>3. events[i].payload.fire \in FireIds /\ events[i].payload.fire # f
        BY <2>4, <3>2, <4>1, <4>2 DEF Fired
      <4> QED BY <2>5, <4>1, <4>2, <4>3
    <3> QED BY <2>2, <3>1, <3>2
  <2> QED BY <2>6 DEF FiresStamped
<1> QED BY <1>8, <1>9, <1>10, <1>11

\* A fire of a Routine, and the Review that one of kind review may open.
LEMMA FireRecorded ==
    ASSUME JournalInv, Recorded, NEW f \in FireIds, NEW r \in Routines, NEW s \in 0..now,
           scheduler_fired(f, r, s)
    PROVE  Recorded'
<1>1. Typed /\ Delivered /\ now \in Nat
  BY JournalAssumption DEF JournalInv, LedgerInv, Typed
<1>2. PICK S : events \in Seq(S)
  BY <1>1 DEF Typed
<1>3. PICK e : e = Event("routine", r, "fired", None, [fire |-> f])
  OBVIOUS
<1>4. PICK fs : fs = Append(events, e)
  OBVIOUS
<1>5. PICK row : row = [routine |-> r, received_at |-> now]
  OBVIOUS
<1>6. PICK rows : rows = [fires EXCEPT ![f] = row]
  OBVIOUS
<1>7. fires[f] = None /\ fires' = rows /\ now' = now /\ UNCHANGED <<directions, tasks, blocks, routines>>
  BY <1>5, <1>6 DEF scheduler_fired, record_routine_fire, RoutineFireOutcome, is_new_fire, plan
<1>8. /\ Told(fs, "task", Statuses(tasks), None)
      /\ Told(fs, "block", Statuses(blocks), None)
      /\ Told(fs, "direction", Drawn(directions), None)
      /\ Told(fs, "review", Opened(reviews), None)
      /\ Told(fs, "routine", routines, "active")
      /\ FiledAs(fs, Directed(tasks))
      /\ Stamped(fs, now)
      /\ FiresStamped(fs, rows)
  BY <1>3, <1>4, <1>5, <1>6, <1>7, FireLogged
<1>9. PICK w \in Weeks : w = iso_week_of(s)
  BY <1>1, SlotWeek
<1>10. PICK g : g = Event("review", w, "created", "draft", <<>>)
  OBVIOUS
<1>11. \/ events' = fs /\ UNCHANGED reviews
       \/ /\ events' = Append(fs, g)
          /\ \E b : reviews' = [reviews EXCEPT ![w] = [status |-> "draft", body |-> b]]
  BY <1>3, <1>4, <1>9, <1>10
     DEF scheduler_fired, record_routine_fire, insert_weekly_review_draft_if_absent, append_event
<1>12. CASE events' = fs /\ UNCHANGED reviews
  BY <1>7, <1>8, <1>12 DEF Recorded
<1>13. ASSUME events' = Append(fs, g), NEW b,
              reviews' = [reviews EXCEPT ![w] = [status |-> "draft", body |-> b]]
       PROVE  Recorded'
  <2>1. /\ g.entity = "review" /\ g.id = w /\ g.kind = "created" /\ g.to = "draft" /\ g.at = now
    BY <1>10, EventIs
  <2>2. fs \in Seq(S \cup {e})
    BY <1>2, <1>4, AppendIs
  <2>3. PICK gs : gs = Append(fs, g)
    OBVIOUS
  <2>4. PICK new : new = [status |-> "draft", body |-> b]
    OBVIOUS
  <2>5. PICK B : reviews \in [Weeks -> ReviewRow(B)]
    BY DEF JournalInv, Drafted, Texted
  <2>6. /\ DOMAIN reviews' = DOMAIN reviews /\ w \in DOMAIN reviews /\ reviews'[w].status = "draft"
        /\ \A v \in DOMAIN reviews : v # w => reviews'[v].status = reviews[v].status
    <3>1. reviews'[w] = new /\ new.status = "draft"
      BY <1>13, <2>4, <2>5
    <3> QED BY <1>13, <2>5, <3>1
  <2>7. Follows(g, "review", Opened(reviews), Opened(reviews'))
    BY <2>1, <2>6, ReviewMoved, Something
  <2>8. /\ Follows(g, "task", Statuses(tasks), Statuses(tasks))
        /\ Follows(g, "block", Statuses(blocks), Statuses(blocks))
        /\ Follows(g, "direction", Drawn(directions), Drawn(directions))
        /\ Follows(g, "routine", routines, routines)
        /\ Files(g, Directed(tasks), Directed(tasks))
    BY <2>1, Elsewhere, FilesNone
  <2>9. /\ Told(gs, "task", Statuses(tasks), None)
        /\ Told(gs, "block", Statuses(blocks), None)
        /\ Told(gs, "direction", Drawn(directions), None)
        /\ Told(gs, "review", Opened(reviews'), None)
        /\ Told(gs, "routine", routines, "active")
    BY <1>8, <2>2, <2>3, <2>7, <2>8, ToldNext
  <2>10. FiledAs(gs, Directed(tasks))
    BY <1>8, <2>2, <2>3, <2>8, FiledNext
  <2>11. Stamped(gs, now)
    BY <1>1, <1>8, <2>1, <2>2, <2>3, StampedNext
  <2>12. FiresStamped(gs, rows)
    <3>1. PICK n : n = Len(fs) + 1
      OBVIOUS
    <3>2. DOMAIN gs = DOMAIN fs \cup {n} /\ (\A i \in DOMAIN fs : gs[i] = fs[i]) /\ gs[n] = g
      BY <2>2, <2>3, <3>1, LongerLog
    <3> QED BY <1>8, <2>1, <3>2 DEF FiresStamped
  <2>13. events' = gs
    BY <1>13, <2>3
  <2> QED BY <1>7, <2>9, <2>10, <2>11, <2>12, <2>13 DEF Recorded
<1> QED BY <1>11, <1>12, <1>13

\* At the start there is nothing to record.
LEMMA RecordInit ==
    ASSUME Init
    PROVE  Recorded
<1>1. /\ events = <<>> /\ directions = <<>> /\ tasks = <<>> /\ blocks = <<>>
      /\ routines = [r \in Routines |-> "active"]
      /\ \A w \in DOMAIN reviews : reviews[w].status = "absent"
  BY DEF Init, NoReview
<1>2. DOMAIN events = {}
  BY <1>1
<1>3. DOMAIN Statuses(tasks) = {} /\ DOMAIN Statuses(blocks) = {} /\ DOMAIN Drawn(directions) = {}
      /\ DOMAIN Directed(tasks) = {} /\ DOMAIN Opened(reviews) = {}
  BY <1>1 DEF Statuses, Drawn, Directed, Opened
<1>4. \A x, id : Moves(events, x, id) = {}
  BY <1>2 DEF Moves
<1>5. Told(events, "routine", routines, "active")
  BY <1>1, <1>2, <1>4 DEF Told
<1>6. /\ Told(events, "task", Statuses(tasks), None)
      /\ Told(events, "block", Statuses(blocks), None)
      /\ Told(events, "direction", Drawn(directions), None)
      /\ Told(events, "review", Opened(reviews), None)
  BY <1>2, <1>3 DEF Told
<1>7. FiledAs(events, Directed(tasks)) /\ Stamped(events, now) /\ FiresStamped(events, fires)
  BY <1>2, <1>3 DEF FiledAs, Stamped, FiresStamped
<1> QED BY <1>5, <1>6, <1>7 DEF Recorded

\* Every step keeps the record.
LEMMA RecordKept ==
    ASSUME JournalInv, Recorded, [Next]_vars
    PROVE  Recorded'
<1>0. Typed /\ LedgerInv /\ now \in Nat
  BY JournalAssumption DEF JournalInv, LedgerInv, Typed
<1>1. CASE UNCHANGED vars
  <2>1. UNCHANGED <<events, directions, tasks, blocks, reviews, routines, fires>> /\ now' = now
    BY <1>1 DEF vars, log, plan, reflect
  <2> QED BY <1>0, <2>1, SilentRecorded
<1>2. CASE Tick \/ attention_apply_new_events \/ attention_rebuild
  <2>1. UNCHANGED <<events, directions, tasks, blocks, reviews, routines, fires>>
        /\ (now' = now \/ now' = now + 1)
    BY <1>2 DEF Tick, attention_apply_new_events, attention_rebuild, log, plan, reflect
  <2> QED BY <1>0, <2>1, SilentRecorded
<1>3. CASE Writes
  <2>1. ASSUME NEW a, create_direction(a) PROVE Recorded'
    BY <1>0, <2>1, DirectionRecorded
  <2>2. ASSUME NEW d, create_task(d) PROVE Recorded'
    <3>1. PICK payload : payload = [direction |-> d]
      OBVIOUS
    <3>2. payload.direction = d /\ InsertTask(None, d, "backlog", payload)
      BY <2>2, <3>1 DEF create_task
    <3>3. "backlog" \in {"backlog", "planned"}
      OBVIOUS
    <3> QED BY <1>0, <3>2, <3>3, InsertRecorded
  <2>3. ASSUME NEW d, NEW w, apply_create_tasks(w, d) PROVE Recorded'
    <3>1. PICK payload : payload = [week |-> w, direction |-> d]
      OBVIOUS
    <3>2. payload.direction = d /\ InsertTask(w, d, "planned", payload)
      BY <2>3, <3>1 DEF apply_create_tasks
    <3>3. "planned" \in {"backlog", "planned"}
      OBVIOUS
    <3> QED BY <1>0, <3>2, <3>3, InsertRecorded
  <2>4. ASSUME NEW t \in DOMAIN tasks, NEW to, transition_task(t, to) PROVE Recorded'
    BY <1>0, <2>4, TransitionRecorded
  <2>5. ASSUME NEW t \in DOMAIN tasks, NEW d, apply_assign_task_direction(t, d) PROVE Recorded'
    BY <1>0, <2>5, AssignRecorded
  <2>6. ASSUME NEW d, NEW t, NEW m, create_block(d, t, m) PROVE Recorded'
    BY <1>0, <2>6, NewBlockRecorded
  <2>7. ASSUME NEW b \in DOMAIN blocks, NEW to \in ScheduleBlockStatus, transition_block(b, to)
        PROVE  Recorded'
    BY <1>0, <2>7, BlockMoveRecorded
  <2>8. ASSUME NEW r \in Routines, NEW to \in RoutineStatus, transition_routine(r, to)
        PROVE  Recorded'
    BY <1>0, <2>8, RoutineRecorded
  <2> QED BY <1>3, <2>1, <2>2, <2>3, <2>4, <2>5, <2>6, <2>7, <2>8 DEF Writes
<1>4. CASE Fires
  BY <1>4, FireRecorded DEF Fires
<1> QED BY <1>1, <1>2, <1>3, <1>4, HumanRecorded, SummarizeRecorded DEF Next

\* The last event of every row is what the row says, in every state.
LEMMA RecordInvariant == Spec => []Recorded
<1>1. JournalInv /\ Recorded /\ [Next]_vars => Recorded'
  BY RecordKept
<1>2. Init => Recorded
  BY RecordInit
<1> QED BY <1>1, <1>2, JournalInvariant, PTL DEF Spec
-----------------------------------------------------------------------------
(* What a client knows from the log *)

\* The rows of entity x, their statuses, the Direction of a task and since when
\* it is in progress, and the last move of a Routine, from the events at D.
Seen(D, x) == {events[i].id : i \in {j \in D : events[j].entity = x}}
LastMove(D, x, id) ==
    Max({0} \cup {i \in D : events[i].entity = x /\ events[i].id = id /\ events[i].to # None})
SeenStatus(D, x, id) == events[LastMove(D, x, id)].to
SeenFiled(D, t) ==
    events[Max({0} \cup {i \in D : /\ events[i].entity = "task" /\ events[i].id = t
                                   /\ events[i].kind \in {"created", "direction_assigned"}})].payload.direction
SeenSince(D, t) ==
    events[Max({0} \cup {i \in D : /\ events[i].entity = "task" /\ events[i].id = t
                                   /\ events[i].to = "in_progress"})].at

SeenRows(D) ==
    /\ Seen(D, "task") = DOMAIN tasks
    /\ \A s \in {SeenStatus(D, "task", t) : t \in DOMAIN tasks} :
          WithStatus(s) = {t \in Seen(D, "task") : SeenStatus(D, "task", t) = s}
    /\ \A a \in world.areas :
          WithArea(a)
          = {t \in Seen(D, "task") :
                SeenFiled(D, t) # None /\ direction_area_snapshot_on(events)[SeenFiled(D, t)] = a}
    /\ Seen(D, "direction") = Range(list_directions)
    /\ Seen(D, "block") = Range(list_blocks)
    /\ \A b \in DOMAIN blocks : blocks[b].status = SeenStatus(D, "block", b)
    /\ Seen(D, "review") = list_reviews
    /\ \A w \in list_reviews : reviews[w].status = SeenStatus(D, "review", w)
    /\ \A r \in Routines :
          r \in list_routines(IF LastMove(D, "routine", r) = 0 THEN "active"
                              ELSE SeenStatus(D, "routine", r))

SeenOpen(D) ==
    \A t \in {u \in Seen(D, "task") : ~task_is_terminal(SeenStatus(D, "task", u))} :
        IF SeenFiled(D, t) = None THEN t \in Range(today_view.inbox)
        ELSE \/ t \in Range(today_view.must_do)
             \/ /\ Len(today_view.must_do) = MustDo
                /\ \A u \in Range(today_view.must_do) :
                      Precedence(SeenStatus(D, "task", u)) <= Precedence(SeenStatus(D, "task", t))

SeenStarted(D) ==
    Range(today_view.carry_over_candidates)
    = {t \in Seen(D, "task") : /\ SeenFiled(D, t) # None /\ SeenStatus(D, "task", t) = "in_progress"
                               /\ SinceMidnight(SeenSince(D, t))}

SeenFired(D) ==
    today_view.fired_routines
    = {events[i].id : i \in {j \in D : events[j].kind = "fired" /\ ~SinceMidnight(events[j].at)}}

\* What LogIsTheRecord says, of the events at D.
LEMMA RecordIs ==
    LogIsTheRecord
    <=> LET D == Range(Followed(None, 1))
        IN  SeenRows(D) /\ SeenOpen(D) /\ SeenStarted(D) /\ SeenFired(D)
BY DEF LogIsTheRecord, Latest, Seen, LastMove, SeenStatus, SeenFiled, SeenSince, SeenRows, SeenOpen,
       SeenStarted, SeenFired, WithStatus, WithArea

\* The greatest of some numbers.
LEMMA GreatestIs ==
    ASSUME NEW M, M \subseteq Nat, NEW m \in M, \A j \in M : j <= m
    PROVE  Max(M) = m
<1>1. \A x \in M : (\A j \in M : x >= j) <=> x = m
  OBVIOUS
<1> QED BY <1>1 DEF Max

\* The last of the moves of a row.
LEMMA LastMoveIs ==
    ASSUME Typed, NEW x, NEW f, NEW first, Told(events, x, f, first), NEW D, D = DOMAIN events
    PROVE  /\ Seen(D, x) \subseteq DOMAIN f
           /\ \A id \in DOMAIN f :
                \/ f[id] = first /\ LastMove(D, x, id) = 0
                \/ LastMove(D, x, id) # 0 /\ id \in Seen(D, x) /\ f[id] = SeenStatus(D, x, id)
<1>1. D \subseteq Nat \ {0}
  <2>1. PICK S : events \in Seq(S)
    BY DEF Typed
  <2> QED BY <2>1
<1>2. Seen(D, x) \subseteq DOMAIN f
  BY DEF Told, Seen
<1>3. ASSUME NEW id \in DOMAIN f
      PROVE  \/ f[id] = first /\ LastMove(D, x, id) = 0
             \/ LastMove(D, x, id) # 0 /\ id \in Seen(D, x) /\ f[id] = SeenStatus(D, x, id)
  <2>1. PICK M : M = Moves(events, x, id)
    OBVIOUS
  <2>2. LastMove(D, x, id) = Max({0} \cup M)
    BY <2>1 DEF LastMove, Moves
  <2>3. CASE f[id] = first /\ M = {}
    BY <2>2, <2>3, LastNone
  <2>4. CASE \E i \in M : LastOf(M, i) /\ events[i].to = f[id]
    <3>1. PICK i \in M : LastOf(M, i) /\ events[i].to = f[id]
      BY <2>4
    <3>2. i \in D /\ events[i].entity = x /\ events[i].id = id /\ M \subseteq Nat
      BY <1>1, <2>1 DEF Moves
    <3>3. \A j \in M : j <= i
      BY <3>1 DEF LastOf
    <3>4. LastMove(D, x, id) = i
      BY <2>2, <3>2, <3>3, LastIs
    <3>5. id \in Seen(D, x)
      BY <3>2 DEF Seen
    <3> QED BY <1>1, <3>1, <3>2, <3>4, <3>5 DEF SeenStatus
  <2> QED BY <2>1, <2>3, <2>4 DEF Told
<1> QED BY <1>2, <1>3

\* Rows that all moved.
LEMMA AllMoved ==
    ASSUME Typed, NEW x, NEW f, NEW first, Told(events, x, f, first), \A id \in DOMAIN f : f[id] # first,
           NEW D, D = DOMAIN events
    PROVE  /\ Seen(D, x) = DOMAIN f
           /\ \A id \in DOMAIN f : f[id] = SeenStatus(D, x, id)
BY LastMoveIs

\* The Direction of a task.
LEMMA FiledIs ==
    ASSUME Typed, Recorded, NEW D, D = DOMAIN events, NEW t \in DOMAIN tasks
    PROVE  SeenFiled(D, t) = tasks[t].direction
<1>1. D \subseteq Nat
  <2>1. PICK S : events \in Seq(S)
    BY DEF Typed
  <2> QED BY <2>1
<1>2. PICK M : M = Assigned(events, t)
  OBVIOUS
<1>3. SeenFiled(D, t) = events[Max({0} \cup M)].payload.direction /\ M \subseteq Nat
  BY <1>1, <1>2 DEF SeenFiled, Assigned
<1>4. t \in DOMAIN Directed(tasks) /\ Directed(tasks)[t] = tasks[t].direction
  BY DEF Directed
<1>5. PICK i \in M : LastOf(M, i) /\ events[i].payload.direction = tasks[t].direction
  BY <1>2, <1>4 DEF Recorded, FiledAs
<1>6. \A j \in M : j <= i
  BY <1>5 DEF LastOf
<1>7. Max({0} \cup M) = i
  BY <1>3, <1>6, LastIs
<1> QED BY <1>3, <1>5, <1>7

\* The tasks the log tells are those of the table.
LEMMA TasksSeen ==
    ASSUME Typed, Recorded, NEW D, D = DOMAIN events
    PROVE  /\ Seen(D, "task") = DOMAIN tasks
           /\ \A t \in DOMAIN tasks : /\ SeenStatus(D, "task", t) = tasks[t].status
                                      /\ SeenFiled(D, t) = tasks[t].direction
<1>1. PICK f : f = Statuses(tasks)
  OBVIOUS
<1>2. DOMAIN f = DOMAIN tasks /\ \A t \in DOMAIN tasks : f[t] = tasks[t].status
  BY <1>1, RowsAre
<1>3. \A t \in DOMAIN tasks : tasks[t].status \in TaskStatus
  <2>1. tasks \in Seq(Task)
    BY DEF Typed
  <2>2. \A t \in DOMAIN tasks : tasks[t] \in Task
    BY <2>1
  <2> QED BY <2>2 DEF Task
<1>4. Told(events, "task", f, None) /\ \A t \in DOMAIN f : f[t] # None
  BY <1>1, <1>2, <1>3, Something DEF Recorded
<1>5. Seen(D, "task") = DOMAIN f /\ \A t \in DOMAIN f : f[t] = SeenStatus(D, "task", t)
  BY <1>4, AllMoved
<1> QED BY <1>2, <1>5, FiledIs

\* The tables the log tells are those that the lists return.
LEMMA RowsSeen ==
    ASSUME JournalInv, Recorded, NEW D, D = DOMAIN events
    PROVE  SeenRows(D)
<1>0. Typed /\ Logged /\ Delivered
  BY DEF JournalInv, LedgerInv
<1>1. /\ Seen(D, "task") = DOMAIN tasks
      /\ \A t \in DOMAIN tasks : /\ SeenStatus(D, "task", t) = tasks[t].status
                                 /\ SeenFiled(D, t) = tasks[t].direction
  BY <1>0, TasksSeen
<1>2. \A s : WithStatus(s) = {t \in Seen(D, "task") : SeenStatus(D, "task", t) = s}
  BY <1>0, <1>1, ListsAre
<1>3. \A a : WithArea(a) = {t \in Seen(D, "task") :
                SeenFiled(D, t) # None /\ direction_area_snapshot_on(events)[SeenFiled(D, t)] = a}
  <2>1. direction_area_snapshot_on(events) = directions
    BY <1>0, SnapshotIsDirections
  <2>2. \A a : WithArea(a) = {t \in DOMAIN tasks : InArea(t, a)}
    BY <1>0, ListsAre
  <2> QED BY <1>1, <2>1, <2>2 DEF InArea
<1>4. Seen(D, "direction") = Range(list_directions)
  <2>1. PICK f : f = Drawn(directions)
    OBVIOUS
  <2>2. DOMAIN f = DOMAIN directions /\ \A d \in DOMAIN f : f[d] # None
    BY <2>1, Something DEF Drawn
  <2>3. Seen(D, "direction") = DOMAIN f
    BY <1>0, <2>1, <2>2, AllMoved DEF Recorded
  <2> QED BY <1>0, <2>2, <2>3, ListsAre
<1>5. /\ Seen(D, "block") = Range(list_blocks)
      /\ \A b \in DOMAIN blocks : blocks[b].status = SeenStatus(D, "block", b)
  <2>1. PICK f : f = Statuses(blocks)
    OBVIOUS
  <2>2. DOMAIN f = DOMAIN blocks /\ \A b \in DOMAIN blocks : f[b] = blocks[b].status
    BY <2>1, RowsAre
  <2>3. \A b \in DOMAIN blocks : blocks[b].status \in ScheduleBlockStatus
    <3>1. blocks \in Seq(Block)
      BY <1>0 DEF Typed
    <3>2. \A b \in DOMAIN blocks : blocks[b] \in Block
      BY <3>1
    <3> QED BY <3>2 DEF Block
  <2>4. Told(events, "block", f, None) /\ \A b \in DOMAIN f : f[b] # None
    BY <2>1, <2>2, <2>3, Something DEF Recorded
  <2>5. Seen(D, "block") = DOMAIN f /\ \A b \in DOMAIN f : f[b] = SeenStatus(D, "block", b)
    BY <1>0, <2>4, AllMoved
  <2> QED BY <1>0, <2>2, <2>5, ListsAre
<1>6. /\ Seen(D, "review") = list_reviews
      /\ \A w \in list_reviews : reviews[w].status = SeenStatus(D, "review", w)
  <2>1. PICK f : f = Opened(reviews)
    OBVIOUS
  <2>2. PICK B : reviews \in [Weeks -> ReviewRow(B)]
    BY DEF JournalInv, Drafted, Texted
  <2>3. /\ DOMAIN f = list_reviews
        /\ \A w \in list_reviews : f[w] = reviews[w].status
    BY <2>1, <2>2 DEF Opened, list_reviews
  <2>4. \A w \in list_reviews : reviews[w].status \in {"draft", "finalized"}
    <3>1. \A w \in Weeks : reviews[w] \in ReviewRow(B)
      BY <2>2
    <3>2. \A w \in Weeks : reviews[w].status \in {"absent", "draft", "finalized"}
      BY <3>1 DEF ReviewRow
    <3> QED BY <3>2 DEF list_reviews
  <2>5. Told(events, "review", f, None) /\ \A w \in DOMAIN f : f[w] # None
    BY <2>1, <2>3, <2>4, Something DEF Recorded
  <2>6. Seen(D, "review") = DOMAIN f /\ \A w \in DOMAIN f : f[w] = SeenStatus(D, "review", w)
    BY <1>0, <2>5, AllMoved
  <2> QED BY <2>3, <2>6
<1>7. \A r \in Routines :
          r \in list_routines(IF LastMove(D, "routine", r) = 0 THEN "active"
                              ELSE SeenStatus(D, "routine", r))
  <2>1. DOMAIN routines = Routines
    BY <1>0 DEF Delivered
  <2>2. Told(events, "routine", routines, "active")
    BY DEF Recorded
  <2>3. \A r \in DOMAIN routines :
          \/ routines[r] = "active" /\ LastMove(D, "routine", r) = 0
          \/ LastMove(D, "routine", r) # 0 /\ r \in Seen(D, "routine")
             /\ routines[r] = SeenStatus(D, "routine", r)
    BY <1>0, <2>2, LastMoveIs
  <2> QED BY <2>1, <2>3 DEF list_routines
<1> QED BY <1>1, <1>2, <1>3, <1>4, <1>5, <1>6, <1>7 DEF SeenRows

\* Sets of tasks are finite, and of numbers.
LEMMA TaskSets ==
    ASSUME Typed, NEW S, S \subseteq DOMAIN tasks
    PROVE  IsFiniteSet(S) /\ S \subseteq Nat
<1>1. tasks \in Seq(Task)
  BY DEF Typed
<1>2. PICK n \in Nat : DOMAIN tasks = 1..n
  BY <1>1
<1>3. IsFiniteSet(1..n)
  BY <1>2, FS_Interval
<1>4. IsFiniteSet(S)
  BY <1>2, <1>3, FS_Subset
<1> QED BY <1>2, <1>4

\* GET /today leaves no open task out.
LEMMA OpenSeen ==
    ASSUME Typed, Recorded, NEW D, D = DOMAIN events
    PROVE  SeenOpen(D)
<1>1. /\ Seen(D, "task") = DOMAIN tasks
      /\ \A t \in DOMAIN tasks : /\ SeenStatus(D, "task", t) = tasks[t].status
                                 /\ SeenFiled(D, t) = tasks[t].direction
  BY TasksSeen
<1>2. today_view.inbox = inbox /\ today_view.must_do = must_do
  BY DEF today_view
<1>3. Range(inbox) = {t \in DOMAIN tasks : ~Filed(t) /\ tasks[t].status \notin {"done", "dropped"}}
  <2>1. PICK S : S = {t \in DOMAIN tasks : ~Filed(t) /\ tasks[t].status \notin {"done", "dropped"}}
    OBVIOUS
  <2>2. IsFiniteSet(S) /\ S \subseteq Nat
    BY <2>1, TaskSets
  <2> QED BY <2>1, <2>2, OldestRows DEF inbox
<1>4. ASSUME NEW t \in DOMAIN tasks, ~task_is_terminal(tasks[t].status)
      PROVE  IF tasks[t].direction = None THEN t \in Range(inbox)
             ELSE \/ t \in Range(must_do)
                  \/ /\ Len(must_do) = MustDo
                     /\ \A u \in Range(must_do) :
                           Precedence(SeenStatus(D, "task", u)) <= Precedence(SeenStatus(D, "task", t))
  <2>1. CASE tasks[t].direction = None
    BY <1>3, <1>4, <2>1 DEF task_is_terminal, Filed
  <2>2. CASE tasks[t].direction # None
    <3>1. t \in Open
      BY <1>4, <2>2 DEF Open, Filed
    <3>2. /\ \A u \in Range(must_do) : u \in Open
          /\ \/ t \in Range(must_do)
             \/ Len(must_do) = MustDo /\ \A u \in Range(must_do) : Rank(u) <= Rank(t)
      BY <3>1, MustDoIs
    <3>3. \A u \in Open : Rank(u) = Precedence(SeenStatus(D, "task", u))
      BY <1>1 DEF Rank, Open
    <3> QED BY <2>2, <3>1, <3>2, <3>3
  <2> QED BY <2>1, <2>2
<1> QED BY <1>1, <1>2, <1>4 DEF SeenOpen

\* A task that is in progress is so since its last such event.
LEMMA StartedIs ==
    ASSUME Typed, Recorded, NEW D, D = DOMAIN events, NEW t \in DOMAIN tasks,
           tasks[t].status = "in_progress"
    PROVE  SeenSince(D, t) = Started(t) /\ Started(t) \in Nat
<1>1. D \subseteq Nat
  <2>1. PICK S : events \in Seq(S)
    BY DEF Typed
  <2> QED BY <2>1
<1>2. PICK M : M = {i \in D : events[i].entity = "task" /\ events[i].id = t /\ events[i].to = "in_progress"}
  OBVIOUS
<1>3. PICK i \in Moves(events, "task", t) :
          LastOf(Moves(events, "task", t), i) /\ events[i].to = "in_progress"
  <2>1. t \in DOMAIN Statuses(tasks) /\ Statuses(tasks)[t] = "in_progress" /\ "in_progress" # None
    BY RowsAre, Something DEF TaskStatus
  <2> QED BY <2>1 DEF Recorded, Told
<1>4. i \in M /\ M \subseteq Moves(events, "task", t) /\ M \subseteq Nat
  <2>1. "in_progress" # None
    BY Something DEF TaskStatus
  <2> QED BY <1>1, <1>2, <1>3, <2>1 DEF Moves
<1>5. \A j \in M : j <= i
  BY <1>3, <1>4 DEF LastOf
<1>6. SeenSince(D, t) = events[i].at
  <2>1. Max({0} \cup M) = i
    BY <1>4, <1>5, LastIs
  <2> QED BY <1>2, <2>1 DEF SeenSince
<1>7. PICK A : A = {events[j].at : j \in M}
  OBVIOUS
<1>8. events[i].at \in A /\ A \subseteq Nat /\ \A a \in A : a <= events[i].at
  <2>1. \A j \in M : j \in D /\ j <= i
    BY <1>2, <1>5
  <2>2. \A j \in M : events[j].at \in Nat /\ events[j].at <= events[i].at
    BY <1>4, <2>1 DEF Recorded, Stamped
  <2> QED BY <1>4, <1>7, <2>2
<1>9. Max(A) = events[i].at /\ A # {}
  BY <1>8, GreatestIs
<1>10. Started(t) = Max(A)
  BY <1>2, <1>7, <1>9 DEF Started
<1> QED BY <1>6, <1>8, <1>9, <1>10

\* GET /today offers to carry over what is in progress since before midnight.
LEMMA StartedSeen ==
    ASSUME Typed, Recorded, NEW D, D = DOMAIN events
    PROVE  SeenStarted(D)
<1>1. /\ Seen(D, "task") = DOMAIN tasks
      /\ \A t \in DOMAIN tasks : /\ SeenStatus(D, "task", t) = tasks[t].status
                                 /\ SeenFiled(D, t) = tasks[t].direction
  BY TasksSeen
<1>2. PICK S : S = {t \in DOMAIN tasks : /\ Filed(t) /\ tasks[t].status = "in_progress"
                                         /\ Started(t) < local_day_start_utc}
  OBVIOUS
<1>3. IsFiniteSet(S) /\ S \subseteq Nat
  BY <1>2, TaskSets
<1>4. Range(today_view.carry_over_candidates) = S
  BY <1>2, <1>3, OldestRows DEF today_view, carry_over_candidates
<1>5. ASSUME NEW t \in DOMAIN tasks, tasks[t].status = "in_progress"
      PROVE  SinceMidnight(SeenSince(D, t)) <=> Started(t) < local_day_start_utc
  <2>1. SeenSince(D, t) = Started(t) /\ Started(t) \in Int
    BY <1>5, StartedIs
  <2> QED BY <2>1, MidnightIs
<1> QED BY <1>1, <1>2, <1>4, <1>5 DEF SeenStarted, Filed

\* GET /today shows as fired what fired since midnight.
LEMMA FiredSeen ==
    ASSUME Typed, Delivered, Recorded, NEW D, D = DOMAIN events
    PROVE  SeenFired(D)
<1>1. today_view.fired_routines
      = {fires[f].routine : f \in {g \in FireIds : fires[g] # None
                                                   /\ fires[g].received_at >= local_day_start_utc}}
  BY DEF today_view, fired_routines
<1>2. \A i \in D : events[i].at \in Nat
  BY DEF Recorded, Stamped
<1>3. local_day_start_utc \in Int
  <2>1. now \in Nat /\ world \in Worlds
    BY JournalAssumption DEF Typed
  <2>2. world.per_day \in Int /\ world.per_day > 0 /\ world.zone \in Int
    BY <2>1, JournalAssumption, TodayAssumption
  <2>3. PICK p, a : p \in Int /\ p > 0 /\ a \in Int /\ p = world.per_day /\ a = now + world.zone
    BY <2>1, <2>2
  <2>4. a % p \in Int
    BY <2>3, DivisionIs
  <2> QED BY <2>1, <2>3, <2>4 DEF local_day_start_utc
<1>4. \A i \in D : ~SinceMidnight(events[i].at) <=> events[i].at >= local_day_start_utc
  <2> SUFFICES ASSUME NEW i \in D
               PROVE  ~SinceMidnight(events[i].at) <=> events[i].at >= local_day_start_utc
    OBVIOUS
  <2>1. events[i].at \in Int
    BY <1>2
  <2>2. SinceMidnight(events[i].at) <=> events[i].at < local_day_start_utc
    BY <2>1, MidnightIs
  <2> QED BY <1>3, <2>1, <2>2
<1>5. \A i \in D : events[i].kind = "fired" =>
          Fired(events[i]) /\ fires[events[i].payload.fire].received_at = events[i].at
  BY DEF Recorded, FiresStamped, Fired
<1>6. ASSUME NEW f \in FireIds, fires[f] # None
      PROVE  \E i \in D : /\ events[i].kind = "fired" /\ events[i].id = fires[f].routine
                          /\ events[i].at = fires[f].received_at
  <2>1. PICK i \in D : Fired(events[i]) /\ events[i].payload.fire = f /\ events[i].id = fires[f].routine
    BY <1>6 DEF Delivered
  <2> QED BY <1>5, <2>1 DEF Fired
<1>7. ASSUME NEW i \in D, events[i].kind = "fired"
      PROVE  \E f \in FireIds : /\ fires[f] # None /\ events[i].id = fires[f].routine
                                /\ events[i].at = fires[f].received_at
  <2>1. Fired(events[i])
    BY <1>5, <1>7
  <2>2. PICK f \in FireIds : f = events[i].payload.fire /\ fires[f] # None
    BY <2>1 DEF Delivered
  <2>3. PICK j \in D : /\ events[j].id = fires[f].routine
                       /\ \A k \in D : Fired(events[k]) /\ events[k].payload.fire = f => k = j
    BY <2>2 DEF Delivered
  <2>4. i = j
    BY <2>1, <2>2, <2>3
  <2> QED BY <1>5, <1>7, <2>2, <2>3, <2>4
<1>8. PICK L : L = {fires[f].routine : f \in {g \in FireIds : fires[g] # None
                                                   /\ fires[g].received_at >= local_day_start_utc}}
  OBVIOUS
<1>9. PICK E : E = {events[i].id : i \in {j \in D : events[j].kind = "fired" /\ ~SinceMidnight(events[j].at)}}
  OBVIOUS
<1>10. ASSUME NEW r \in L PROVE r \in E
  <2>1. PICK f \in FireIds : /\ fires[f] # None /\ fires[f].received_at >= local_day_start_utc
                             /\ r = fires[f].routine
    BY <1>8
  <2>2. PICK i \in D : /\ events[i].kind = "fired" /\ events[i].id = r
                       /\ events[i].at = fires[f].received_at
    BY <1>6, <2>1
  <2>3. ~SinceMidnight(events[i].at)
    BY <1>4, <2>1, <2>2
  <2> QED BY <1>9, <2>2, <2>3
<1>11. ASSUME NEW r \in E PROVE r \in L
  <2>1. PICK i \in D : events[i].kind = "fired" /\ ~SinceMidnight(events[i].at) /\ r = events[i].id
    BY <1>9
  <2>2. PICK f \in FireIds : /\ fires[f] # None /\ r = fires[f].routine
                             /\ events[i].at = fires[f].received_at
    BY <1>7, <2>1
  <2>3. fires[f].received_at >= local_day_start_utc
    BY <1>4, <2>1, <2>2
  <2> QED BY <1>8, <2>2, <2>3
<1>12. L = E
  BY <1>10, <1>11
<1> QED BY <1>1, <1>8, <1>9, <1>12 DEF SeenFired

\* A client that knows nothing but the log knows what the rows say, and GET
\* /today shows no more and no less than that replay implies (LogIsTheRecord), in
\* every state.
THEOREM LogIsTheRecordInvariant == Spec => []LogIsTheRecord
<1>1. ASSUME JournalInv, Recorded
      PROVE  LogIsTheRecord
  <2>1. Typed /\ Delivered
    BY <1>1 DEF JournalInv, LedgerInv
  <2>2. PICK D : D = DOMAIN events
    OBVIOUS
  <2>3. Range(Followed(None, 1)) = D
    BY <2>1, <2>2, AllSeen
  <2>4. SeenRows(D) /\ SeenOpen(D) /\ SeenStarted(D) /\ SeenFired(D)
    BY <1>1, <2>1, <2>2, RowsSeen, OpenSeen, StartedSeen, FiredSeen
  <2> QED BY <2>3, <2>4, RecordIs
<1> QED BY <1>1, JournalInvariant, RecordInvariant, PTL
-----------------------------------------------------------------------------
(* Brackets *)

\* How many of the first i characters are of C.
Tally(l, C, i) == Cardinality({j \in 1..i : l[j] \in C})

Kinds == {{"unit"}, {"quote"}, Reserved}

\* Up to i every bracket is closed; i stands in one.
Closed(l, i) == \A C \in Kinds : Tally(l, C, i) % 2 = 0
Inside(l, i) == Tally(l, Reserved, i) % 2 = 1

\* Counts are numbers.
LEMMA TallyNat ==
    ASSUME NEW l, NEW C, NEW i \in Nat
    PROVE  IsFiniteSet({j \in 1..i : l[j] \in C}) /\ Tally(l, C, i) \in Nat
<1>1. {j \in 1..i : l[j] \in C} \subseteq 1..i
  OBVIOUS
<1>2. IsFiniteSet(1..i)
  BY FS_Interval
<1>3. IsFiniteSet({j \in 1..i : l[j] \in C})
  BY <1>1, <1>2, FS_Subset
<1> QED BY <1>3, FS_CardinalityType DEF Tally

\* None counted at the start.
LEMMA TallyNone ==
    ASSUME NEW l, NEW C
    PROVE  Tally(l, C, 0) = 0
<1>1. {j \in 1..0 : l[j] \in C} = {}
  OBVIOUS
<1> QED BY <1>1, FS_EmptySet DEF Tally

\* What is counted is the same in two texts.
LEMMA TallySame ==
    ASSUME NEW l, NEW C, NEW i \in Nat, NEW r, \A j \in 1..i : l[j] \in C <=> r[j] \in C
    PROVE  Tally(l, C, i) = Tally(r, C, i)
<1>1. {j \in 1..i : l[j] \in C} = {j \in 1..i : r[j] \in C}
  OBVIOUS
<1> QED BY <1>1 DEF Tally

\* Characters of another kind count nothing.
LEMMA TallySkips ==
    ASSUME NEW l, NEW C, NEW i \in Nat, NEW j \in Nat, i <= j, \A k \in (i + 1)..j : l[k] \notin C
    PROVE  Tally(l, C, j) = Tally(l, C, i)
<1>1. {k \in 1..j : l[k] \in C} = {k \in 1..i : l[k] \in C}
  OBVIOUS
<1> QED BY <1>1 DEF Tally

\* One more.
LEMMA TallyOne ==
    ASSUME NEW l, NEW C, NEW i \in Nat, l[i + 1] \in C
    PROVE  Tally(l, C, i + 1) = Tally(l, C, i) + 1
<1>1. {k \in 1..(i + 1) : l[k] \in C} = {k \in 1..i : l[k] \in C} \cup {i + 1}
  OBVIOUS
<1>2. i + 1 \notin {k \in 1..i : l[k] \in C}
  OBVIOUS
<1>3. PICK A : A = {k \in 1..i : l[k] \in C}
  OBVIOUS
<1>4. IsFiniteSet(A) /\ i + 1 \notin A
  BY <1>2, <1>3, TallyNat
<1>5. Cardinality(A \cup {i + 1}) = Cardinality(A) + 1
  BY <1>4, FS_AddElement
<1> QED BY <1>1, <1>3, <1>5 DEF Tally

\* A text that is closed is inside no bracket.
LEMMA ClosedIsOutside ==
    ASSUME NEW l, NEW i \in Nat, Closed(l, i)
    PROVE  ~Inside(l, i)
BY TallyNat DEF Closed, Inside, Kinds

\* Outside, the next character is so too unless it is a bracket.
LEMMA StaysOutside ==
    ASSUME NEW l, NEW i \in Nat, ~Inside(l, i), l[i + 1] \notin Reserved
    PROVE  ~Inside(l, i + 1)
<1>1. \A k \in (i + 1)..(i + 1) : l[k] \notin Reserved
  OBVIOUS
<1>2. Tally(l, Reserved, i + 1) = Tally(l, Reserved, i)
  BY <1>1, TallySkips
<1> QED BY <1>2 DEF Inside

\* Closed stays closed where there is no bracket.
LEMMA StaysClosed ==
    ASSUME NEW l, NEW i \in Nat, NEW j \in Nat, i <= j, \A k \in (i + 1)..j : l[k] \notin Reserved
    PROVE  Closed(l, j) <=> Closed(l, i)
<1>1. \A C \in Kinds : C \subseteq Reserved
  BY DEF Kinds, Reserved
<1>2. \A C \in Kinds : Tally(l, C, j) = Tally(l, C, i)
  <2> SUFFICES ASSUME NEW C \in Kinds PROVE Tally(l, C, j) = Tally(l, C, i)
    OBVIOUS
  <2>1. \A k \in (i + 1)..j : l[k] \notin C
    BY <1>1
  <2> QED BY <2>1, TallySkips
<1> QED BY <1>2 DEF Closed

\* A bracket, what is in it, and its end: everything in between is inside, and
\* behind it the text is closed again.
LEMMA Bracketed ==
    ASSUME NEW l, NEW n \in Nat, NEW m \in Nat, Closed(l, n),
           NEW b \in Reserved, l[n + 1] = b, l[n + m + 2] = b,
           \A j \in (n + 2)..(n + m + 1) : l[j] \notin Reserved
    PROVE  /\ \A j \in (n + 1)..(n + m + 1) : Inside(l, j)
           /\ Closed(l, n + m + 2)
<1>1. \A C \in Kinds : Tally(l, C, n) \in Nat /\ Tally(l, C, n) % 2 = 0
  BY TallyNat DEF Closed
<1>2. ASSUME NEW C \in Kinds, b \in C, NEW j \in (n + 1)..(n + m + 1)
      PROVE  Tally(l, C, j) = Tally(l, C, n) + 1
  <2>1. Tally(l, C, n + 1) = Tally(l, C, n) + 1
    BY <1>2, TallyOne
  <2>2. n + 1 \in Nat /\ j \in Nat /\ n + 1 <= j
    BY <1>2
  <2>3. \A k \in (n + 1 + 1)..j : l[k] \notin C
    <3>1. C \subseteq Reserved
      BY DEF Kinds, Reserved
    <3>2. \A k \in (n + 1 + 1)..j : k \in (n + 2)..(n + m + 1)
      BY <1>2
    <3> QED BY <3>1, <3>2
  <2> QED BY <2>1, <2>2, <2>3, TallySkips
<1>3. ASSUME NEW C \in Kinds, b \in C
      PROVE  Tally(l, C, n + m + 2) % 2 = 0
  <2>1. n + m + 1 \in (n + 1)..(n + m + 1) /\ n + m + 1 \in Nat /\ n + m + 2 = (n + m + 1) + 1
    OBVIOUS
  <2>2. Tally(l, C, n + m + 1) = Tally(l, C, n) + 1
    BY <1>2, <1>3, <2>1
  <2>3. Tally(l, C, (n + m + 1) + 1) = Tally(l, C, n + m + 1) + 1
    BY <1>3, <2>1, TallyOne
  <2> QED BY <1>1, <2>1, <2>2, <2>3
<1>4. ASSUME NEW C \in Kinds, b \notin C
      PROVE  Tally(l, C, n + m + 2) % 2 = 0
  <2>1. \A k \in (n + 1)..(n + m + 2) : l[k] \notin C
    <3>1. C \subseteq Reserved
      BY DEF Kinds, Reserved
    <3>2. \A k \in (n + 1)..(n + m + 2) : k = n + 1 \/ k = n + m + 2 \/ k \in (n + 2)..(n + m + 1)
      OBVIOUS
    <3> QED BY <1>4, <3>1, <3>2
  <2>2. n + m + 2 \in Nat /\ n <= n + m + 2
    OBVIOUS
  <2>3. Tally(l, C, n + m + 2) = Tally(l, C, n)
    BY <2>1, <2>2, TallySkips
  <2> QED BY <1>1, <2>3
<1>5. \A j \in (n + 1)..(n + m + 1) : Inside(l, j)
  <2>1. Reserved \in Kinds
    BY DEF Kinds
  <2>2. \A j \in (n + 1)..(n + m + 1) : Tally(l, Reserved, j) = Tally(l, Reserved, n) + 1
    BY <1>2, <2>1
  <2> QED BY <1>1, <2>1, <2>2 DEF Inside
<1> QED BY <1>3, <1>4, <1>5 DEF Closed
-----------------------------------------------------------------------------
(* What is typed and what is rendered *)

\* Everything in r stands somewhere in s, at one of the positions at.
PartOf(r, s, at) == \A k \in DOMAIN r : \E i \in at : r[k] = s[i]

\* What a part of a text picks.
LEMMA PickedIs ==
    ASSUME NEW S, NEW s \in Seq(S), NEW at, at \subseteq 1..Len(s), NEW r, r = Picked(s, at)
    PROVE  r \in Seq(S) /\ PartOf(r, s, at)
<1>1. IsFiniteSet(at)
  <2>1. PICK n \in Nat : n = Len(s)
    OBVIOUS
  <2>2. IsFiniteSet(1..n) /\ at \subseteq 1..n
    BY <2>1, FS_Interval
  <2> QED BY <2>2, FS_Subset
<1>2. at \subseteq Nat
  OBVIOUS
<1>3. PICK o : o = Ascending(at)
  OBVIOUS
<1>4. o \in Seq(at)
  BY <1>1, <1>2, <1>3, OldestIs
<1>5. \A k \in DOMAIN o : o[k] \in at /\ s[o[k]] \in S
  <2>1. \A k \in DOMAIN o : o[k] \in at
    BY <1>4
  <2>2. \A i \in at : s[i] \in S
    OBVIOUS
  <2> QED BY <2>1, <2>2
<1>6. r = [k \in DOMAIN o |-> s[o[k]]]
  BY <1>3 DEF Picked, InOrder, Ascending
<1>7. r \in [1..Len(o) -> S] /\ Len(o) \in Nat
  BY <1>4, <1>5, <1>6
<1>8. r \in Seq(S)
  BY <1>7
<1> QED BY <1>5, <1>6, <1>8 DEF PartOf

\* A normalized text holds no format character, and nothing that was not there.
LEMMA NormalizedIs ==
    ASSUME NEW S, NEW s \in Seq(S), NEW t, t = normalize(s)
    PROVE  /\ t \in Seq(S)
           /\ \A k \in 1..Len(t) : t[k] # "format" /\ \E i \in 1..Len(s) : t[k] = s[i]
<1>1. PICK A : A = {i \in 1..Len(s) : ~is_format_char(s[i])}
  OBVIOUS
<1>2. PICK u : u = Picked(s, A)
  OBVIOUS
<1>8. A \subseteq 1..Len(s)
  BY <1>1
<1>3. u \in Seq(S) /\ PartOf(u, s, A)
  BY <1>2, <1>8, PickedIs
<1>4. PICK B : B = {i \in 1..Len(u) : u[i] # "space" \/ i = 1 \/ u[i - 1] # "space"}
  OBVIOUS
<1>5. t = Picked(u, B)
  BY <1>1, <1>2, <1>4 DEF normalize
<1>9. B \subseteq 1..Len(u)
  BY <1>4
<1>6. t \in Seq(S) /\ PartOf(t, u, B)
  BY <1>3, <1>5, <1>9, PickedIs
<1>7. ASSUME NEW k \in 1..Len(t)
      PROVE  t[k] # "format" /\ \E i \in 1..Len(s) : t[k] = s[i]
  <2>1. PICK i \in B : t[k] = u[i]
    BY <1>6 DEF PartOf
  <2>2. i \in DOMAIN u
    BY <1>3, <1>4
  <2>3. PICK j \in A : u[i] = s[j]
    BY <1>3, <2>2 DEF PartOf
  <2> QED BY <1>1, <2>1, <2>3 DEF is_format_char
<1> QED BY <1>6, <1>7

\* A trimmed text is one.
LEMMA TrimIs ==
    ASSUME NEW S, NEW s \in Seq(S)
    PROVE  Trim(s) \in Seq(S)
<1>1. PICK K : K = {i \in 1..Len(s) : s[i] \notin Whitespace}
  OBVIOUS
<1>2. CASE K = {}
  BY <1>1, <1>2 DEF Trim
<1>3. CASE K # {}
  <2>1. PICK a \in K : \A i \in K : a <= i
    <3>1. K \subseteq Nat
      BY <1>1
    <3> QED BY <1>3, <3>1, Pages!Least
  <2>2. Min(K) = a
    <3>1. \A x \in K : (\A y \in K : x <= y) <=> x = a
      BY <1>1, <2>1
    <3> QED BY <3>1 DEF Min
  <2>3. PICK U : U = {n \in Nat : \A i \in K : i <= n}
    OBVIOUS
  <2>4. Len(s) \in U
    BY <1>1, <2>3
  <2>5. PICK b \in U : \A n \in U : b <= n
    <3>1. U \subseteq Nat
      BY <2>3
    <3> QED BY <2>4, <3>1, Pages!Least
  <2>6. b \in K
    <3>1. b # 0 /\ b \in Nat
      BY <1>1, <2>1, <2>3, <2>5
    <3>2. b - 1 \in Nat /\ b - 1 \notin U
      BY <2>3, <2>5, <3>1
    <3>3. PICK i \in K : ~(i <= b - 1)
      BY <2>3, <3>2
    <3>4. i = b
      BY <1>1, <2>3, <2>5, <3>1, <3>3
    <3> QED BY <3>3, <3>4
  <2>7. Max(K) = b
    <3>1. \A i \in K : i <= b
      BY <2>3, <2>5
    <3>2. \A x \in K : (\A y \in K : x >= y) <=> x = b
      BY <1>1, <2>6, <3>1
    <3> QED BY <3>2 DEF Max
  <2>8. Trim(s) = SubSeq(s, a, b)
    BY <1>1, <1>3, <2>2, <2>7 DEF Trim
  <2>9. a \in 1..Len(s) /\ b \in 1..Len(s)
    BY <1>1, <2>1, <2>6
  <2> QED BY <2>8, <2>9
<1> QED BY <1>2, <1>3

\* The characters the program writes itself.
Made == {"letter", "space", "escaped", "unit", "quote", "digit"}

\* A title as it is shown holds no bracket and no line break.
LEMMA SanitizedIs ==
    ASSUME NEW S, Made \subseteq S, NEW title \in Seq(S), NEW t, t = sanitize_inline(title)
    PROVE  /\ t \in Seq(S)
           /\ \A i \in 1..Len(t) : t[i] \notin Reserved /\ t[i] # "newline"
<1>1. Allowed(title) \in Seq(S)
  <2>1. {i \in 1..Len(title) : ~is_forbidden_control(title[i])} \subseteq 1..Len(title)
    OBVIOUS
  <2> QED BY <2>1, PickedIs DEF Allowed
<1>2. PICK flat : flat = Trim(normalize(Allowed(title)))
  OBVIOUS
<1>3. flat \in Seq(S)
  <2>1. PICK u : u = normalize(Allowed(title))
    OBVIOUS
  <2>2. u \in Seq(S)
    BY <1>1, <2>1, NormalizedIs
  <2> QED BY <1>2, <2>1, <2>2, TrimIs
<1>4. t = [i \in 1..Len(flat) |-> Inert(flat[i])]
  BY <1>2 DEF sanitize_inline
<1>5. \A i \in 1..Len(flat) :
        Inert(flat[i]) \in S /\ Inert(flat[i]) \notin Reserved /\ Inert(flat[i]) # "newline"
  <2> SUFFICES ASSUME NEW x \in S
               PROVE  Inert(x) \in S /\ Inert(x) \notin Reserved /\ Inert(x) # "newline"
    BY <1>3
  <2>1. CASE x \in Reserved \cup {"angle"}
    <3>1. Inert(x) = "letter"
      <4>1. x # "newline" /\ x # "marker"
        BY <2>1 DEF Reserved
      <4> QED BY <2>1, <4>1 DEF Inert
    <3> QED BY <3>1 DEF Reserved, Made
  <2>2. CASE x = "newline"
    BY <2>2 DEF Inert, Reserved, Made
  <2>3. CASE x = "marker"
    BY <2>3 DEF Inert, Reserved, Made
  <2>4. CASE x \notin Reserved \cup {"angle", "newline", "marker"}
    <3>1. Inert(x) = x
      BY <2>4 DEF Inert
    <3> QED BY <2>4, <3>1
  <2> QED BY <2>1, <2>2, <2>3, <2>4
<1>6. t \in [1..Len(flat) -> S] /\ Len(flat) \in Nat
  BY <1>3, <1>4, <1>5
<1>7. t \in Seq(S) /\ Len(t) = Len(flat)
  BY <1>6
<1> QED BY <1>4, <1>5, <1>7
-----------------------------------------------------------------------------
(* The text with its placeholders filled *)

TextStep(text, c, title) == text \o Rendered(c, title)
Fill == INSTANCE FoldLemmas WITH Step <- TextStep

Filled(s, title) == FoldLeft(LAMBDA text, c : text \o Rendered(c, title), <<>>, s)

\* The text fill_narrative makes is a fold.
LEMMA FilledIs ==
    ASSUME NEW s, NEW title
    PROVE  Filled(s, title) = Fill!Folded(s, <<>>, title)
BY DEF Filled, TextStep, FoldLeft, MapThenFoldSet, Max, Fill!Folded, Fill!FoldLeft, Fill!MapThenFoldSet,
       Fill!Max

\* What stands outside the brackets for a character of the reply: itself, or the
\* closing bracket of what a placeholder became.
Shown(c) == IF c = "{{f1}}" THEN "unit" ELSE IF c = "{{t1}}" THEN "quote" ELSE c

\* out renders the first k characters of s: org says which of them a position of
\* out comes from.
Rendering(out, s, k, org) ==
    /\ org \in [1..Len(out) -> 1..k]
    /\ Closed(out, Len(out))
    /\ \A p \in 1..Len(out) : Inside(out, p) => out[p] # "newline"
    /\ \A p \in 1..Len(out) : ~Inside(out, p) => Closed(out, p) /\ out[p] = Shown(s[org[p]])
    /\ Len(out) # 0 => org[Len(out)] = k
    /\ \A p \in 1..(Len(out) - 1) : ~Inside(out, p) /\ ~Inside(out, p + 1) => org[p + 1] = org[p] + 1

\* Two texts, one behind the other.
LEMMA Joined ==
    ASSUME NEW S, NEW a \in Seq(S), NEW b \in Seq(S), NEW r, r = a \o b,
           NEW n \in Nat, n = Len(a), NEW m \in Nat, m = Len(b)
    PROVE  /\ r \in Seq(S) /\ Len(r) = n + m
           /\ \A p \in 1..n : r[p] = a[p]
           /\ \A p \in 1..m : r[n + p] = b[p]
<1>1. r \in Seq(S) /\ Len(r) = n + m
  OBVIOUS
<1>2. \A p \in 1..n : r[p] = a[p]
  OBVIOUS
<1>3. ASSUME NEW p \in 1..m PROVE r[n + p] = b[p]
  <2>1. n + p \in 1..(n + m) /\ ~(n + p <= n) /\ (n + p) - n = p
    OBVIOUS
  <2> QED BY <2>1
<1> QED BY <1>1, <1>2, <1>3

\* One bracket of the kind b, closed at its end, without a line break.
IsPiece(r, b) ==
    /\ b \in Reserved
    /\ \E m \in Nat : /\ Len(r) = m + 2 /\ r[1] = b /\ r[m + 2] = b
                      /\ \A j \in 2..(m + 1) : r[j] \notin Reserved /\ r[j] # "newline"

\* What a placeholder becomes is one bracket, without a line break.
LEMMA PieceIs ==
    ASSUME NEW S, Made \subseteq S, NEW title \in Seq(S), NEW c \in Placeholders, NEW r, r = Rendered(c, title)
    PROVE  r \in Seq(S) /\ IsPiece(r, Shown(c))
<1>1. PICK t : t = sanitize_inline(title)
  OBVIOUS
<1>2. t \in Seq(S) /\ \A i \in 1..Len(t) : t[i] \notin Reserved /\ t[i] # "newline"
  BY <1>1, SanitizedIs
<1>3. PICK n \in Nat : n = Len(t)
  BY <1>2
<1>4. CASE c = "{{f1}}"
  <2>1. r = <<"unit">> \o t \o <<"digit", "unit">>
    BY <1>1, <1>4 DEF Rendered, render_unit
  <2>2. PICK u : u = <<"unit">> \o t
    OBVIOUS
  <2>3. u \in Seq(S) /\ Len(u) = n + 1 /\ u[1] = "unit" /\ \A j \in 1..n : u[j + 1] = t[j]
    <3>1. PICK a : a = <<"unit">>
      OBVIOUS
    <3>2. a \in Seq(S) /\ Len(a) = 1 /\ a[1] = "unit"
      BY <3>1 DEF Made
    <3>3. /\ u \in Seq(S) /\ Len(u) = 1 + n
          /\ \A p \in 1..1 : u[p] = a[p]
          /\ \A p \in 1..n : u[1 + p] = t[p]
      BY <1>2, <1>3, <2>2, <3>1, <3>2, Joined
    <3>4. 1 \in 1..1 /\ \A j \in 1..n : j + 1 = 1 + j
      OBVIOUS
    <3> QED BY <3>2, <3>3, <3>4
  <2>4. r = u \o <<"digit", "unit">>
    BY <2>1, <2>2
  <2>5. /\ r \in Seq(S) /\ Len(r) = n + 3 /\ r[n + 2] = "digit" /\ r[n + 3] = "unit"
        /\ \A j \in 1..(n + 1) : r[j] = u[j]
    <3>1. PICK a : a = <<"digit", "unit">>
      OBVIOUS
    <3>2. a \in Seq(S) /\ Len(a) = 2 /\ a[1] = "digit" /\ a[2] = "unit"
      BY <3>1 DEF Made
    <3>3. /\ r \in Seq(S) /\ Len(r) = (n + 1) + 2
          /\ \A p \in 1..(n + 1) : r[p] = u[p]
          /\ \A p \in 1..2 : r[(n + 1) + p] = a[p]
      BY <2>3, <2>4, <3>1, <3>2, Joined
    <3>4. 1 \in 1..2 /\ 2 \in 1..2 /\ (n + 1) + 1 = n + 2 /\ (n + 1) + 2 = n + 3
      OBVIOUS
    <3> QED BY <3>2, <3>3, <3>4
  <2>6. \A j \in 2..(n + 2) : r[j] \notin Reserved /\ r[j] # "newline"
    <3> SUFFICES ASSUME NEW j \in 2..(n + 2) PROVE r[j] \notin Reserved /\ r[j] # "newline"
      OBVIOUS
    <3>1. CASE j = n + 2
      BY <2>5, <3>1 DEF Reserved
    <3>2. CASE j # n + 2
      <4>1. j - 1 \in 1..n /\ j \in 1..(n + 1) /\ (j - 1) + 1 = j
        BY <3>2
      <4>2. r[j] = t[j - 1]
        BY <2>3, <2>5, <4>1
      <4> QED BY <1>2, <1>3, <4>1, <4>2
    <3> QED BY <3>1, <3>2
  <2>7. n + 1 \in Nat /\ Len(r) = (n + 1) + 2 /\ r[1] = "unit" /\ r[(n + 1) + 2] = "unit" /\ (n + 1) + 1 = n + 2
    BY <2>3, <2>5
  <2>8. Shown(c) = "unit" /\ Shown(c) \in Reserved
    BY <1>4 DEF Shown, Reserved
  <2> QED BY <2>5, <2>6, <2>7, <2>8 DEF IsPiece
<1>5. CASE c = "{{t1}}"
  <2>1. r = <<"quote">> \o t \o <<"quote">>
    BY <1>1, <1>5 DEF Rendered, render_title
  <2>2. PICK u : u = <<"quote">> \o t
    OBVIOUS
  <2>3. u \in Seq(S) /\ Len(u) = n + 1 /\ u[1] = "quote" /\ \A j \in 1..n : u[j + 1] = t[j]
    <3>1. PICK a : a = <<"quote">>
      OBVIOUS
    <3>2. a \in Seq(S) /\ Len(a) = 1 /\ a[1] = "quote"
      BY <3>1 DEF Made
    <3>3. /\ u \in Seq(S) /\ Len(u) = 1 + n
          /\ \A p \in 1..1 : u[p] = a[p]
          /\ \A p \in 1..n : u[1 + p] = t[p]
      BY <1>2, <1>3, <2>2, <3>1, <3>2, Joined
    <3>4. 1 \in 1..1 /\ \A j \in 1..n : j + 1 = 1 + j
      OBVIOUS
    <3> QED BY <3>2, <3>3, <3>4
  <2>4. r = u \o <<"quote">>
    BY <2>1, <2>2
  <2>5. /\ r \in Seq(S) /\ Len(r) = n + 2 /\ r[n + 2] = "quote"
        /\ \A j \in 1..(n + 1) : r[j] = u[j]
    BY <2>3, <2>4
  <2>6. \A j \in 2..(n + 1) : r[j] \notin Reserved /\ r[j] # "newline"
    <3> SUFFICES ASSUME NEW j \in 2..(n + 1) PROVE r[j] \notin Reserved /\ r[j] # "newline"
      OBVIOUS
    <3>1. j - 1 \in 1..n /\ j \in 1..(n + 1) /\ (j - 1) + 1 = j
      OBVIOUS
    <3>2. r[j] = t[j - 1]
      BY <2>3, <2>5, <3>1
    <3> QED BY <1>2, <1>3, <3>1, <3>2
  <2>7. r[1] = "quote"
    BY <2>3, <2>5
  <2>8. Shown(c) = "quote" /\ Shown(c) \in Reserved
    BY <1>5 DEF Shown, Reserved
  <2> QED BY <2>5, <2>6, <2>7, <2>8 DEF IsPiece
<1> QED BY <1>4, <1>5 DEF Placeholders

\* Nothing that is added changes what stood before.
LEMMA PrefixIs ==
    ASSUME NEW out, NEW out2, NEW n \in Nat, \A p \in 1..n : out2[p] = out[p], NEW p \in 0..n
    PROVE  (Closed(out2, p) <=> Closed(out, p)) /\ (Inside(out2, p) <=> Inside(out, p))
<1>1. ASSUME NEW C PROVE Tally(out2, C, p) = Tally(out, C, p)
  <2>1. p \in Nat /\ \A j \in 1..p : out2[j] \in C <=> out[j] \in C
    OBVIOUS
  <2> QED BY <2>1, TallySame
<1> QED BY <1>1 DEF Closed, Inside

\* One character more is rendered.
LEMMA RenderedOn ==
    ASSUME NEW S, Made \subseteq S, NEW s \in Seq(S), NEW title \in Seq(S),
           NEW k \in Nat, k + 1 <= Len(s), s[k + 1] \notin Reserved,
           NEW out \in Seq(S), NEW org, Rendering(out, s, k, org),
           NEW out2, out2 = out \o Rendered(s[k + 1], title)
    PROVE  out2 \in Seq(S) /\ \E o : Rendering(out2, s, k + 1, o)
<1>1. PICK c : c = s[k + 1]
  OBVIOUS
<1>2. c \in S /\ c \notin Reserved
  BY <1>1
<1>3. PICK r : r = Rendered(c, title)
  OBVIOUS
<1>4. PICK n \in Nat : n = Len(out)
  OBVIOUS
<1>5. r \in Seq(S) /\ Len(r) \in Nat \ {0}
  <2>1. CASE c \in Placeholders
    <3>1. r \in Seq(S) /\ IsPiece(r, Shown(c))
      BY <1>3, <2>1, PieceIs
    <3>2. PICK m \in Nat : Len(r) = m + 2
      BY <3>1 DEF IsPiece
    <3> QED BY <3>1, <3>2
  <2>2. CASE c \notin Placeholders
    <3>1. r = <<c>>
      BY <1>3, <2>2 DEF Rendered, Placeholders
    <3> QED BY <1>2, <3>1
  <2> QED BY <2>1, <2>2
<1>6. PICK l \in Nat : l = Len(r) /\ l # 0
  BY <1>5
<1>7. /\ out2 \in Seq(S) /\ Len(out2) = n + l
      /\ \A p \in 1..n : out2[p] = out[p]
      /\ \A p \in 1..l : out2[n + p] = r[p]
  BY <1>1, <1>3, <1>4, <1>5, <1>6
<1>8. \A p \in 0..n : (Closed(out2, p) <=> Closed(out, p)) /\ (Inside(out2, p) <=> Inside(out, p))
  <2> SUFFICES ASSUME NEW p \in 0..n
               PROVE  (Closed(out2, p) <=> Closed(out, p)) /\ (Inside(out2, p) <=> Inside(out, p))
    OBVIOUS
  <2>1. \A j \in 1..n : out2[j] = out[j]
    BY <1>7
  <2> QED BY <2>1, PrefixIs
<1>9. Closed(out2, n)
  BY <1>4, <1>8 DEF Rendering
<1>10. /\ \A p \in (n + 1)..(n + l - 1) : Inside(out2, p) /\ out2[p] # "newline"
       /\ Closed(out2, n + l) /\ out2[n + l] = Shown(c)
  <2>1. CASE c \in Placeholders
    <3>1. PICK b : b = Shown(c)
      OBVIOUS
    <3>0. IsPiece(r, b)
      BY <1>3, <2>1, <3>1, PieceIs
    <3>2. b \in Reserved
      BY <3>0 DEF IsPiece
    <3>3. PICK m \in Nat : /\ l = m + 2 /\ r[1] = b /\ r[m + 2] = b
                           /\ \A j \in 2..(m + 1) : r[j] \notin Reserved /\ r[j] # "newline"
      BY <1>6, <3>0 DEF IsPiece
    <3>4. out2[n + 1] = b /\ out2[n + m + 2] = b
      <4>1. 1 \in 1..l /\ m + 2 \in 1..l /\ n + (m + 2) = n + m + 2
        BY <3>3
      <4> QED BY <1>7, <3>3, <4>1
    <3>5. \A j \in (n + 2)..(n + m + 1) : out2[j] \notin Reserved /\ out2[j] # "newline"
      <4> SUFFICES ASSUME NEW j \in (n + 2)..(n + m + 1) PROVE out2[j] \notin Reserved /\ out2[j] # "newline"
        OBVIOUS
      <4>1. j - n \in 2..(m + 1) /\ j - n \in 1..l /\ n + (j - n) = j
        BY <3>3
      <4>2. out2[j] = r[j - n]
        BY <1>7, <4>1
      <4> QED BY <3>3, <4>1, <4>2
    <3>6. (\A j \in (n + 1)..(n + m + 1) : Inside(out2, j)) /\ Closed(out2, n + m + 2)
      BY <1>9, <3>2, <3>4, <3>5, Bracketed
    <3>7. out2[n + 1] # "newline"
      BY <3>2, <3>4 DEF Reserved
    <3>8. ASSUME NEW p \in (n + 1)..(n + l - 1)
          PROVE  Inside(out2, p) /\ out2[p] # "newline"
      <4>1. p \in (n + 1)..(n + m + 1) /\ (p = n + 1 \/ p \in (n + 2)..(n + m + 1))
        BY <3>3
      <4> QED BY <3>5, <3>6, <3>7, <4>1
    <3>9. n + l = n + m + 2
      BY <3>3
    <3> QED BY <3>1, <3>4, <3>6, <3>8, <3>9
  <2>2. CASE c \notin Placeholders
    <3>1. r = <<c>> /\ Shown(c) = c
      BY <1>3, <2>2 DEF Rendered, Placeholders, Shown
    <3>2. l = 1 /\ out2[n + 1] = c
      <4>1. l = 1 /\ r[1] = c
        BY <1>6, <3>1
      <4>2. 1 \in 1..l
        BY <4>1
      <4> QED BY <1>7, <4>1, <4>2
    <3>5. n <= n + 1 /\ n + 1 \in Nat
      OBVIOUS
    <3>3. \A j \in (n + 1)..(n + 1) : out2[j] \notin Reserved
      <4> SUFFICES ASSUME NEW j \in (n + 1)..(n + 1) PROVE out2[j] \notin Reserved
        OBVIOUS
      <4>1. j = n + 1
        OBVIOUS
      <4>2. out2[j] = c
        BY <3>2, <4>1
      <4> QED BY <1>2, <4>2
    <3>4. Closed(out2, n + 1)
      BY <1>9, <3>3, <3>5, StaysClosed
    <3>6. \A p \in (n + 1)..(n + l - 1) : FALSE
      BY <3>2
    <3> QED BY <3>1, <3>2, <3>4, <3>6
  <2> QED BY <2>1, <2>2
<1>11. PICK o : o = [p \in 1..(n + l) |-> IF p <= n THEN org[p] ELSE k + 1]
  OBVIOUS
<1>12. o \in [1..Len(out2) -> 1..(k + 1)]
  <2>1. \A p \in 1..n : org[p] \in 1..k
    BY <1>4 DEF Rendering
  <2>2. \A p \in 1..(n + l) : (IF p <= n THEN org[p] ELSE k + 1) \in 1..(k + 1)
    BY <2>1
  <2> QED BY <1>7, <1>11, <2>2
<1>13. \A p \in 1..(n + l) : p \in 1..n \/ p \in (n + 1)..(n + l - 1) \/ p = n + l
  OBVIOUS
<1>14. \A p \in 1..(n + l) : Inside(out2, p) => out2[p] # "newline"
  <2>1. ~Inside(out2, n + l)
    BY <1>10, ClosedIsOutside
  <2>2. \A p \in 1..n : Inside(out2, p) => out2[p] # "newline"
    <3>1. \A p \in 1..n : Inside(out, p) => out[p] # "newline"
      BY <1>4 DEF Rendering
    <3>2. \A p \in 1..n : p \in 0..n
      OBVIOUS
    <3> QED BY <1>7, <1>8, <3>1, <3>2
  <2> QED BY <1>10, <1>13, <2>1, <2>2
<1>15. \A p \in 1..(n + l) : ~Inside(out2, p) => Closed(out2, p) /\ out2[p] = Shown(s[o[p]])
  <2>1. \A p \in 1..n : ~Inside(out2, p) => Closed(out2, p) /\ out2[p] = Shown(s[o[p]])
    <3>1. \A p \in 1..n : ~Inside(out, p) => Closed(out, p) /\ out[p] = Shown(s[org[p]])
      BY <1>4 DEF Rendering
    <3>2. \A p \in 1..n : p \in 0..n /\ o[p] = org[p]
      BY <1>11
    <3> QED BY <1>7, <1>8, <3>1, <3>2
  <2>2. o[n + l] = k + 1
    BY <1>6, <1>11
  <2> QED BY <1>1, <1>10, <1>13, <2>1, <2>2
<1>16. o[n + l] = k + 1
  BY <1>6, <1>11
<1>17. ASSUME NEW p \in 1..(n + l - 1), ~Inside(out2, p), ~Inside(out2, p + 1)
       PROVE  o[p + 1] = o[p] + 1
  <2>1. CASE p + 1 <= n
    <3>1. p \in 1..(n - 1) /\ p \in 0..n /\ p + 1 \in 0..n /\ o[p] = org[p] /\ o[p + 1] = org[p + 1]
      BY <1>11, <2>1
    <3>2. ~Inside(out, p) /\ ~Inside(out, p + 1)
      BY <1>8, <1>17, <3>1
    <3> QED BY <1>4, <3>1, <3>2 DEF Rendering
  <2>2. CASE p = n
    <3>1. p + 1 = n + l
      <4>1. CASE l = 1
        BY <2>2, <4>1
      <4>2. CASE l # 1
        <5>1. n + 1 \in (n + 1)..(n + l - 1)
          BY <1>6, <4>2
        <5> QED BY <1>10, <1>17, <2>2, <5>1
      <4> QED BY <4>1, <4>2
    <3>2. org[n] = k
      BY <1>4, <2>2 DEF Rendering
    <3>3. o[n] = k
      BY <1>11, <2>2, <3>2
    <3> QED BY <1>16, <2>2, <3>1, <3>3
  <2>3. CASE p > n
    <3>1. p \in (n + 1)..(n + l - 1)
      BY <2>3
    <3> QED BY <1>10, <1>17, <3>1
  <2> QED BY <2>1, <2>2, <2>3
<1>18. Closed(out2, Len(out2))
  BY <1>7, <1>10
<1>19. Rendering(out2, s, k + 1, o)
  <2>1. PICK z \in Nat : z = n + l
    OBVIOUS
  <2>2. Len(out2) = z
    BY <1>7, <2>1
  <2>3. \A p \in 1..z : Inside(out2, p) => out2[p] # "newline"
    BY <1>14, <2>1
  <2>4. \A p \in 1..z : ~Inside(out2, p) => Closed(out2, p) /\ out2[p] = Shown(s[o[p]])
    BY <1>15, <2>1
  <2>5. \A p \in 1..(z - 1) : ~Inside(out2, p) /\ ~Inside(out2, p + 1) => o[p + 1] = o[p] + 1
    BY <1>17, <2>1
  <2>6. o[z] = k + 1
    BY <1>16, <2>1
  <2> QED BY <1>12, <1>18, <2>2, <2>3, <2>4, <2>5, <2>6 DEF Rendering
<1> QED BY <1>7, <1>19

\* The text made of a reply whose literals hold no bracket renders it.
LEMMA FilledRenders ==
    ASSUME NEW S, Made \subseteq S, NEW s \in Seq(S), NEW title \in Seq(S),
           \A i \in 1..Len(s) : s[i] \notin Reserved
    PROVE  Filled(s, title) \in Seq(S) /\ \E o : Rendering(Filled(s, title), s, Len(s), o)
<1> DEFINE F(k) == Fill!Folded(SubSeq(s, 1, k), <<>>, title)
<1> DEFINE T == {k \in Nat : k <= Len(s) => F(k) \in Seq(S) /\ \E o : Rendering(F(k), s, k, o)}
<1>1. 0 \in T
  <2>1. SubSeq(s, 1, 0) = <<>>
    OBVIOUS
  <2>2. F(0) = <<>>
    BY <2>1, Fill!FoldNil
  <2>3. PICK e : e = <<>>
    OBVIOUS
  <2>4. PICK o : o = [p \in 1..0 |-> 0]
    OBVIOUS
  <2>5. Len(e) = 0 /\ o \in [1..0 -> 1..0] /\ 1..0 = {} /\ 1..(0 - 1) = {} /\ e \in Seq(S)
    BY <2>3, <2>4
  <2>6. Closed(e, 0)
    <3>1. \A C \in Kinds : Tally(e, C, 0) = 0
      BY TallyNone
    <3> QED BY <3>1 DEF Closed
  <2>7. Rendering(e, s, 0, o)
    BY <2>5, <2>6 DEF Rendering
  <2> QED BY <2>2, <2>3, <2>5, <2>7
<1>2. ASSUME NEW k \in Nat, k \in T PROVE k + 1 \in T
  <2> SUFFICES ASSUME k + 1 <= Len(s)
               PROVE  F(k + 1) \in Seq(S) /\ \E o : Rendering(F(k + 1), s, k + 1, o)
    OBVIOUS
  <2>1. F(k + 1) = TextStep(F(k), s[k + 1], title)
    BY Fill!FoldPrefix
  <2>2. PICK out : out = F(k)
    OBVIOUS
  <2>3. k <= Len(s)
    OBVIOUS
  <2>4. out \in Seq(S) /\ \E o : Rendering(out, s, k, o)
    BY <1>2, <2>2, <2>3
  <2>5. PICK o : Rendering(out, s, k, o)
    BY <2>4
  <2>6. PICK out2 : out2 = F(k + 1)
    OBVIOUS
  <2>7. out2 = out \o Rendered(s[k + 1], title)
    BY <2>1, <2>2, <2>6 DEF TextStep
  <2>8. s[k + 1] \notin Reserved
    <3>1. k + 1 \in 1..Len(s)
      OBVIOUS
    <3> QED BY <3>1
  <2>9. out2 \in Seq(S) /\ \E x : Rendering(out2, s, k + 1, x)
    BY <2>4, <2>5, <2>7, <2>8, RenderedOn
  <2> QED BY <2>6, <2>9
<1>3. PICK n \in Nat : n = Len(s)
  OBVIOUS
<1>4. Nat \subseteq T
  <2> HIDE DEF T
  <2> QED BY <1>1, <1>2, Pages!NatSetInduction
<1>5. F(n) \in Seq(S) /\ \E o : Rendering(F(n), s, n, o)
  BY <1>3, <1>4
<1>6. SubSeq(s, 1, n) = s
  BY <1>3
<1>7. Filled(s, title) = F(n)
  BY <1>6, FilledIs
<1> QED BY <1>3, <1>5, <1>7
-----------------------------------------------------------------------------
(* The paragraphs of the text *)

Flat(c) == IF c = "angle" THEN "letter" ELSE c

\* q is a piece of out that no bracket crosses, without its tags, and begins as
\* a paragraph does.
Excerpt(q, out) ==
    \E c \in Nat, m \in Nat \ {0} :
        /\ c + m <= Len(out)
        /\ Closed(out, c) /\ Closed(out, c + m)
        /\ q = [i \in 1..m |-> Flat(out[c + i])]
        /\ q[1] \notin {"marker", "bullet", "space"}

\* Line breaks stand outside the brackets, and the text ends outside them.
BreaksClosed(out) ==
    /\ Closed(out, Len(out))
    /\ \A p \in 1..Len(out) : out[p] = "newline" => Closed(out, p)

\* A line runs from one break, or the start, to another, or the end.
IsLine(l, out) ==
    \E a, b \in Nat : /\ a < b /\ b <= Len(out) + 1
                      /\ Closed(out, a) /\ Closed(out, b - 1)
                      /\ Len(l) = b - a - 1
                      /\ \A i \in 1..(b - a - 1) : l[i] = out[a + i]

\* Lines cuts a text at its breaks.
LEMMA LinesAre ==
    ASSUME NEW S, NEW out \in Seq(S), BreaksClosed(out), NEW lines, lines = Lines(out)
    PROVE  \E z \in Nat : /\ DOMAIN lines = 1..z /\ Len(lines) = z
                          /\ \A k \in 1..z : lines[k] \in Seq(S) /\ IsLine(lines[k], out)
<1>1. PICK n \in Nat : n = Len(out)
  OBVIOUS
<1>2. PICK N : N = {i \in 1..n : out[i] = "newline"} \cup {0, n + 1}
  OBVIOUS
<1>3. IsFiniteSet(N)
  <2>1. N \subseteq 0..(n + 1)
    BY <1>2
  <2>2. IsFiniteSet(0..(n + 1))
    BY FS_Interval
  <2> QED BY <2>1, <2>2, FS_Subset
<1>4. N \subseteq Nat
  BY <1>2
<1>5. PICK o : o = Ascending(N)
  OBVIOUS
<1>6. /\ o \in Seq(N) /\ Range(o) = N
      /\ \A j, k \in DOMAIN o : j < k => o[j] < o[k]
  BY <1>3, <1>4, <1>5, OldestIs
<1>7. PICK y \in Nat : y = Len(o) /\ DOMAIN o = 1..y
  BY <1>6
<1>8. y # 0
  <2>1. 0 \in Range(o)
    BY <1>2, <1>6
  <2> QED BY <1>7, <2>1 DEF Range
<1>9. lines = [k \in 1..(y - 1) |-> SubSeq(out, o[k] + 1, o[k + 1] - 1)]
  <2>1. lines = [k \in 1..(Len(o) - 1) |-> SubSeq(out, o[k] + 1, o[k + 1] - 1)]
    BY <1>1, <1>2, <1>5 DEF Lines, InOrder, Ascending
  <2> QED BY <1>7, <2>1
<1>10. ASSUME NEW k \in 1..(y - 1)
       PROVE  lines[k] \in Seq(S) /\ IsLine(lines[k], out)
  <2>1. k \in DOMAIN o /\ k + 1 \in DOMAIN o /\ k < k + 1
    BY <1>7
  <2>2. PICK a \in N : a = o[k]
    BY <1>6, <2>1
  <2>3. PICK b \in N : b = o[k + 1]
    BY <1>6, <2>1
  <2>4. a < b /\ a \in Nat /\ b \in Nat /\ b <= n + 1
    BY <1>2, <1>6, <2>1, <2>2, <2>3
  <2>5. PICK l : l = SubSeq(out, a + 1, b - 1)
    OBVIOUS
  <2>6. lines[k] = l
    BY <1>9, <2>2, <2>3, <2>5
  <2>7. a + 1 >= 1 /\ b - 1 <= n
    BY <2>4
  <2>8. l \in Seq(S) /\ Len(l) = b - a - 1 /\ \A i \in 1..(b - a - 1) : l[i] = out[a + i]
    BY <1>1, <2>4, <2>5, <2>7
  <2>9. Closed(out, a)
    <3>1. CASE a = 0
      <4>1. \A C \in Kinds : Tally(out, C, 0) = 0
        BY TallyNone
      <4> QED BY <3>1, <4>1 DEF Closed
    <3>2. CASE a # 0
      <4>1. a \in 1..n /\ out[a] = "newline"
        BY <1>2, <2>4, <3>2
      <4> QED BY <1>1, <4>1 DEF BreaksClosed
    <3> QED BY <3>1, <3>2
  <2>10. Closed(out, b - 1)
    <3>1. CASE b = n + 1
      <4>1. b - 1 = n
        BY <3>1
      <4> QED BY <1>1, <4>1 DEF BreaksClosed
    <3>2. CASE b # n + 1
      <4>1. b \in 1..n /\ out[b] = "newline"
        BY <1>2, <2>4, <3>2
      <4>2. Closed(out, b)
        BY <1>1, <4>1 DEF BreaksClosed
      <4>3. b - 1 \in Nat /\ b - 1 <= b
        BY <4>1
      <4>4. \A j \in ((b - 1) + 1)..b : out[j] \notin Reserved
        <5> SUFFICES ASSUME NEW j \in ((b - 1) + 1)..b PROVE out[j] \notin Reserved
          OBVIOUS
        <5>1. j = b
          BY <2>4
        <5> QED BY <4>1, <5>1 DEF Reserved
      <4> QED BY <2>4, <4>2, <4>3, <4>4, StaysClosed
    <3> QED BY <3>1, <3>2
  <2>11. IsLine(l, out)
    BY <1>1, <2>4, <2>8, <2>9, <2>10 DEF IsLine
  <2> QED BY <2>6, <2>8, <2>11
<1>11. y - 1 \in Nat /\ DOMAIN lines = 1..(y - 1) /\ Len(lines) = y - 1
  BY <1>8, <1>9
<1> QED BY <1>10, <1>11

\* A line that is not empty without its markers is an excerpt.
LEMMA PlainLineIs ==
    ASSUME NEW S, NEW out \in Seq(S), NEW l \in Seq(S), IsLine(l, out),
           NEW q, q = plain_line(l), q # <<>>
    PROVE  Excerpt(q, out)
<1>1. PICK a \in Nat, b \in Nat : /\ a < b /\ b <= Len(out) + 1
                      /\ Closed(out, a) /\ Closed(out, b - 1)
                      /\ Len(l) = b - a - 1
                      /\ \A i \in 1..(b - a - 1) : l[i] = out[a + i]
  BY DEF IsLine
<1>2. PICK n \in Nat : n = Len(l) /\ n = b - a - 1
  BY <1>1
<1>3. PICK K : K = {i \in 1..n : l[i] \notin {"marker", "bullet", "space"}}
  OBVIOUS
<1>4. PICK t : t = IF K = {} THEN <<>> ELSE SubSeq(l, Min(K), n)
  OBVIOUS
<1>5. q = [i \in 1..Len(t) |-> Flat(t[i])]
  BY <1>2, <1>3, <1>4 DEF plain_line, Flat
<1>6. K # {}
  <2> SUFFICES ASSUME K = {} PROVE FALSE
    OBVIOUS
  <2>1. Len(t) = 0
    BY <1>4
  <2> QED BY <1>5, <2>1
<1>7. PICK f \in K : \A i \in K : f <= i
  <2>1. K \subseteq Nat
    BY <1>3
  <2> QED BY <1>6, <2>1, Pages!Least
<1>8. Min(K) = f
  <2>1. \A x \in K : (\A y \in K : x <= y) <=> x = f
    BY <1>3, <1>7
  <2> QED BY <2>1 DEF Min
<1>9. f \in 1..n /\ l[f] \notin {"marker", "bullet", "space"}
  BY <1>3
<1>10. PICK c \in Nat : c = a + f - 1
  BY <1>9
<1>11. PICK m \in Nat \ {0} : m = n - f + 1
  BY <1>9
<1>12. t = SubSeq(l, f, n)
  BY <1>4, <1>6, <1>8
<1>13. Len(t) = m /\ \A i \in 1..m : t[i] = l[f - 1 + i]
  BY <1>2, <1>9, <1>11, <1>12
<1>14. c + m = b - 1 /\ c + m <= Len(out)
  BY <1>1, <1>2, <1>9, <1>10, <1>11
<1>15. \A i \in 1..m : t[i] = out[c + i]
  <2> SUFFICES ASSUME NEW i \in 1..m PROVE t[i] = out[c + i]
    OBVIOUS
  <2>1. f - 1 + i \in 1..(b - a - 1) /\ a + (f - 1 + i) = c + i
    BY <1>2, <1>9, <1>10, <1>11
  <2> QED BY <1>1, <1>13, <2>1
<1>16. q = [i \in 1..m |-> Flat(out[c + i])]
  BY <1>5, <1>13, <1>15
<1>17. Closed(out, c)
  <2>1. \A j \in (a + 1)..c : out[j] \notin Reserved
    <3> SUFFICES ASSUME NEW j \in (a + 1)..c PROVE out[j] \notin Reserved
      OBVIOUS
    <3>1. j - a \in 1..n /\ j - a < f /\ a + (j - a) = j
      BY <1>9, <1>10
    <3>2. j - a \notin K
      BY <1>3, <1>7, <3>1
    <3>3. l[j - a] \in {"marker", "bullet", "space"}
      BY <1>3, <3>1, <3>2
    <3>4. out[j] = l[j - a]
      BY <1>1, <1>2, <3>1
    <3> QED BY <3>3, <3>4 DEF Reserved
  <2>2. a <= c
    BY <1>9, <1>10
  <2> QED BY <1>1, <2>1, <2>2, StaysClosed
<1>18. q[1] \notin {"marker", "bullet", "space"}
  <2>1. 1 \in 1..m /\ f - 1 + 1 = f
    BY <1>9
  <2>2. q[1] = Flat(l[f])
    BY <1>5, <1>13, <2>1
  <2> QED BY <1>9, <2>2 DEF Flat
<1>19. Closed(out, c + m)
  BY <1>1, <1>14
<1> QED BY <1>14, <1>16, <1>17, <1>18, <1>19 DEF Excerpt

\* The text a narrative is cut from.
TextOf(narr, title) == Filled(normalize(narr), title)

\* Each paragraph of a narrative is an excerpt of its text.
LEMMA ParagraphsAre ==
    ASSUME NEW S, NEW narr, NEW title, NEW out \in Seq(S), out = TextOf(narr, title), BreaksClosed(out),
           NEW r, r = fill_narrative(narr, title)
    PROVE  \A k \in DOMAIN r : Excerpt(r[k], out)
<1>1. PICK lines : lines = Lines(out)
  OBVIOUS
<1>2. PICK z \in Nat : /\ DOMAIN lines = 1..z /\ Len(lines) = z
                       /\ \A k \in 1..z : lines[k] \in Seq(S) /\ IsLine(lines[k], out)
  BY <1>1, LinesAre
<1>3. PICK paras : paras = [k \in 1..z |-> plain_line(lines[k])]
  OBVIOUS
<1>4. PICK Q : Q = {plain_line(lines[k]) : k \in 1..z}
  OBVIOUS
<1>5. paras \in Seq(Q) /\ Len(paras) = z /\ DOMAIN paras = 1..z
  BY <1>3, <1>4
<1>6. PICK at : at = {k \in 1..z : paras[k] # <<>>}
  OBVIOUS
<1>7. r = Picked(paras, at)
  BY <1>1, <1>2, <1>3, <1>5, <1>6 DEF fill_narrative, TextOf, Filled
<1>8. at \subseteq 1..Len(paras)
  BY <1>5, <1>6
<1>9. PartOf(r, paras, at)
  BY <1>5, <1>7, <1>8, PickedIs
<1>10. ASSUME NEW k \in DOMAIN r PROVE Excerpt(r[k], out)
  <2>1. PICK i \in at : r[k] = paras[i]
    BY <1>9 DEF PartOf
  <2>2. i \in 1..z /\ paras[i] # <<>> /\ paras[i] = plain_line(lines[i])
    BY <1>3, <1>6
  <2>3. PICK q : q = paras[i]
    OBVIOUS
  <2>4. Excerpt(q, out)
    BY <1>2, <2>2, <2>3, PlainLineIs
  <2> QED BY <2>1, <2>3, <2>4
<1> QED BY <1>10
-----------------------------------------------------------------------------
(* An excerpt is honest *)

\* q has characters of C where l has some behind c.
Repeats(q, l, C, c, m) == \A i \in 1..m : q[i] \in C <=> l[c + i] \in C

\* A count goes on where it stood.
LEMMA TallyOn ==
    ASSUME NEW l, NEW q, NEW C, NEW c \in Nat, NEW m \in Nat, Repeats(q, l, C, c, m)
    PROVE  \A i \in 0..m : Tally(l, C, c + i) = Tally(l, C, c) + Tally(q, C, i)
<1> DEFINE T == {i \in Nat : i <= m => Tally(l, C, c + i) = Tally(l, C, c) + Tally(q, C, i)}
<1>0. Tally(l, C, c) \in Nat
  BY TallyNat
<1>1. 0 \in T
  <2>1. Tally(q, C, 0) = 0 /\ c + 0 = c
    BY TallyNone
  <2> QED BY <1>0, <2>1
<1>2. ASSUME NEW i \in Nat, i \in T PROVE i + 1 \in T
  <2> SUFFICES ASSUME i + 1 <= m
               PROVE  Tally(l, C, c + (i + 1)) = Tally(l, C, c) + Tally(q, C, i + 1)
    OBVIOUS
  <2>1. Tally(l, C, c + i) = Tally(l, C, c) + Tally(q, C, i)
    BY <1>2
  <2>2. PICK d \in Nat : d = c + i /\ c + (i + 1) = d + 1
    OBVIOUS
  <2>3. q[i + 1] \in C <=> l[d + 1] \in C
    <3>1. i + 1 \in 1..m
      OBVIOUS
    <3> QED BY <2>2, <3>1 DEF Repeats
  <2>4. Tally(q, C, i) \in Nat
    BY TallyNat
  <2>5. CASE q[i + 1] \in C
    <3>1. Tally(q, C, i + 1) = Tally(q, C, i) + 1
      BY <2>5, TallyOne
    <3>2. Tally(l, C, d + 1) = Tally(l, C, d) + 1
      BY <2>3, <2>5, TallyOne
    <3> QED BY <1>0, <2>1, <2>2, <2>4, <3>1, <3>2
  <2>6. CASE q[i + 1] \notin C
    <3>1. \A j \in (i + 1)..(i + 1) : q[j] \notin C
      <4> SUFFICES ASSUME NEW j \in (i + 1)..(i + 1) PROVE q[j] \notin C
        OBVIOUS
      <4>1. j = i + 1
        OBVIOUS
      <4> QED BY <2>6, <4>1
    <3>2. \A j \in (d + 1)..(d + 1) : l[j] \notin C
      <4> SUFFICES ASSUME NEW j \in (d + 1)..(d + 1) PROVE l[j] \notin C
        OBVIOUS
      <4>1. j = d + 1
        OBVIOUS
      <4> QED BY <2>3, <2>6, <4>1
    <3>3. i + 1 \in Nat /\ i <= i + 1 /\ d + 1 \in Nat /\ d <= d + 1
      OBVIOUS
    <3>4. Tally(q, C, i + 1) = Tally(q, C, i)
      BY <3>1, <3>3, TallySkips
    <3>5. Tally(l, C, d + 1) = Tally(l, C, d)
      BY <3>2, <3>3, TallySkips
    <3> QED BY <2>1, <2>2, <3>4, <3>5
  <2> QED BY <2>5, <2>6
<1> HIDE DEF T
<1>3. Nat \subseteq T
  BY <1>1, <1>2, Pages!NatSetInduction
<1>4. \A i \in 0..m : i \in T /\ i \in Nat /\ i <= m
  BY <1>3
<1> QED BY <1>4 DEF T

\* A reply a narrative is made of, without its format characters.
Taken(s) ==
    /\ \A i \in 1..Len(s) : s[i] \notin {"format", "control"}
    /\ ~MentionsFactsHeading(s) /\ check_literal(s) /\ parse_key(s) /\ ~measure_after_unit(s)

\* No character outside the brackets is one the rules keep out.
LEMMA ShownIs ==
    ASSUME NEW x, x \notin {"format", "control", "digit", "{{f9}}", "{{"} \cup Reserved
    PROVE  Flat(Shown(x)) \notin {"digit", "angle", "control", "format", "{{f9}}", "{{"} \cup Placeholders
<1>1. CASE x = "{{f1}}"
  BY <1>1 DEF Flat, Shown, Placeholders
<1>2. CASE x = "{{t1}}"
  BY <1>2 DEF Flat, Shown, Placeholders
<1>3. CASE x = "angle"
  BY <1>3 DEF Flat, Shown, Placeholders
<1>4. CASE x \notin {"{{f1}}", "{{t1}}", "angle"}
  <2>1. Flat(Shown(x)) = x
    BY <1>4 DEF Flat, Shown
  <2> QED BY <1>4, <2>1 DEF Placeholders
<1> QED BY <1>1, <1>2, <1>3, <1>4

\* Which character of the reply a sign outside the brackets stands for.
LEMMA SourceIs ==
    ASSUME NEW x, x \notin Reserved
    PROVE  /\ Flat(Shown(x)) = "unit" => x = "{{f1}}"
           /\ \A c \in {"numeral", "measure", "space", "newline", "heading", "word"} :
                 Flat(Shown(x)) = c <=> x = c
<1>1. CASE x \in {"{{f1}}", "{{t1}}", "angle"}
  BY <1>1 DEF Flat, Shown
<1>2. CASE x \notin {"{{f1}}", "{{t1}}", "angle"}
  <2>1. Flat(Shown(x)) = x
    BY <1>2 DEF Flat, Shown
  <2> QED BY <2>1 DEF Reserved
<1> QED BY <1>1, <1>2

\* An excerpt of the text a reply was made into claims nothing of its own.
LEMMA ExcerptIsHonest ==
    ASSUME NEW S, NEW s \in Seq(S), Taken(s), NEW out \in Seq(S), NEW org, Rendering(out, s, Len(s), org),
           NEW q, Excerpt(q, out)
    PROVE  HonestParagraph(q)
<1>1. PICK c \in Nat, m \in Nat \ {0} :
        /\ c + m <= Len(out)
        /\ Closed(out, c) /\ Closed(out, c + m)
        /\ q = [i \in 1..m |-> Flat(out[c + i])]
        /\ q[1] \notin {"marker", "bullet", "space"}
  BY DEF Excerpt
<1>2. Len(q) = m
  BY <1>1
<1>3. ASSUME NEW C \in Kinds
      PROVE  \A i \in 0..m : Tally(out, C, c + i) = Tally(out, C, c) + Tally(q, C, i)
  <2>1. Repeats(q, out, C, c, m)
    <3>1. C \subseteq Reserved
      BY DEF Kinds, Reserved
    <3>2. "angle" \notin C /\ "letter" \notin C
      BY <3>1 DEF Reserved
    <3> QED BY <1>1, <3>2 DEF Flat, Repeats
  <2>2. m \in Nat
    OBVIOUS
  <2> QED BY <2>1, <2>2, TallyOn
<1>4. \A C \in Kinds : Tally(out, C, c) \in Nat /\ Tally(out, C, c) % 2 = 0 /\ Tally(out, C, c + m) % 2 = 0
  BY <1>1, TallyNat DEF Closed
<1>5. \A C \in Kinds : \A i \in 0..m : Tally(q, C, i) \in Nat
  <2> SUFFICES ASSUME NEW C \in Kinds, NEW i \in 0..m PROVE Tally(q, C, i) \in Nat
    OBVIOUS
  <2>1. i \in Nat
    OBVIOUS
  <2> QED BY <2>1, TallyNat
<1>6. \A d \in Reserved : Cardinality({i \in 1..Len(q) : q[i] = d}) % 2 = 0
  <2> SUFFICES ASSUME NEW d \in Reserved PROVE Cardinality({i \in 1..Len(q) : q[i] = d}) % 2 = 0
    OBVIOUS
  <2>1. PICK C : C = {d}
    OBVIOUS
  <2>2. C \in Kinds
    BY <2>1 DEF Kinds, Reserved
  <2>3. {i \in 1..Len(q) : q[i] = d} = {i \in 1..m : q[i] \in C}
    BY <1>2, <2>1
  <2>4. Tally(out, C, c + m) = Tally(out, C, c) + Tally(q, C, m)
    BY <1>3, <2>2
  <2>5. Tally(q, C, m) % 2 = 0
    <3>1. PICK y \in Nat : y = Tally(q, C, m)
      BY <1>5, <2>2
    <3>2. PICK x \in Nat : x = Tally(out, C, c) /\ x % 2 = 0
      BY <1>4, <2>2
    <3>3. (x + y) % 2 = 0
      BY <1>4, <2>2, <2>4, <3>1, <3>2
    <3>4. y % 2 = 0
      BY <3>2, <3>3
    <3> QED BY <3>1, <3>4
  <2> QED BY <2>3, <2>5 DEF Tally
<1>7. \A i \in 0..m : InBrackets(q, i) <=> Inside(out, c + i)
  <2> SUFFICES ASSUME NEW i \in 0..m PROVE InBrackets(q, i) <=> Inside(out, c + i)
    OBVIOUS
  <2>1. Reserved \in Kinds
    BY DEF Kinds
  <2>2. Tally(out, Reserved, c + i) = Tally(out, Reserved, c) + Tally(q, Reserved, i)
    BY <1>3, <2>1
  <2>3. Tally(q, Reserved, i) \in Nat
    BY <1>5, <2>1
  <2>4. InBrackets(q, i) <=> Tally(q, Reserved, i) % 2 = 1
    BY DEF InBrackets, Tally
  <2>5. PICK a \in Nat : a = Tally(out, Reserved, c) /\ a % 2 = 0
    BY <1>4, <2>1
  <2>6. PICK b \in Nat : b = Tally(q, Reserved, i)
    BY <2>3
  <2>7. (a + b) % 2 = 1 <=> b % 2 = 1
    BY <2>5
  <2>8. Inside(out, c + i) <=> (a + b) % 2 = 1
    BY <2>2, <2>5, <2>6 DEF Inside
  <2> QED BY <2>4, <2>6, <2>7, <2>8
<1>8. PICK typed : typed = [i \in 1..m |-> IF InBrackets(q, i) THEN "quote" ELSE q[i]]
  OBVIOUS
<1>17. Len(typed) = m
  BY <1>8
<1>9. PICK g : g = [i \in 1..m |-> org[c + i]]
  OBVIOUS
\* Where a character comes from.
<1>10. ASSUME NEW i \in 1..m, ~Inside(out, c + i)
       PROVE  /\ g[i] \in 1..Len(s)
              /\ q[i] = Flat(Shown(s[g[i]])) /\ typed[i] = q[i]
              /\ s[g[i]] \notin {"format", "control", "digit", "{{f9}}", "{{"} \cup Reserved
  <2>1. c + i \in 1..Len(out)
    BY <1>1
  <2>2. org[c + i] \in 1..Len(s) /\ out[c + i] = Shown(s[org[c + i]])
    BY <1>10, <2>1 DEF Rendering
  <2>3. s[g[i]] \notin {"format", "control", "digit", "{{f9}}", "{{"} \cup Reserved
    <3>1. g[i] \in 1..Len(s)
      BY <1>9, <2>2
    <3>2. s[g[i]] \notin {"format", "control"}
      BY <3>1 DEF Taken
    <3>3. s[g[i]] \notin {"digit"} \cup Reserved
      BY <3>1 DEF Taken, check_literal
    <3>4. s[g[i]] \notin {"{{f9}}", "{{"}
      BY <3>1 DEF Taken, parse_key
    <3> QED BY <3>2, <3>3, <3>4
  <2>4. ~InBrackets(q, i)
    BY <1>7, <1>10
  <2> QED BY <1>1, <1>8, <1>9, <2>2, <2>3, <2>4
<1>18. ASSUME NEW i \in 1..m, ~Inside(out, c + i)
       PROVE  /\ typed[i] = "unit" => s[g[i]] = "{{f1}}"
              /\ \A d \in {"numeral", "measure", "space", "newline", "heading", "word"} :
                    typed[i] = d <=> s[g[i]] = d
  <2>1. PICK x : x = s[g[i]]
    OBVIOUS
  <2>2. x \notin Reserved /\ typed[i] = Flat(Shown(x))
    BY <1>10, <1>18, <2>1
  <2>3. /\ Flat(Shown(x)) = "unit" => x = "{{f1}}"
        /\ \A d \in {"numeral", "measure", "space", "newline", "heading", "word"} :
              Flat(Shown(x)) = d <=> x = d
    BY <2>2, SourceIs
  <2> QED BY <2>1, <2>2, <2>3
<1>11. ASSUME NEW i \in 1..m, Inside(out, c + i) PROVE typed[i] = "quote"
  BY <1>7, <1>8, <1>11
\* Side by side outside the brackets, side by side in the reply.
<1>12. ASSUME NEW i \in 1..m, i + 1 \in 1..m, ~Inside(out, c + i), q[i + 1] \notin Reserved
       PROVE  ~Inside(out, c + (i + 1)) /\ g[i + 1] = g[i] + 1
  <2>1. PICK p \in Nat : p = c + i
    OBVIOUS
  <2>2. c + (i + 1) = p + 1
    BY <2>1
  <2>3. out[p + 1] \notin Reserved
    <3>1. q[i + 1] = Flat(out[p + 1])
      BY <1>1, <1>12, <2>2
    <3> QED BY <1>12, <3>1 DEF Flat, Reserved
  <2>4. ~Inside(out, p + 1)
    BY <1>12, <2>1, <2>3, StaysOutside
  <2>5. p \in 1..(Len(out) - 1)
    BY <1>1, <1>12, <2>1
  <2>6. org[p + 1] = org[p] + 1
    BY <1>12, <2>1, <2>4, <2>5 DEF Rendering
  <2> QED BY <1>9, <1>12, <2>1, <2>2, <2>4, <2>6
<1>13. \A i \in 1..m : typed[i] \in {"numeral", "unit"} => ~MeasureFollows(q, i + 1)
  <2> SUFFICES ASSUME NEW i \in 1..m, typed[i] \in {"numeral", "unit"}, MeasureFollows(q, i + 1)
               PROVE  FALSE
    OBVIOUS
  <2>1. ~Inside(out, c + i)
    BY <1>11
  <2>2. s[g[i]] \in {"numeral", "{{f1}}"} /\ g[i] \in 1..Len(s)
    BY <1>10, <1>18, <2>1
  <2>3. MeasureFollows(s, g[i] + 1)
    <3>1. CASE i + 1 \in 1..m /\ q[i + 1] = "space"
      <4>1. (i + 1) + 1 \in 1..m /\ q[(i + 1) + 1] = "measure"
        BY <1>2, <3>1 DEF MeasureFollows
      <4>2. ~Inside(out, c + (i + 1)) /\ g[i + 1] = g[i] + 1
        BY <1>12, <2>1, <3>1 DEF Reserved
      <4>3. PICK j \in 1..m : j = i + 1
        BY <3>1
      <4>4. ~Inside(out, c + (j + 1)) /\ g[j + 1] = g[j] + 1
        BY <1>12, <4>1, <4>2, <4>3 DEF Reserved
      <4>5. g[j] \in 1..Len(s) /\ s[g[j]] = "space"
        BY <1>10, <1>18, <3>1, <4>2, <4>3
      <4>6. PICK k \in 1..m : k = j + 1
        BY <4>1, <4>3
      <4>7. g[k] \in 1..Len(s) /\ s[g[k]] = "measure"
        BY <1>10, <1>18, <4>1, <4>3, <4>4, <4>6
      <4> QED BY <4>2, <4>3, <4>4, <4>5, <4>6, <4>7 DEF MeasureFollows
    <3>2. CASE ~(i + 1 \in 1..m /\ q[i + 1] = "space")
      <4>1. i + 1 \in 1..m /\ q[i + 1] = "measure"
        BY <1>2, <3>2 DEF MeasureFollows
      <4>2. ~Inside(out, c + (i + 1)) /\ g[i + 1] = g[i] + 1
        BY <1>12, <2>1, <4>1 DEF Reserved
      <4>3. PICK j \in 1..m : j = i + 1
        BY <4>1
      <4>4. g[j] \in 1..Len(s) /\ s[g[j]] = "measure"
        BY <1>10, <1>18, <4>1, <4>2, <4>3
      <4> QED BY <4>2, <4>3, <4>4 DEF MeasureFollows
    <3> QED BY <3>1, <3>2
  <2>4. CASE s[g[i]] = "numeral"
    BY <2>2, <2>3, <2>4 DEF Taken, check_literal
  <2>5. CASE s[g[i]] = "{{f1}}"
    BY <2>2, <2>3, <2>5 DEF Taken, measure_after_unit
  <2> QED BY <2>2, <2>4, <2>5
<1>14. \A d \in {"digit", "angle", "control", "format", "{{f9}}", "{{"} \cup Placeholders : ~Contains(typed, d)
  <2> SUFFICES ASSUME NEW d \in {"digit", "angle", "control", "format", "{{f9}}", "{{"} \cup Placeholders,
                      NEW i \in 1..m, typed[i] = d
               PROVE  FALSE
    <3> QED BY <1>17 DEF Contains
  <2>1. CASE Inside(out, c + i)
    BY <1>11, <2>1 DEF Placeholders
  <2>2. CASE ~Inside(out, c + i)
    <3>1. typed[i] = Flat(Shown(s[g[i]]))
          /\ s[g[i]] \notin {"format", "control", "digit", "{{f9}}", "{{"} \cup Reserved
      BY <1>10, <2>2
    <3> QED BY <3>1, ShownIs
  <2> QED BY <2>1, <2>2
<1>15. ~MentionsFactsHeading(typed)
  <2> SUFFICES ASSUME MentionsFactsHeading(typed) PROVE FALSE
    OBVIOUS
  <2>1. PICK i \in 1..m, j \in 1..m : /\ i < j /\ typed[i] = "heading" /\ typed[j] = "word"
                                      /\ \A k \in (i + 1)..(j - 1) : typed[k] \in Whitespace
    <3> QED BY <1>17 DEF MentionsFactsHeading
  <2>2. \A k \in i..j : k \in 1..m /\ ~Inside(out, c + k)
    <3> SUFFICES ASSUME NEW k \in i..j PROVE k \in 1..m /\ ~Inside(out, c + k)
      OBVIOUS
    <3>1. k \in 1..m /\ typed[k] # "quote"
      <4>1. k = i \/ k = j \/ k \in (i + 1)..(j - 1)
        OBVIOUS
      <4> QED BY <2>1, <4>1 DEF Whitespace
    <3> QED BY <1>11, <3>1
  <2>3. \A k \in i..(j - 1) : g[k + 1] = g[k] + 1
    <3> SUFFICES ASSUME NEW k \in i..(j - 1) PROVE g[k + 1] = g[k] + 1
      OBVIOUS
    <3>0. k \in i..j /\ k + 1 \in i..j
      OBVIOUS
    <3>1. k \in 1..m /\ k + 1 \in 1..m /\ ~Inside(out, c + k) /\ ~Inside(out, c + (k + 1))
      BY <2>2, <3>0
    <3>2. typed[k + 1] = q[k + 1]
      BY <1>10, <3>1
    <3>3. typed[k + 1] \notin Reserved
      <4>1. k + 1 = j \/ k + 1 \in (i + 1)..(j - 1)
        OBVIOUS
      <4> QED BY <2>1, <4>1 DEF Whitespace, Reserved
    <3> QED BY <1>12, <3>1, <3>2, <3>3
  <2>4. \A k \in i..j : g[k] = g[i] + (k - i)
    <3> DEFINE T == {d \in Nat : i + d <= j => g[i + d] = g[i] + d}
    <3>0. g[i] \in Nat
      <4>1. i \in i..j
        BY <2>1
      <4>2. ~Inside(out, c + i)
        BY <2>2, <4>1
      <4>3. g[i] \in 1..Len(s)
        BY <1>10, <4>2
      <4> QED BY <4>3
    <3>1. 0 \in T
      BY <3>0
    <3>2. ASSUME NEW d \in Nat, d \in T PROVE d + 1 \in T
      <4> SUFFICES ASSUME i + (d + 1) <= j PROVE g[i + (d + 1)] = g[i] + (d + 1)
        OBVIOUS
      <4>1. i + d \in i..(j - 1) /\ i + (d + 1) = (i + d) + 1
        OBVIOUS
      <4>2. g[i + d] = g[i] + d
        BY <3>2
      <4>3. g[(i + d) + 1] = g[i + d] + 1
        BY <2>3, <4>1
      <4> QED BY <3>0, <4>1, <4>2, <4>3
    <3> HIDE DEF T
    <3>3. Nat \subseteq T
      BY <3>1, <3>2, Pages!NatSetInduction
    <3>4. ASSUME NEW k \in i..j PROVE g[k] = g[i] + (k - i)
      <4>1. k - i \in T /\ i + (k - i) = k /\ k <= j
        BY <3>3
      <4> QED BY <4>1 DEF T
    <3> QED BY <3>4
  <2>5. \A k \in i..j : g[k] \in 1..Len(s) /\ \A d \in {"space", "newline", "heading", "word"} : typed[k] = d <=> s[g[k]] = d
    <3> SUFFICES ASSUME NEW k \in i..j
                 PROVE  g[k] \in 1..Len(s)
                        /\ \A d \in {"space", "newline", "heading", "word"} : typed[k] = d <=> s[g[k]] = d
      OBVIOUS
    <3>1. k \in 1..m /\ ~Inside(out, c + k)
      BY <2>2
    <3> QED BY <1>10, <1>18, <3>1
  <2>6. g[i] < g[j] /\ g[i] \in 1..Len(s) /\ g[j] \in 1..Len(s) /\ s[g[i]] = "heading" /\ s[g[j]] = "word"
    <3>1. i \in i..j /\ j \in i..j
      BY <2>1
    <3> QED BY <2>1, <2>4, <2>5, <3>1
  <2>7. \A e \in (g[i] + 1)..(g[j] - 1) : s[e] \in Whitespace
    <3> SUFFICES ASSUME NEW e \in (g[i] + 1)..(g[j] - 1) PROVE s[e] \in Whitespace
      OBVIOUS
    <3>1. PICK a \in Nat : a = g[i]
      BY <2>6
    <3>2. j \in i..j /\ g[j] = a + (j - i)
      BY <2>1, <2>4, <3>1
    <3>3. PICK k \in i..j : k = i + (e - a)
      BY <2>6, <3>1, <3>2
    <3>4. k \in (i + 1)..(j - 1) /\ g[k] = e
      <4>1. g[k] = a + (k - i)
        BY <2>4, <3>1
      <4>2. e \in (a + 1)..(a + (j - i) - 1)
        BY <3>1, <3>2
      <4>3. k - i = e - a /\ k \in (i + 1)..(j - 1)
        BY <3>3, <4>2
      <4> QED BY <4>1, <4>2, <4>3
    <3>5. typed[k] \in Whitespace
      BY <2>1, <3>4
    <3> QED BY <2>5, <3>4, <3>5 DEF Whitespace
  <2> QED BY <2>6, <2>7 DEF MentionsFactsHeading, Taken
<1>16. typed = [i \in 1..Len(q) |-> IF InBrackets(q, i) THEN "quote" ELSE q[i]]
  BY <1>2, <1>8
<1> QED BY <1>1, <1>2, <1>6, <1>13, <1>14, <1>15, <1>16 DEF HonestParagraph
-----------------------------------------------------------------------------
(* What a narrative claims *)

\* A narrative made of a reply that is accepted is honest, whatever the title.
LEMMA NarrativeIs ==
    ASSUME NEW C, NEW narr \in Seq(C), NEW title \in Seq(STRING), Accepted(narr),
           NEW r, r = fill_narrative(narr, title)
    PROVE  \A k \in DOMAIN r : HonestParagraph(r[k])
<1> DEFINE S == C \cup STRING \cup Made
<1>1. Made \subseteq S /\ narr \in Seq(S) /\ title \in Seq(S)
  OBVIOUS
<1> HIDE DEF S
<1>2. PICK s : s = normalize(narr)
  OBVIOUS
<1>3. s \in Seq(S) /\ \A k \in 1..Len(s) : s[k] # "format" /\ \E i \in 1..Len(narr) : s[k] = narr[i]
  BY <1>1, <1>2, NormalizedIs
<1>4. ~MentionsFactsHeading(s) /\ check_literal(s) /\ parse_key(s) /\ ~measure_after_unit(s)
  BY <1>2 DEF Accepted
<1>5. \A i \in 1..Len(narr) : narr[i] # "control"
  BY DEF Accepted, is_forbidden_control
<1>6. Taken(s)
  BY <1>3, <1>4, <1>5 DEF Taken
<1>7. \A i \in 1..Len(s) : s[i] \notin Reserved
  BY <1>4 DEF check_literal
<1>8. PICK out : out = Filled(s, title)
  OBVIOUS
<1>9. out \in Seq(S) /\ \E o : Rendering(out, s, Len(s), o)
  BY <1>1, <1>3, <1>7, <1>8, FilledRenders
<1>10. PICK o : Rendering(out, s, Len(s), o)
  BY <1>9
<1>11. BreaksClosed(out)
  BY <1>10 DEF Rendering, BreaksClosed
<1>12. out = TextOf(narr, title)
  BY <1>2, <1>8 DEF TextOf
<1>13. \A k \in DOMAIN r : Excerpt(r[k], out)
  BY <1>9, <1>11, <1>12, ParagraphsAre
<1>14. ASSUME NEW k \in DOMAIN r PROVE HonestParagraph(r[k])
  <2>1. PICK q : q = r[k]
    OBVIOUS
  <2>2. HonestParagraph(q)
    BY <1>3, <1>6, <1>9, <1>10, <1>13, <2>1, ExcerptIsHonest
  <2> QED BY <2>1, <2>2
<1> QED BY <1>14

HonestBody(b) == b.by = "narrative" => \A k \in DOMAIN b.paras : HonestParagraph(b.paras[k])

\* A run holds the characters its model has written so far, and no draft
\* claims anything.
Narrated ==
    /\ run.pc = "decide" => run.reply \in Seq(world.chars)
    /\ \A i \in DOMAIN drafts : HonestBody(drafts[i].body)

\* A body a run writes is honest.
LEMMA ComposedIs ==
    ASSUME Typed, Narrated, run.pc = "decide",
           NEW b, b = compose_body(run.draft, parse_summarize_reply(run.reply))
    PROVE  HonestBody(b)
<1>1. PICK r : r = parse_summarize_reply(run.reply)
  OBVIOUS
<1>2. CASE r = None
  <2>1. b.by = "facts"
    BY <1>1, <1>2 DEF compose_body, render_facts
  <2> QED BY <2>1 DEF HonestBody
<1>3. CASE r # None
  <2>1. b.paras = r
    BY <1>1, <1>3 DEF compose_body
  <2>2. Accepted(run.reply) /\ r = fill_narrative(run.reply, world.title)
    BY <1>1, <1>3 DEF parse_summarize_reply
  <2>3. world.title \in Seq(STRING) /\ run.reply \in Seq(world.chars)
    BY JournalAssumption DEF Typed, Narrated
  <2>4. \A k \in DOMAIN r : HonestParagraph(r[k])
    BY <2>2, <2>3, NarrativeIs
  <2> QED BY <2>1, <2>4 DEF HonestBody
<1> QED BY <1>2, <1>3

\* Drafts that stay, and a run that is not writing.
LEMMA NarratedKept ==
    ASSUME Narrated, UNCHANGED drafts, run'.pc # "decide" \/ UNCHANGED <<run, world>>
    PROVE  Narrated'
BY DEF Narrated

\* The steps of a run.
LEMMA RunNarrated ==
    ASSUME Typed, Drafted, Narrated, Summarize
    PROVE  Narrated'
<1>1. UNCHANGED world
  BY DEF Summarize, trigger_summarize, dedup_summarize, read_weekly_draft, run_summarize, run_ends,
         model_writes, scope
<1>2. PICK B : Texted(B)
  BY DEF Drafted
<1>3. ASSUME run' = Idle, UNCHANGED drafts PROVE Narrated'
  <2>1. run'.pc # "decide"
    BY <1>3 DEF Idle
  <2> QED BY <1>3, <2>1, NarratedKept
<1>4. ASSUME NEW w \in Weeks, trigger_summarize(w) PROVE Narrated'
  <2>1. UNCHANGED drafts /\ run'.pc # "decide"
    BY <1>4 DEF trigger_summarize
  <2> QED BY <2>1, NarratedKept
<1>5. CASE dedup_summarize
  <2>1. UNCHANGED drafts /\ run.pc = "dedup" /\ (run' = Idle \/ run' = [run EXCEPT !.pc = "read"])
    BY <1>5 DEF dedup_summarize
  <2>2. CASE run' = [run EXCEPT !.pc = "read"]
    <3>1. run = [pc |-> "dedup", week |-> run.week, base |-> run.base]
      BY <2>1, RunIs
    <3>2. run'.pc # "decide"
      BY <2>2, <3>1
    <3> QED BY <2>1, <3>2, NarratedKept
  <2> QED BY <1>3, <2>1, <2>2
<1>6. CASE read_weekly_draft
  <2>1. PICK d : d = weekly_draft_on(events, run.week)
    OBVIOUS
  <2>2. UNCHANGED drafts /\ (run' = Idle \/
          run' = [pc |-> "decide", week |-> run.week, base |-> run.base, draft |-> d, reply |-> <<>>])
    BY <1>6, <2>1 DEF read_weekly_draft
  <2>3. CASE run' = [pc |-> "decide", week |-> run.week, base |-> run.base, draft |-> d, reply |-> <<>>]
    <3>2. run'.reply \in Seq(world'.chars)
      BY <2>3
    <3> QED BY <2>2, <3>2 DEF Narrated
  <2> QED BY <1>3, <2>2, <2>3
<1>7. ASSUME NEW c \in world.chars, model_writes(c) PROVE Narrated'
  <2>1. PICK p : p = Append(run.reply, c)
    OBVIOUS
  <2>2. UNCHANGED drafts /\ run.pc = "decide" /\ run' = [run EXCEPT !.reply = p]
    BY <1>7, <2>1 DEF model_writes
  <2>3. run = [pc |-> "decide", week |-> run.week, base |-> run.base,
               draft |-> run.draft, reply |-> run.reply]
    BY <2>2, RunIs
  <2>4. run'.reply = p
    BY <2>2, <2>3
  <2>5. p \in Seq(world.chars)
    <3>1. PICK q : q = run.reply
      OBVIOUS
    <3>2. PICK C : C = world.chars
      OBVIOUS
    <3>3. q \in Seq(C) /\ c \in C
      BY <1>7, <2>2, <3>1, <3>2 DEF Narrated
    <3>4. Append(q, c) \in Seq(C)
      BY <3>3
    <3> QED BY <2>1, <3>1, <3>2, <3>4
  <2> QED BY <1>1, <2>2, <2>4, <2>5 DEF Narrated
<1>8. CASE run_summarize
  <2>1. PICK b : b = compose_body(run.draft, parse_summarize_reply(run.reply))
    OBVIOUS
  <2>2. PICK d : d = [week |-> run.week, base |-> run.base, at |-> now, status |-> "pending", body |-> b]
    OBVIOUS
  <2>3. run.pc = "decide" /\ run' = Idle /\ (drafts' = drafts \/ drafts' = Append(drafts, d))
    BY <1>8, <2>1, <2>2 DEF run_summarize
  <2>4. CASE drafts' = Append(drafts, d)
    <3>1. HonestBody(d.body)
      BY <2>1, <2>2, <2>3, ComposedIs
    <3>2. \A i \in DOMAIN drafts' : (i \in DOMAIN drafts /\ drafts'[i] = drafts[i]) \/ drafts'[i] = d
      <4>1. drafts \in Seq(DraftRow(B))
        BY <1>2 DEF Texted
      <4> QED BY <2>4, <4>1, AppendIs
    <3>3. run'.pc # "decide"
      BY <2>3 DEF Idle
    <3> QED BY <3>1, <3>2, <3>3 DEF Narrated
  <2> QED BY <1>3, <2>3, <2>4
<1>9. CASE run_ends
  <2>1. run' = Idle /\ UNCHANGED drafts
    BY <1>9 DEF run_ends
  <2> QED BY <1>3, <2>1
<1> QED BY <1>4, <1>5, <1>6, <1>7, <1>8, <1>9 DEF Summarize

\* The user's decisions, which leave a draft its body.
LEMMA DecisionNarrated ==
    ASSUME Drafted, Narrated, NEW i \in DOMAIN drafts, apply_draft(i) \/ reject_draft(i)
    PROVE  Narrated'
<1>1. PICK B : Texted(B)
  BY DEF Drafted
<1>2. UNCHANGED <<run, world>>
  BY DEF apply_draft, reject_draft, scope
<1>3. PICK status : drafts' = [drafts EXCEPT ![i].status = status]
  BY DEF apply_draft, reject_draft
<1>4. drafts \in Seq(DraftRow(B)) /\ drafts[i] \in DraftRow(B)
  BY <1>1, DraftIs DEF Texted
<1>5. PICK d : d = [drafts[i] EXCEPT !.status = status]
  OBVIOUS
<1>6. d.body = drafts[i].body
  BY <1>4, <1>5 DEF DraftRow
<1>7. drafts' = [drafts EXCEPT ![i] = d]
  BY <1>3, <1>5
<1>8. DOMAIN drafts' = DOMAIN drafts /\ \A j \in DOMAIN drafts : drafts'[j].body = drafts[j].body
  BY <1>4, <1>6, <1>7
<1> QED BY <1>2, <1>8 DEF Narrated

\* Every step keeps the drafts honest.
LEMMA EveryStepNarrated ==
    ASSUME JournalInv, Narrated, [Next]_vars
    PROVE  Narrated'
<1>0. Typed /\ Drafted
  BY DEF JournalInv, LedgerInv
<1>1. CASE UNCHANGED vars
  BY <1>1, NarratedKept DEF vars, reflect, scope
<1>2. CASE Tick \/ attention_apply_new_events \/ attention_rebuild
  BY <1>2, NarratedKept DEF Tick, attention_apply_new_events, attention_rebuild, reflect, scope
<1>3. CASE Writes
  <2>1. UNCHANGED <<reflect, scope>>
    BY <1>3 DEF Writes, create_direction, create_task, apply_create_tasks, InsertTask, transition_task,
                apply_assign_task_direction, create_block, transition_block, transition_routine
  <2> QED BY <2>1, NarratedKept DEF reflect, scope
<1>4. CASE Fires
  BY <1>4, NarratedKept DEF Fires, scheduler_fired, record_routine_fire, scope
<1>5. CASE Human
  <2>1. ASSUME NEW w \in Weeks, create_review(w) \/ finalize_review(w) PROVE Narrated'
    BY <2>1, NarratedKept DEF create_review, finalize_review, scope
  <2>2. ASSUME NEW w \in Weeks, NEW body, update_review_body(w, body) PROVE Narrated'
    BY <2>2, NarratedKept DEF update_review_body, scope
  <2>3. ASSUME NEW i \in DOMAIN drafts, apply_draft(i) \/ reject_draft(i) PROVE Narrated'
    BY <1>0, <2>3, DecisionNarrated
  <2> QED BY <1>5, <2>1, <2>2, <2>3 DEF Human
<1>6. CASE Summarize
  BY <1>0, <1>6, RunNarrated
<1> QED BY <1>1, <1>2, <1>3, <1>4, <1>5, <1>6 DEF Next

\* Whatever a model writes and whatever the user's titles hold, a narrative
\* that reaches a Proposal states no figure the program did not put there
\* (NarrativeIsHonest): for replies and titles of any length and any characters.
THEOREM NarrativeIsHonestAlways == Spec => []NarrativeIsHonest
<1>1. Init => Narrated
  BY DEF Init, Idle, Narrated
<1>2. JournalInv /\ Narrated /\ [Next]_vars => Narrated'
  BY EveryStepNarrated
<1>3. Narrated => NarrativeIsHonest
  BY DEF Narrated, HonestBody, NarrativeIsHonest
<1> QED BY <1>1, <1>2, <1>3, JournalInvariant, PTL DEF Spec
=============================================================================

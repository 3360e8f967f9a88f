------------------------------ MODULE FoldLemmas ------------------------------
(***************************************************************************)
(* Induction over the natural numbers, stated for sets, and what FoldLeft  *)
(* computes, one element at a time.  Step is the operator that is folded;  *)
(* its third argument is one the fold carries along unchanged (the source  *)
(* of a batch, for instance).  A proof module instantiates this one with   *)
(* the operator of its own fold.                                           *)
(***************************************************************************)
EXTENDS Naturals, Sequences, SequencesExt, WellFoundedInduction, TLAPS

CONSTANT Step(_, _, _)

Folded(s, base, arg) == FoldLeft(LAMBDA acc, e : Step(acc, e, arg), base, s)

\* A set of numbers has a least one.
LEMMA Least ==
    ASSUME NEW T, T \subseteq Nat, T # {}
    PROVE  \E n \in T : \A m \in T : n <= m
<1> DEFINE R == OpToRel(<, Nat)
<1>1. IsWellFoundedOn(R, Nat)
  BY NatLessThanWellFounded
<1>2. \A x, y \in Nat : x < y => <<x, y>> \in R
  BY DEF OpToRel
<1> HIDE DEF R
<1>3. PICK n \in T : \A y \in T : ~ (<<y, n>> \in R)
  BY <1>1, WFMin
<1>4. \A y \in T : ~(y < n)
  BY <1>2, <1>3
<1> QED BY <1>4

\* Induction, for the set of the numbers a formula holds of.
LEMMA NatSetInduction ==
    ASSUME NEW T, 0 \in T, \A n \in Nat : n \in T => n + 1 \in T
    PROVE  Nat \subseteq T
<1> SUFFICES ASSUME ~(Nat \subseteq T) PROVE FALSE
  OBVIOUS
<1> DEFINE U == {n \in Nat : n \notin T}
<1>1. U \subseteq Nat /\ U # {}
  OBVIOUS
<1>2. PICK n \in U : \A m \in U : n <= m
  BY <1>1, Least
<1>3. n # 0 /\ n - 1 \in Nat /\ n - 1 \notin U
  BY <1>2
<1> QED BY <1>2, <1>3

\* g computes the fold on every set of positions of s up to n.
Folds(g, s, base, arg, n) ==
    g = [p \in SUBSET (1..n) |-> IF p = {} THEN base
                                 ELSE Step(g[p \ {Max(p)}], s[Max(p)], arg)]

\* The fold takes the last position first.
LEMMA MaxIs ==
    ASSUME NEW n \in Nat, NEW p \in SUBSET (1..n+1), n + 1 \in p
    PROVE  Max(p) = n + 1
<1>1. \A x \in p : (\A y \in p : x >= y) <=> x = n + 1
  OBVIOUS
<1> QED BY <1>1 DEF Max

\* The recursive function FoldLeft is defined by exists.
LEMMA FoldsExist ==
    ASSUME NEW s, NEW base, NEW arg
    PROVE  \A n \in Nat : \E g : Folds(g, s, base, arg, n)
<1> DEFINE T == {n \in Nat : \E g : Folds(g, s, base, arg, n)}
<1>1. 0 \in T
  <2> DEFINE g == [p \in SUBSET (1..0) |-> base]
  <2>1. Folds(g, s, base, arg, 0)
    BY DEF Folds
  <2> QED BY <2>1
<1>2. ASSUME NEW n \in Nat, n \in T PROVE n + 1 \in T
  <2>1. PICK g : Folds(g, s, base, arg, n)
    BY <1>2
  <2> DEFINE h == [p \in SUBSET (1..n+1) |->
                     IF n + 1 \in p THEN Step(g[p \ {n + 1}], s[n + 1], arg) ELSE g[p]]
  <2>2. ASSUME NEW p \in SUBSET (1..n+1)
        PROVE  h[p] = IF p = {} THEN base ELSE Step(h[p \ {Max(p)}], s[Max(p)], arg)
    <3>1. CASE n + 1 \in p
      <4>1. Max(p) = n + 1 /\ p \ {n+1} \in SUBSET (1..n) /\ p # {}
        BY <3>1, MaxIs
      <4>2. p \ {n+1} \in SUBSET (1..n+1) /\ n + 1 \notin p \ {n+1}
        OBVIOUS
      <4>3. h[p \ {n+1}] = g[p \ {n+1}]
        BY <4>2
      <4> QED BY <3>1, <4>1, <4>3
    <3>2. CASE n + 1 \notin p
      <4>1. p \in SUBSET (1..n)
        BY <3>2
      <4>2. h[p] = g[p]
        BY <3>2
      <4>3. g[p] = IF p = {} THEN base ELSE Step(g[p \ {Max(p)}], s[Max(p)], arg)
        BY <2>1, <4>1 DEF Folds
      <4>4. ASSUME NEW x PROVE p \ {x} \in SUBSET (1..n+1) /\ n + 1 \notin p \ {x}
        BY <3>2
      <4>5. h[p \ {Max(p)}] = g[p \ {Max(p)}]
        BY <4>4
      <4> QED BY <4>2, <4>3, <4>5
    <3> QED BY <3>1, <3>2
  <2> HIDE DEF h
  <2>3. h = [p \in SUBSET (1..n+1) |-> h[p]]
    BY DEF h
  <2>4. Folds(h, s, base, arg, n + 1)
    BY <2>2, <2>3 DEF Folds
  <2> QED BY <2>4
<1> HIDE DEF T
<1>3. Nat \subseteq T
  BY <1>1, <1>2, NatSetInduction
<1> QED BY <1>3 DEF T

\* FoldLeft is its value on all positions.
LEMMA FoldedIs ==
    ASSUME NEW s, NEW base, NEW arg, NEW n \in Nat, DOMAIN s = 1..n
    PROVE  \E g : Folds(g, s, base, arg, n) /\ Folded(s, base, arg) = g[1..n]
<1> DEFINE g == CHOOSE g : Folds(g, s, base, arg, n)
<1>1. Folds(g, s, base, arg, n)
  BY FoldsExist
<1>2. Folded(s, base, arg) = g[1..n]
  BY DEF Folded, FoldLeft, MapThenFoldSet, Folds
<1> QED BY <1>1, <1>2

\* The fold of nothing is the base.
LEMMA FoldNil ==
    ASSUME NEW base, NEW arg
    PROVE  Folded(<<>>, base, arg) = base
<1>1. DOMAIN <<>> = 1..0
  OBVIOUS
<1>2. PICK g : Folds(g, <<>>, base, arg, 0) /\ Folded(<<>>, base, arg) = g[1..0]
  BY <1>1, FoldedIs
<1>3. 1..0 = {} /\ {} \in SUBSET (1..0)
  OBVIOUS
<1> QED BY <1>2, <1>3 DEF Folds

\* The last position is folded into the value of those before it.
LEMMA FoldsLast ==
    ASSUME NEW g, NEW s, NEW base, NEW arg, NEW n \in Nat, Folds(g, s, base, arg, n),
           NEW j \in Nat, j + 1 <= n
    PROVE  g[1..j+1] = Step(g[1..j], s[j+1], arg)
<1>1. 1..j+1 \in SUBSET (1..n) /\ 1..j+1 # {} /\ (1..j+1) \ {j+1} = 1..j
  OBVIOUS
<1>2. Max(1..j+1) = j + 1
  BY MaxIs
<1>3. g[1..j+1] = Step(g[(1..j+1) \ {Max(1..j+1)}], s[Max(1..j+1)], arg)
  BY <1>1 DEF Folds
<1> QED BY <1>1, <1>2, <1>3

\* The fold of the first positions depends on nothing behind them.
LEMMA FoldsAgree ==
    ASSUME NEW s, NEW t, NEW base, NEW arg, NEW m \in Nat, NEW n \in Nat, NEW g, NEW h,
           Folds(g, s, base, arg, m), Folds(h, t, base, arg, n),
           NEW k \in Nat, k <= m, k <= n, \A i \in 1..k : s[i] = t[i]
    PROVE  g[1..k] = h[1..k]
<1> DEFINE T == {j \in Nat : j <= k => g[1..j] = h[1..j]}
<1>1. 0 \in T
  <2>1. 1..0 = {} /\ {} \in SUBSET (1..m) /\ {} \in SUBSET (1..n)
    OBVIOUS
  <2> QED BY <2>1 DEF Folds
<1>2. ASSUME NEW j \in Nat, j \in T PROVE j + 1 \in T
  <2> SUFFICES ASSUME j + 1 <= k PROVE g[1..j+1] = h[1..j+1]
    OBVIOUS
  <2>4. g[1..j+1] = Step(g[1..j], s[j+1], arg)
    BY FoldsLast
  <2>5. h[1..j+1] = Step(h[1..j], t[j+1], arg)
    BY FoldsLast
  <2>6. g[1..j] = h[1..j] /\ s[j+1] = t[j+1]
    BY <1>2
  <2> QED BY <2>4, <2>5, <2>6
<1> HIDE DEF T
<1>3. Nat \subseteq T
  BY <1>1, <1>2, NatSetInduction
<1> QED BY <1>3 DEF T

\* One element more.
LEMMA FoldMore ==
    ASSUME NEW s, NEW t, NEW base, NEW arg, NEW n \in Nat,
           DOMAIN s = 1..n, DOMAIN t = 1..n+1, \A i \in 1..n : t[i] = s[i]
    PROVE  Folded(t, base, arg) = Step(Folded(s, base, arg), t[n+1], arg)
<1>1. PICK g : Folds(g, s, base, arg, n) /\ Folded(s, base, arg) = g[1..n]
  BY FoldedIs
<1>2. PICK h : Folds(h, t, base, arg, n+1) /\ Folded(t, base, arg) = h[1..n+1]
  BY FoldedIs
<1>3. g[1..n] = h[1..n]
  BY <1>1, <1>2, FoldsAgree
<1>6. h[1..n+1] = Step(h[1..n], t[n+1], arg)
  BY <1>2, FoldsLast
<1> QED BY <1>1, <1>2, <1>3, <1>6

\* An element appended is folded in last.
LEMMA FoldAppend ==
    ASSUME NEW S, NEW s \in Seq(S), NEW e \in S, NEW base, NEW arg
    PROVE  Folded(Append(s, e), base, arg) = Step(Folded(s, base, arg), e, arg)
<1> DEFINE n == Len(s)
<1> DEFINE t == Append(s, e)
<1>1. n \in Nat /\ DOMAIN s = 1..n /\ DOMAIN t = 1..n+1 /\ t[n+1] = e /\ \A i \in 1..n : t[i] = s[i]
  OBVIOUS
<1> HIDE DEF n, t
<1>2. Folded(t, base, arg) = Step(Folded(s, base, arg), t[n+1], arg)
  BY <1>1, FoldMore
<1> QED BY <1>1, <1>2 DEF t

\* A fold that has come k elements far takes the next one.
LEMMA FoldPrefix ==
    ASSUME NEW S, NEW s \in Seq(S), NEW k \in Nat, k + 1 <= Len(s), NEW base, NEW arg
    PROVE  Folded(SubSeq(s, 1, k + 1), base, arg) = Step(Folded(SubSeq(s, 1, k), base, arg), s[k + 1], arg)
<1> DEFINE r == SubSeq(s, 1, k)
<1> DEFINE t == SubSeq(s, 1, k + 1)
<1>1. DOMAIN r = 1..k /\ DOMAIN t = 1..k+1 /\ t[k+1] = s[k+1] /\ \A i \in 1..k : t[i] = r[i]
  OBVIOUS
<1> HIDE DEF r, t
<1>2. Folded(t, base, arg) = Step(Folded(r, base, arg), t[k+1], arg)
  BY <1>1, FoldMore
<1> QED BY <1>1, <1>2 DEF r, t
\* A fold that stops after k elements and goes on with the others is the whole.
LEMMA FoldOn ==
    ASSUME NEW S, NEW s \in Seq(S), NEW k \in Nat, k <= Len(s), NEW base, NEW arg
    PROVE  Folded(SubSeq(s, k + 1, Len(s)), Folded(SubSeq(s, 1, k), base, arg), arg)
           = Folded(SubSeq(s, 1, Len(s)), base, arg)
<1> DEFINE n == Len(s)
<1> DEFINE m == Folded(SubSeq(s, 1, k), base, arg)
<1> DEFINE u == SubSeq(s, k + 1, n)
<1> DEFINE t == SubSeq(s, 1, n)
<1> DEFINE r == SubSeq(s, 1, k)
<1>0. n \in Nat /\ n - k \in Nat /\ k <= n
  OBVIOUS
<1>1. /\ DOMAIN t = 1..n /\ \A i \in 1..n : t[i] = s[i]
      /\ DOMAIN r = 1..k /\ \A i \in 1..k : r[i] = s[i]
      /\ DOMAIN u = 1..(n - k) /\ \A i \in 1..(n - k) : u[i] = s[k + i]
  OBVIOUS
<1> HIDE DEF n, u, t, r
<1>2. PICK p : Folds(p, t, base, arg, n) /\ Folded(t, base, arg) = p[1..n]
  BY <1>0, <1>1, FoldedIs
<1>3. PICK q : Folds(q, u, m, arg, n - k) /\ Folded(u, m, arg) = q[1..(n - k)]
  BY <1>0, <1>1, FoldedIs
<1>4. p[1..k] = m
  <2>1. PICK g : Folds(g, r, base, arg, k) /\ Folded(r, base, arg) = g[1..k]
    BY <1>1, FoldedIs
  <2>2. \A i \in 1..k : t[i] = r[i]
    BY <1>0, <1>1
  <2>3. p[1..k] = g[1..k]
    BY <1>0, <1>2, <2>1, <2>2, FoldsAgree
  <2> QED BY <2>1, <2>3 DEF r
<1> HIDE DEF m
<1> DEFINE T == {j \in Nat : j <= n - k => q[1..j] = p[1..k+j]}
<1>5. 0 \in T
  <2>1. q[1..0] = m
    BY <1>3 DEF Folds
  <2> QED BY <1>4, <2>1
<1>6. ASSUME NEW j \in Nat, j \in T PROVE j + 1 \in T
  <2> SUFFICES ASSUME j + 1 <= n - k PROVE q[1..j+1] = p[1..k+(j+1)]
    OBVIOUS
  <2>0. /\ k + j \in Nat /\ (k + j) + 1 <= n /\ k + (j + 1) = (k + j) + 1
        /\ j + 1 \in 1..(n - k) /\ (k + j) + 1 \in 1..n
    BY <1>0
  <2>1. q[1..j+1] = Step(q[1..j], u[j+1], arg)
    BY <1>0, <1>3, <2>0, FoldsLast
  <2>2. p[1..(k+j)+1] = Step(p[1..k+j], t[(k+j)+1], arg)
    BY <1>0, <1>2, <2>0, FoldsLast
  <2>3. u[j+1] = t[(k+j)+1]
    <3>1. u[j+1] = s[k + (j+1)]
      BY <1>1, <2>0
    <3>2. t[(k+j)+1] = s[(k+j)+1]
      BY <1>1, <2>0
    <3> QED BY <2>0, <3>1, <3>2
  <2>4. q[1..j] = p[1..k+j]
    BY <1>0, <1>6
  <2> QED BY <2>0, <2>1, <2>2, <2>3, <2>4
<1> HIDE DEF T
<1>7. n - k \in T
  BY <1>0, <1>5, <1>6, NatSetInduction
<1>8. q[1..(n - k)] = p[1..n]
  <2>1. q[1..(n - k)] = p[1..k+(n - k)] /\ k + (n - k) = n
    BY <1>0, <1>7 DEF T
  <2> QED BY <2>1
<1> QED BY <1>2, <1>3, <1>8 DEF m, n, u, t
=============================================================================

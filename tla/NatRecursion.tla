---------------------------- MODULE NatRecursion ----------------------------
(***************************************************************************)
(* Induction over the natural numbers, with sets in the place of formulas  *)
(* and functions in the place of operators, and what follows from it for   *)
(* functions that are defined by recursion over an interval.               *)
(***************************************************************************)
EXTENDS Naturals, FiniteSets, FiniteSetTheorems, WellFoundedInduction, TLAPS

(***************************************************************************)
(* A nonempty set of naturals has a least member: the initial segments of  *)
(* the set are finite, so one of them is minimal with respect to           *)
(* inclusion, and it is the empty one.                                     *)
(***************************************************************************)
LEMMA LeastExists ==
  ASSUME NEW S, S \subseteq Nat, S # {}
  PROVE  \E x \in S : \A y \in S : x <= y
<1> DEFINE Below(x) == {y \in S : y < x}
           Segments == {Below(x) : x \in S}
<1>1. Segments \subseteq FiniteSubsetsOf(S)
  <2> SUFFICES ASSUME NEW x \in S PROVE Below(x) \in FiniteSubsetsOf(S)
    OBVIOUS
  <2>1. Below(x) \in SUBSET Nat /\ x \in Nat /\ \A y \in Below(x) : y <= x
    <3>1. Below(x) \subseteq S /\ x \in Nat
      OBVIOUS
    <3>2. \A y \in Nat : y < x => y <= x
      BY <3>1
    <3>3. \A y \in Below(x) : y \in Nat /\ y < x
      OBVIOUS
    <3> QED
      BY <3>1, <3>2, <3>3
  <2>2. IsFiniteSet(Below(x))
    BY <2>1, FS_BoundedSetOfNaturals
  <2> QED
    BY <2>2 DEF FiniteSubsetsOf
<1>2. PICK T \in Segments : \A U \in Segments : <<U, T>> \notin StrictSubsetOrdering(S)
  <2>1. Segments # {}
    OBVIOUS
  <2> QED
    BY <1>1, <2>1, FS_StrictSubsetOrderingWellFounded, WFMin
<1>3. PICK x \in S : T = Below(x)
  OBVIOUS
<1>4. \A y \in S : x <= y
  <2> SUFFICES ASSUME NEW y \in S, y < x PROVE FALSE
    OBVIOUS
  <2>1. Below(y) \subseteq Below(x) /\ y \in Below(x) /\ y \notin Below(y)
    <3>1. \A z \in S : z < y => z < x
      OBVIOUS
    <3>2. ~(y < y)
      OBVIOUS
    <3> QED
      BY <3>1, <3>2
  <2>2. <<Below(y), T>> \in StrictSubsetOrdering(S)
    BY <1>3, <2>1 DEF StrictSubsetOrdering
  <2> QED
    BY <1>2, <2>2
<1> QED
  BY <1>4

\* A set that has 0 and with each number the next one has them all.
LEMMA Induction ==
  ASSUME NEW S, 0 \in S, \A n \in Nat : n \in S => n + 1 \in S
  PROVE  Nat \subseteq S
<1> SUFFICES ASSUME Nat \ S # {} PROVE FALSE
  OBVIOUS
<1>1. PICK x \in Nat \ S : \A y \in Nat \ S : x <= y
  <2>1. Nat \ S \subseteq Nat
    OBVIOUS
  <2> QED
    BY <2>1, LeastExists
<1>2. x # 0 /\ x \in Nat
  OBVIOUS
<1>3. x - 1 \in Nat /\ ~(x <= x - 1) /\ (x - 1) + 1 = x
  BY <1>2
<1>4. x - 1 \in S
  BY <1>1, <1>3
<1> QED
  BY <1>3, <1>4

\* The same up to a bound.
LEMMA BoundedInduction ==
  ASSUME NEW N \in Nat, NEW S, 0 \in S,
         \A n \in 0 .. N - 1 : n \in S => n + 1 \in S
  PROVE  0 .. N \subseteq S
<1> DEFINE T == {n \in Nat : n <= N => n \in S}
<1>1. 0 \in T
  OBVIOUS
<1>2. ASSUME NEW n \in Nat, n \in T PROVE n + 1 \in T
  <2> SUFFICES ASSUME n + 1 <= N PROVE n + 1 \in S
    OBVIOUS
  <2>1. n \in 0 .. N - 1 /\ n <= N
    OBVIOUS
  <2> QED
    BY <1>2, <2>1
<1> HIDE DEF T
<1>3. Nat \subseteq T
  BY <1>1, <1>2, Induction
<1> QED
  BY <1>3 DEF T

\* A walk of N steps through N values meets one of them twice.
LEMMA PigeonHole ==
  ASSUME NEW N \in Nat, NEW T, IsFiniteSet(T), Cardinality(T) = N, NEW f \in [0 .. N -> T]
  PROVE  \E m, n \in 0 .. N : m # n /\ f[m] = f[n]
<1>1. IsFiniteSet(0 .. N) /\ Cardinality(0 .. N) = N + 1
  BY FS_Interval
<1>2. Cardinality(T) < Cardinality(0 .. N)
  BY <1>1
<1> QED
  BY <1>1, <1>2, FS_PigeonHole

-----------------------------------------------------------------------------
\* f[n] is what n steps lead to from base.
Iterates(f, N, S, base, step) ==
  /\ f \in [0 .. N -> S] /\ f[0] = base
  /\ \A n \in 0 .. N - 1 : f[n + 1] = step[f[n]]

\* There is such a function for every first value and every step.
LEMMA IterationExists ==
  ASSUME NEW N \in Nat, NEW S, NEW base \in S, NEW step \in [S -> S]
  PROVE  \E f : Iterates(f, N, S, base, step)
<1> DEFINE Reached == {n \in Nat : \E f : Iterates(f, n, S, base, step)}
<1>1. 0 \in Reached
  <2> DEFINE f == [k \in 0 .. 0 |-> base]
  <2>1. Iterates(f, 0, S, base, step)
    BY DEF Iterates
  <2> QED
    BY <2>1
<1>2. ASSUME NEW n \in Nat, n \in Reached PROVE n + 1 \in Reached
  <2>1. PICK f : Iterates(f, n, S, base, step)
    BY <1>2
  <2> USE <2>1 DEF Iterates
  <2> DEFINE g == [k \in 0 .. n + 1 |-> IF k = n + 1 THEN step[f[n]] ELSE f[k]]
  <2>2. \A k \in 0 .. n + 1 : k # n + 1 => k \in 0 .. n
    OBVIOUS
  <2>3. f[n] \in S /\ step[f[n]] \in S
    OBVIOUS
  <2>4. g \in [0 .. n + 1 -> S]
    BY <2>2, <2>3
  <2>5. g[0] = base
    BY <2>1
  <2>6. ASSUME NEW k \in 0 .. (n + 1) - 1 PROVE g[k + 1] = step[g[k]]
    <3>0. k \in 0 .. n /\ k \in 0 .. n + 1 /\ k # n + 1 /\ k + 1 \in 0 .. n + 1
      OBVIOUS
    <3>1. g[k] = f[k]
      BY <3>0
    <3>2. CASE k = n
      BY <3>0, <3>1, <3>2
    <3>3. CASE k # n
      <4>1. k \in 0 .. n - 1 /\ k + 1 # n + 1
        BY <3>3
      <4>2. g[k + 1] = f[k + 1]
        BY <3>0, <4>1
      <4> QED
        BY <2>1, <3>1, <4>1, <4>2
    <3> QED
      BY <3>2, <3>3
  <2> HIDE DEF g
  <2>7. Iterates(g, n + 1, S, base, step)
    BY <2>4, <2>5, <2>6
  <2> HIDE <2>1 DEF Iterates
  <2> QED
    BY <2>7
<1> HIDE DEF Reached
<1>3. Nat \subseteq Reached
  BY <1>1, <1>2, Induction
<1> QED
  BY <1>3 DEF Reached

\* The same with a step of its own for each n.
Unrolls(f, N, S, base, step) ==
  /\ f \in [0 .. N -> S] /\ f[0] = base
  /\ \A n \in 0 .. N - 1 : f[n + 1] = step[n][f[n]]

LEMMA UnrollingExists ==
  ASSUME NEW N \in Nat, NEW S, NEW base \in S, NEW step \in [0 .. N - 1 -> [S -> S]]
  PROVE  \E f : Unrolls(f, N, S, base, step)
<1> DEFINE T == (0 .. N) \X S
           next == [p \in T |-> IF p[1] < N THEN <<p[1] + 1, step[p[1]][p[2]]>> ELSE p]
<1>1. next \in [T -> T] /\ <<0, base>> \in T
  <2>1. ASSUME NEW p \in T PROVE next[p] \in T
    <3>1. PICK n \in 0 .. N, s \in S : p = <<n, s>>
      OBVIOUS
    <3>2. CASE n < N
      <4>1. n \in 0 .. N - 1 /\ n + 1 \in 0 .. N
        BY <3>2
      <4>2. step[n] \in [S -> S]
        BY <4>1
      <4>3. step[n][s] \in S
        BY <4>2
      <4> QED
        BY <3>1, <3>2, <4>1, <4>3
    <3>3. CASE ~(n < N)
      BY <3>1, <3>3
    <3> QED
      BY <3>2, <3>3
  <2> QED
    BY <2>1
<1>2. PICK g : Iterates(g, N, T, <<0, base>>, next)
  <2> HIDE DEF next, T
  <2> QED
    BY <1>1, IterationExists
<1>3. 0 .. N \subseteq {n \in 0 .. N : g[n][1] = n}
  <2> DEFINE I == {n \in 0 .. N : g[n][1] = n}
  <2>1. 0 \in I
    BY <1>2 DEF Iterates
  <2>2. ASSUME NEW n \in 0 .. N - 1, n \in I PROVE n + 1 \in I
    <3>1. n \in 0 .. N /\ n + 1 \in 0 .. N /\ g[n] \in T /\ g[n][1] = n
      BY <1>2, <2>2 DEF Iterates
    <3>2. g[n + 1] = next[g[n]]
      BY <1>2 DEF Iterates
    <3> QED
      BY <3>1, <3>2
  <2> HIDE DEF I
  <2>3. 0 .. N \subseteq I
    BY <2>1, <2>2, BoundedInduction
  <2> QED
    BY <2>3 DEF I
<1> DEFINE f == [n \in 0 .. N |-> g[n][2]]
<1>4. f \in [0 .. N -> S] /\ f[0] = base
  BY <1>2 DEF Iterates
<1>5. ASSUME NEW n \in 0 .. N - 1 PROVE f[n + 1] = step[n][f[n]]
  <2>1. n \in 0 .. N /\ n + 1 \in 0 .. N /\ g[n] \in T /\ g[n][1] = n
    BY <1>2, <1>3 DEF Iterates
  <2>2. g[n + 1] = next[g[n]]
    BY <1>2 DEF Iterates
  <2> QED
    BY <2>1, <2>2
<1> HIDE DEF f
<1>6. Unrolls(f, N, S, base, step)
  BY <1>4, <1>5 DEF Unrolls
<1> QED
  BY <1>6
=============================================================================

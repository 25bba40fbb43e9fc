------------------------------- MODULE Counting -------------------------------
(* Lemmas about numbers, and induction over them for membership in a set. *)
EXTENDS Integers, Sequences, FiniteSetTheorems, WellFoundedInduction, TLAPS

\* Of numbers the least: the shortest interval that ends in one of them.
LEMMA LeastNumber ==
  ASSUME NEW S \in SUBSET Nat, S # {}
  PROVE  \E n \in S : \A m \in S : n <= m
<1> DEFINE Intervals == {0..n : n \in S}
<1>1. Intervals \subseteq FiniteSubsetsOf(Nat)
  <2>1. \A n \in Nat : IsFiniteSet(0..n) /\ 0..n \in SUBSET Nat
    BY FS_Interval
  <2> QED BY <2>1 DEF FiniteSubsetsOf
<1>2. Intervals # {}
  OBVIOUS
<1>3. \E u \in Intervals : \A v \in Intervals : ~ (<<v, u>> \in StrictSubsetOrdering(Nat))
  <2> HIDE DEF Intervals
  <2> QED BY <1>1, <1>2, FS_StrictSubsetOrderingWellFounded, WFMin
<1>4. PICK n \in S : \A m \in S : ~ (<<0..m, 0..n>> \in StrictSubsetOrdering(Nat))
  BY <1>3
<1>5. ASSUME NEW m \in S, m < n PROVE FALSE
  <2>1. 0..m \in SUBSET Nat /\ 0..n \in SUBSET Nat
    BY <1>5
  <2>2. 0..m \subseteq 0..n /\ n \in 0..n /\ n \notin 0..m
    BY <1>5
  <2> QED BY <1>4, <2>1, <2>2 DEF StrictSubsetOrdering
<1> QED BY <1>4, <1>5

\* Of numbers up to n the greatest.
LEMMA GreatestNumber ==
  ASSUME NEW n \in Nat, NEW S \in SUBSET (1..n), S # {}
  PROVE  \E m \in S : \A k \in S : k <= m
<1> DEFINE T == {n - k : k \in S}
<1>1. T \in SUBSET Nat /\ T # {}
  <2>1. \A k \in S : n - k \in Nat
    OBVIOUS
  <2> QED BY <2>1
<1>2. PICK t \in T : \A u \in T : t <= u
  <2> HIDE DEF T
  <2> QED BY <1>1, LeastNumber
<1>3. PICK m \in S : t = n - m
  OBVIOUS
<1>4. \A k \in S : k <= m
  <2> SUFFICES ASSUME NEW k \in S PROVE k <= m
    OBVIOUS
  <2>1. n - m <= n - k
    BY <1>2, <1>3
  <2> QED BY <2>1
<1> QED BY <1>4

\* Induction up to a number, for membership in a set.
LEMMA UpTo ==
  ASSUME NEW S, NEW n \in Nat, 0 \in S,
         \A k \in 1..n : k - 1 \in S => k \in S
  PROVE  \A k \in 0..n : k \in S
<1> SUFFICES ASSUME (0..n) \ S # {} PROVE FALSE
  OBVIOUS
<1>1. PICK m \in (0..n) \ S : \A k \in (0..n) \ S : m <= k
  <2>1. (0..n) \ S \in SUBSET Nat
    OBVIOUS
  <2> QED BY <2>1, LeastNumber
<1>2. m \in 1..n /\ m - 1 \in 0..n /\ ~ (m <= m - 1)
  BY <1>1
<1>3. m - 1 \in S
  BY <1>1, <1>2
<1> QED BY <1>1, <1>2, <1>3

\* There is a function that begins with start and goes on by next.
Iterates(f, n, start, next) == f[0] = start /\ \A k \in 1..n : f[k] = next[k][f[k - 1]]

\* A start and what follows each value give a function.
LEMMA Iteration ==
  ASSUME NEW D, NEW n \in Nat, NEW start \in D, NEW next \in [1..n -> [D -> D]]
  PROVE  \E f \in [0..n -> D] : Iterates(f, n, start, next)
<1> DEFINE Step(f, k) == IF k = 0 THEN start ELSE next[k][f[k - 1]]
           S == {m \in 0..n : \E f \in [0..m -> D] : \A k \in 0..m : f[k] = Step(f, k)}
<1>1. 0 \in S
  <2> DEFINE f == [k \in 0..0 |-> start]
  <2>1. f \in [0..0 -> D] /\ f[0] = start /\ 0 \in 0..n /\ \A k \in 0..0 : k = 0
    OBVIOUS
  <2> HIDE DEF f
  <2>2. \A k \in 0..0 : f[k] = Step(f, k)
    BY <2>1
  <2> QED BY <2>1, <2>2
<1>2. ASSUME NEW m \in 1..n, m - 1 \in S PROVE m \in S
  <2>1. PICK f \in [0..(m - 1) -> D] : \A k \in 0..(m - 1) : f[k] = Step(f, k)
    BY <1>2
  <2> DEFINE g == [k \in 0..m |-> IF k = m THEN next[m][f[m - 1]] ELSE f[k]]
  <2>2. m - 1 \in 0..(m - 1) /\ m # 0 /\ m - 1 # m /\ m - 1 \in 0..m /\ m \in 0..m
    OBVIOUS
  <2>3. next[m][f[m - 1]] \in D
    BY <2>2
  <2>4. g \in [0..m -> D]
    <3>1. \A k \in 0..m : k = m \/ k \in 0..(m - 1)
      OBVIOUS
    <3> QED BY <2>1, <2>3, <3>1
  <2>5. /\ g[m] = next[m][f[m - 1]]
        /\ \A k \in 0..(m - 1) : g[k] = f[k]
    BY <2>2
  <2> HIDE DEF g
  <2>6. ASSUME NEW k \in 0..m PROVE g[k] = Step(g, k)
    <3>1. CASE k = m
      BY <2>2, <2>5, <3>1
    <3>2. CASE k = 0 /\ k # m
      BY <2>1, <2>5, <3>2
    <3>3. CASE k \in 1..(m - 1)
      <4>1. k - 1 \in 0..(m - 1) /\ k \in 0..(m - 1) /\ k # 0
        BY <3>3
      <4> QED BY <2>1, <2>5, <4>1
    <3>4. k = m \/ (k = 0 /\ k # m) \/ k \in 1..(m - 1)
      OBVIOUS
    <3> QED BY <3>1, <3>2, <3>3, <3>4
  <2> QED BY <2>4, <2>6
<1>3. n \in S
  <2> HIDE DEF S
  <2>1. \A k \in 0..n : k \in S
    BY <1>1, <1>2, UpTo
  <2> QED BY <2>1
<1>4. PICK f \in [0..n -> D] : \A k \in 0..n : f[k] = Step(f, k)
  BY <1>3
<1> QED BY <1>4 DEF Iterates

=============================================================================

------------------------------ MODULE Induction ------------------------------
(***************************************************************************)
(* Induction over the natural numbers, stated for sets: the least-number   *)
(* principle and the induction rule, both from the well-founded order of   *)
(* the naturals.  The proofs about frames, interceptors and indexes use    *)
(* them with the set of the numbers that satisfy what they show.           *)
(***************************************************************************)
EXTENDS Integers, TLAPS, WellFoundedInduction

\* A set of natural numbers that is not empty has a least element.
LEMMA LeastNumber ==
  ASSUME NEW T \in SUBSET Nat, T # {}
  PROVE  \E x \in T : \A y \in T : x <= y
<1> DEFINE R == {p \in Nat \X Nat : p[1] < p[2]}
<1>1. R = OpToRel(<, Nat)
  BY DEF OpToRel
<1>2. IsWellFoundedOn(R, Nat)
  BY <1>1, NatLessThanWellFounded
<1>3. \A x, y \in Nat : y < x => <<y, x>> \in R
  OBVIOUS
<1> HIDE DEF R
<1>4. PICK x \in T : \A y \in T : ~(<<y, x>> \in R)
  BY <1>2, WFMin
<1>5. ASSUME NEW y \in T
      PROVE  x <= y
  <2>1. x \in Nat /\ y \in Nat
    OBVIOUS
  <2>2. ~(y < x)
    BY <1>3, <1>4, <2>1
  <2> QED
    BY <2>1, <2>2
<1> QED
  BY <1>5

\* A set that has 0, and with every natural number the next, has them all.
LEMMA InductionRule ==
  ASSUME NEW T, 0 \in T, \A n \in Nat : n \in T => n + 1 \in T
  PROVE  \A n \in Nat : n \in T
<1> SUFFICES ASSUME Nat \ T # {} PROVE FALSE
  OBVIOUS
<1>1. PICK x \in Nat \ T : \A y \in Nat \ T : x <= y
  BY LeastNumber
<1>2. x - 1 \in Nat /\ x - 1 \in T
  BY <1>1
<1> QED
  BY <1>1, <1>2

\* A set of natural numbers that is not empty and has a bound has a greatest element.
LEMMA GreatestNumber ==
  ASSUME NEW n \in Nat, NEW T \in SUBSET (0..n), T # {}
  PROVE  \E x \in T : \A y \in T : x >= y
<1> DEFINE D == {d \in Nat : n - d \in T}
<1>1. D \in SUBSET Nat /\ D # {}
  <2>1. PICK x \in T : TRUE
    OBVIOUS
  <2>2. n - x \in Nat /\ n - (n - x) = x
    BY <2>1
  <2> QED
    BY <2>1, <2>2
<1>2. PICK d \in D : \A e \in D : d <= e
  BY <1>1, LeastNumber
<1>3. n - d \in T /\ d \in Nat
  BY <1>2
<1>4. ASSUME NEW y \in T
      PROVE  n - d >= y
  <2>1. y \in Nat /\ n - y \in Nat /\ n - (n - y) = y
    OBVIOUS
  <2>2. n - y \in D
    BY <2>1
  <2>3. d <= n - y
    BY <1>2, <2>2
  <2> QED
    BY <1>3, <2>1, <2>3
<1> QED
  BY <1>3, <1>4

\* The runs of a loop that takes n turns from a: each state comes from the one
\* before by the step of its turn.
LoopRuns(n, S, a, step) ==
  {e \in [0..n -> S] : e[0] = a /\ \A i \in 1..n : e[i] = step[i][e[i - 1]]}

\* Every loop has a run.
LEMMA LoopStates ==
  ASSUME NEW n \in Nat, NEW S, NEW a \in S, NEW step \in [1..n -> [S -> S]]
  PROVE  LoopRuns(n, S, a, step) # {}
<1> DEFINE Runs(e, k) == e[0] = a /\ \A i \in 1..k : e[i] = step[i][e[i - 1]]
           T == {k \in Nat : k <= n => \E e \in [0..k -> S] : Runs(e, k)}
<1>1. 0 \in T
  <2>1. [i \in 0..0 |-> a] \in [0..0 -> S] /\ Runs([i \in 0..0 |-> a], 0)
    OBVIOUS
  <2> QED
    BY <2>1
<1>2. ASSUME NEW k \in Nat, k \in T
      PROVE  k + 1 \in T
  <2> SUFFICES ASSUME k + 1 <= n
               PROVE  \E e \in [0..(k + 1) -> S] : Runs(e, k + 1)
    OBVIOUS
  <2>1. PICK e \in [0..k -> S] : Runs(e, k)
    BY <1>2
  <2> DEFINE last == step[k + 1][e[k]]
             d == [i \in 0..(k + 1) |-> IF i = k + 1 THEN last ELSE e[i]]
  <2>2. last \in S
    BY <2>1
  <2>3. d \in [0..(k + 1) -> S]
    <3> HIDE DEF last
    <3> QED
      BY <2>2
  <2>4. d[0] = a
    BY <2>1
  <2>5. ASSUME NEW i \in 1..(k + 1)
        PROVE  d[i] = step[i][d[i - 1]]
    <3>1. CASE i \in 1..k
      BY <2>1, <3>1
    <3>2. CASE i = k + 1
      BY <3>2
    <3> QED
      BY <3>1, <3>2
  <2> QED
    BY <2>3, <2>4, <2>5
<1>3. n \in T
  <2> HIDE DEF T
  <2> QED
    BY <1>1, <1>2, InductionRule
<1>4. \E e \in [0..n -> S] : Runs(e, n)
  <2> HIDE DEF Runs
  <2> QED
    BY <1>3
<1> QED
  BY <1>4 DEF LoopRuns

\* The running totals of natural numbers exist.
LEMMA RunningTotals ==
  ASSUME NEW n \in Nat, NEW f, \A i \in 1..n : f[i] \in Nat
  PROVE  \E e \in [0..n -> Nat] : e[0] = 0 /\ \A i \in 1..n : e[i] = e[i - 1] + f[i]
<1> DEFINE step == [i \in 1..n |-> [s \in Nat |-> s + f[i]]]
<1>1. \A i \in 1..n : \A s \in Nat : step[i][s] = s + f[i]
  OBVIOUS
<1>2. step \in [1..n -> [Nat -> Nat]]
  OBVIOUS
<1> HIDE DEF step
<1>3. PICK e \in LoopRuns(n, Nat, 0, step) : TRUE
  <2>1. 0 \in Nat
    OBVIOUS
  <2>2. LoopRuns(n, Nat, 0, step) # {}
    BY <1>2, <2>1, LoopStates, Zenon
  <2> QED
    BY <2>2
<1>4. \A i \in 1..n : e[i] = e[i - 1] + f[i]
  <2>1. \A i \in 1..n : e[i - 1] \in Nat
    BY <1>3 DEF LoopRuns
  <2> QED
    BY <1>1, <1>3, <2>1 DEF LoopRuns
<1> QED
  BY <1>3, <1>4 DEF LoopRuns
=============================================================================

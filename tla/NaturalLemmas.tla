--------------------------- MODULE NaturalLemmas ---------------------------
(***************************************************************************)
(* Least and greatest elements of sets of naturals, and what follows from  *)
(* them for loops: a recursive function that takes one step per turn       *)
(* exists, so that its defining equation may be used.                      *)
(***************************************************************************)
EXTENDS Integers, WellFoundedInduction, TLAPS

\* Every non-empty set of naturals has a least element.
LEMMA LeastNatural ==
    ASSUME NEW T, T \subseteq Nat, T # {}
    PROVE  \E n \in T : \A m \in T : n <= m
<1> DEFINE R == {ss \in Nat \X Nat : ss[1] < ss[2]}
<1>1. IsWellFoundedOn(R, Nat)
  BY NatLessThanWellFounded, Zenon DEF OpToRel
<1>2. PICK n \in T : \A m \in T : ~ (<<m, n>> \in R)
  <2> HIDE DEF R
  <2> QED
    BY <1>1, WFMin, Zenon
<1>3. \A m \in T : n <= m
  <2> SUFFICES ASSUME NEW m \in T
               PROVE  n <= m
    OBVIOUS
  <2>1. m \in Nat /\ n \in Nat
    OBVIOUS
  <2>2. ~ (m < n)
    BY <1>2, <2>1
  <2> QED
    BY <2>1, <2>2
<1> QED
  BY <1>3

\* Every non-empty set of naturals that has a bound has a greatest element.
LEMMA GreatestNatural ==
    ASSUME NEW n \in Nat, NEW S, S \subseteq Nat, S # {}, \A i \in S : i <= n
    PROVE  \E i \in S : \A j \in S : j <= i
<1> DEFINE T == {n - i : i \in S}
<1>0. \A i \in S : i \in Nat /\ n - i \in Nat
  OBVIOUS
<1>1. T \subseteq Nat /\ T # {}
  BY <1>0
<1>2. PICK m \in T : \A k \in T : m <= k
  <2> HIDE DEF T
  <2> QED
    BY <1>1, LeastNatural
<1>3. PICK i \in S : m = n - i
  BY <1>2
<1>4. \A j \in S : j <= i
  <2> SUFFICES ASSUME NEW j \in S
               PROVE  j <= i
    OBVIOUS
  <2>1. n - i <= n - j
    BY <1>2, <1>3
  <2> QED
    BY <1>0, <2>1
<1> QED
  BY <1>4

\* Induction up to n, for a set in place of a predicate.
LEMMA UpTo ==
    ASSUME NEW n \in Nat, NEW T, 0 \in T, \A i \in 1..n : i - 1 \in T => i \in T
    PROVE  0..n \subseteq T
<1> DEFINE B == {i \in 0..n : i \notin T}
<1> SUFFICES ASSUME B # {}
             PROVE  FALSE
  OBVIOUS
<1>1. PICK m \in B : \A k \in B : m <= k
  <2>1. B \subseteq Nat
    OBVIOUS
  <2> HIDE DEF B
  <2> QED
    BY <2>1, LeastNatural
<1>2. m \in 1..n /\ m - 1 \in 0..n /\ ~ (m <= m - 1)
  BY <1>1
<1>3. m - 1 \in T
  BY <1>1, <1>2
<1> QED
  BY <1>1, <1>2, <1>3

\* A loop of n turns over values of S: turn i is F[i], and q[i] what it leaves.
LoopRun(q, n, S, p, F) ==
    /\ q \in [0..n -> S] /\ q[0] = p
    /\ \A i \in 1..n : q[i] = F[i][q[i - 1]]

\* Every such loop has a run.
LEMMA LoopRuns ==
    ASSUME NEW n \in Nat, NEW S, NEW p \in S, NEW F \in [1..n -> [S -> S]]
    PROVE  \E q : LoopRun(q, n, S, p, F)
<1> DEFINE Run(m, q) == /\ q \in [0..m -> S] /\ q[0] = p
                        /\ \A i \in 1..m : q[i] = F[i][q[i - 1]]
           T == {m \in 0..n : \A q : ~ Run(m, q)}
<1>1. SUFFICES ASSUME \A q : ~ Run(n, q)
               PROVE  FALSE
  BY DEF LoopRun
<1>2. PICK m \in T : \A k \in T : m <= k
  <2>1. T \subseteq Nat /\ n \in T
    BY <1>1
  <2> HIDE DEF T
  <2> QED
    BY <2>1, LeastNatural
<1>3. m \in 0..n /\ \A q : ~ Run(m, q)
  BY <1>2
<1>4. CASE m = 0
  <2>1. Run(0, [i \in 0..0 |-> p])
    OBVIOUS
  <2> QED
    BY <1>3, <1>4, <2>1
<1>5. CASE m # 0
  <2>1. m - 1 \in 0..n /\ ~ (m <= m - 1) /\ m \in 1..n
    BY <1>3, <1>5
  <2>2. m - 1 \notin T
    BY <1>2, <2>1
  <2>3. PICK q : Run(m - 1, q)
    BY <2>1, <2>2
  <2> DEFINE r == [i \in 0..m |-> IF i = m THEN F[m][q[m - 1]] ELSE q[i]]
  <2>4. m - 1 \in 0..(m - 1) /\ q[m - 1] \in S /\ F[m] \in [S -> S]
    BY <2>1, <2>3
  <2>5. r \in [0..m -> S]
    <3> SUFFICES ASSUME NEW i \in 0..m
                 PROVE  r[i] \in S
      OBVIOUS
    <3>1. CASE i = m
      BY <2>4, <3>1
    <3>2. CASE i # m
      <4>1. i \in 0..(m - 1)
        BY <2>1, <3>2
      <4> QED
        BY <2>3, <3>2, <4>1
    <3> QED
      BY <3>1, <3>2
  <2>6. r[0] = p
    <3>1. 0 \in 0..m /\ 0 # m
      BY <2>1
    <3> QED
      BY <2>3, <3>1, Zenon
  <2>7. ASSUME NEW i \in 1..m
        PROVE  r[i] = F[i][r[i - 1]]
    <3>1. i - 1 \in 0..m /\ i - 1 # m /\ i \in 0..m
      BY <2>1
    <3>2. r[i - 1] = q[i - 1]
      BY <3>1
    <3>3. CASE i = m
      BY <3>1, <3>2, <3>3
    <3>4. CASE i # m
      <4>1. i \in 1..(m - 1) /\ r[i] = q[i]
        BY <2>1, <3>1, <3>4
      <4> QED
        BY <2>3, <3>2, <4>1
    <3> QED
      BY <3>3, <3>4
  <2>8. Run(m, r)
    <3> HIDE DEF r
    <3> QED
      BY <2>5, <2>6, <2>7
  <2> QED
    BY <1>3, <2>8
<1> QED
  BY <1>4, <1>5

=============================================================================

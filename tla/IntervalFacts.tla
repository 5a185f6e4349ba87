--------------------------- MODULE IntervalFacts ---------------------------
(***************************************************************************)
(* A non-empty set of indices 1..n has a smallest and a largest element:   *)
(* what *begin() and *--end() of the std::set<int64> of key pool indices   *)
(* rely on.  From it comes induction over the turns of a loop.             *)
(***************************************************************************)
EXTENDS Integers, WellFoundedInduction, TLAPS

\* setKeyPool.begin(): a non-empty set of naturals has a smallest element.
LEMMA MinExists ==
    ASSUME NEW S \in SUBSET Nat, S # {}
    PROVE  \E m \in S : \A i \in S : m <= i
<1> DEFINE R == OpToRel(<, Nat)
<1>1. IsWellFoundedOn(R, Nat)
  BY NatLessThanWellFounded
<1>2. \A i, j \in Nat : <<i, j>> \in R <=> i < j
  BY DEF OpToRel
<1> HIDE DEF R
<1>3. PICK m \in S : \A i \in S : ~ (<<i, m>> \in R)
  BY <1>1, WFMin
<1>4. \A i \in S : ~ (i < m)
  <2> TAKE i \in S
  <2>1. ~ (<<i, m>> \in R)
    BY <1>3
  <2>2. i \in Nat /\ m \in Nat
    OBVIOUS
  <2> QED
    BY <1>2, <2>1, <2>2
<1>5. \A i \in S : m <= i
  <2> TAKE i \in S
  <2>1. i \in Nat /\ m \in Nat /\ ~ (i < m)
    BY <1>4
  <2> QED
    BY <2>1
<1> QED
  BY <1>5

\* --setKeyPool.end(): a non-empty set of indices has a largest element.
LEMMA MaxExists ==
    ASSUME NEW n \in Nat, NEW S \in SUBSET (1..n), S # {}
    PROVE  \E m \in S : \A i \in S : i <= m
<1> DEFINE T == {n - i : i \in S}
<1>1. T \in SUBSET Nat
  <2> SUFFICES ASSUME NEW i \in S PROVE n - i \in Nat
    OBVIOUS
  <2>1. i \in 1..n
    OBVIOUS
  <2> QED
    BY <2>1
<1>6. T # {}
  OBVIOUS
<1>2. PICK t \in T : \A u \in T : t <= u
  BY <1>1, <1>6, MinExists
<1>3. PICK m \in S : t = n - m
  BY <1>2
<1>4. \A i \in S : n - m <= n - i
  BY <1>2, <1>3
<1>5. \A i \in S : i <= m
  <2> TAKE i \in S
  <2>1. i \in 1..n /\ m \in 1..n /\ n - m <= n - i
    BY <1>4
  <2> QED
    BY <2>1
<1> QED
  BY <1>5

\* What holds of 0, and of an index when it does of the one before, holds of all.
LEMMA Induct ==
    ASSUME NEW n \in Nat, NEW S, 0 \in S, \A i \in 1..n : i - 1 \in S => i \in S
    PROVE  \A i \in 0..n : i \in S
<1> DEFINE B == (0..n) \ S
<1> SUFFICES ASSUME B # {} PROVE FALSE
  OBVIOUS
<1>1. PICK m \in B : \A i \in B : m <= i
  <2>1. B \in SUBSET Nat
    OBVIOUS
  <2> QED
    BY <2>1, MinExists
<1>2. m \in 1..n /\ m - 1 \in 0..n
  OBVIOUS
<1>3. m - 1 \in S
  BY <1>1, <1>2
<1> QED
  BY <1>2, <1>3
=============================================================================

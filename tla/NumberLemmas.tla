---------------------------- MODULE NumberLemmas ----------------------------
(***************************************************************************)
(* Facts about natural numbers that the proofs of several modules need:    *)
(* the least of a set of them, the greatest of those up to a bound, and    *)
(* induction, for a property given as the set of the numbers that have it. *)
(***************************************************************************)
EXTENDS Naturals, FiniteSetsExt, WellFoundedInduction, TLAPS

\* A set of natural numbers has a least one.
LEMMA Least ==
  ASSUME NEW S \in SUBSET Nat, S # {}
  PROVE  \E n \in S : \A m \in S : n <= m
  <1>1. PICK n \in S : \A m \in S : <<m, n>> \notin OpToRel(<, Nat)
    BY NatLessThanWellFounded, WFMin
  <1>2. \A m \in S : ~(m < n)
    BY <1>1 DEF OpToRel
  <1>3. QED
    BY <1>2

\* What holds of 0, and of n + 1 when it holds of n, holds of every number.
LEMMA InductionOnNat ==
  ASSUME NEW T, 0 \in T, \A n \in Nat : n \in T => n + 1 \in T
  PROVE  Nat \subseteq T
  <1> SUFFICES ASSUME Nat \ T # {} PROVE FALSE
    OBVIOUS
  <1>1. PICK x \in Nat \ T : \A y \in Nat \ T : x <= y
    <2> DEFINE Rest == Nat \ T
    <2>1. Rest \in SUBSET Nat
      OBVIOUS
    <2> HIDE DEF Rest
    <2>2. Rest # {} => \E x \in Rest : \A y \in Rest : x <= y
      BY <2>1, Least
    <2> QED BY <2>2 DEF Rest
  <1>2. x # 0 /\ x - 1 \in Nat /\ (x - 1) + 1 = x /\ ~(x <= x - 1)
    BY <1>1
  <1>3. x - 1 \in T
    BY <1>1, <1>2
  <1> QED BY <1>1, <1>2, <1>3

\* The greatest of the places of a list.
LEMMA MaxIs ==
  ASSUME NEW n \in Nat, NEW s \in SUBSET (1..n), s # {}
  PROVE  Max(s) \in s /\ \A i \in s : i <= Max(s)
  <1> DEFINE Above == {m \in Nat : \A i \in s : i <= m}
  <1>1. n \in Above
    OBVIOUS
  <1>2. Above \in SUBSET Nat /\ Above # {}
    BY <1>1
  <1> HIDE DEF Above
  <1>3. PICK m \in Above : \A x \in Above : m <= x
    BY <1>2, Least
  <1>4. m \in Nat /\ \A i \in s : i <= m /\ i \in Nat /\ i >= 1
    BY <1>3 DEF Above
  <1>5. m \in s
    <2> SUFFICES ASSUME m \notin s PROVE FALSE
      OBVIOUS
    <2>1. \A i \in s : i <= m - 1
      BY <1>4
    <2>2. m - 1 \in Nat
      <3>1. PICK i : i \in s
        OBVIOUS
      <3>2. i \in Nat /\ i >= 1 /\ i <= m /\ m \in Nat
        BY <1>4, <3>1
      <3> QED BY <3>2
    <2>3. m - 1 \in Above
      BY <2>1, <2>2 DEF Above
    <2>4. ~(m <= m - 1)
      BY <1>4
    <2> QED BY <1>3, <2>3, <2>4
  <1>6. \A i \in s : m >= i
    BY <1>4
  <1> QED BY <1>4, <1>5, <1>6 DEF Max
=============================================================================

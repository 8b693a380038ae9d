-------------------------------- MODULE Induction --------------------------------
(***************************************************************************)
(* Induction over an interval of the naturals, as a fact about sets: what  *)
(* loops over an array need.                                               *)
(***************************************************************************)
EXTENDS Integers, WellFoundedInduction, NaturalsInduction, TLAPS

\* A set of naturals that is not empty has a least element.
LEMMA Least ==
  ASSUME NEW T, T \subseteq Nat, T # {}
  PROVE  \E x \in T : \A y \in T : x <= y
<1>1. PICK x \in T : \A y \in T : ~ (<<y, x>> \in OpToRel(<,Nat))
  BY WFMin, NatLessThanWellFounded
<1>2. \A y \in T : ~ (y < x) BY <1>1 DEF OpToRel
<1> QED BY <1>2

\* So what holds 0 and, with each number up to n, the next, holds them all.
LEMMA Inductive ==
  ASSUME NEW n \in Nat, NEW T, 0 \in T, \A k \in 1 .. n : k - 1 \in T => k \in T
  PROVE  0 .. n \subseteq T
<1> DEFINE Bad == {k \in 0 .. n : k \notin T}
<1>1. SUFFICES ASSUME Bad # {} PROVE FALSE
  OBVIOUS
<1>2. PICK x \in Bad : \A y \in Bad : x <= y
  <2>1. Bad \subseteq Nat OBVIOUS
  <2> QED BY <1>1, <2>1, Least
<1>3. x # 0 /\ x - 1 \notin Bad
  BY <1>2
<1> QED BY <1>2, <1>3

=============================================================================

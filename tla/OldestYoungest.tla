--------------------------- MODULE OldestYoungest ---------------------------
(***************************************************************************)
(* The oldest and the youngest of a set of sequence numbers: facts the     *)
(* proofs of several modules rest on.                                      *)
(***************************************************************************)
EXTENDS Integers, FiniteSetsExt, WellFoundedInduction, TLAPS

\* A non-empty set of natural numbers has a least element (the oldest
\* instruction of a set is well defined).
LEMMA MinProperty ==
    ASSUME NEW S \in SUBSET Nat, S # {}
    PROVE  Min(S) \in S /\ \A y \in S : Min(S) <= y
<1> DEFINE R == OpToRel(<, Nat)
<1>1. IsWellFoundedOn(R, Nat)
  BY NatLessThanWellFounded
<1>2. \A a, b \in Nat : a < b => <<a, b>> \in R
  BY DEF OpToRel
<1> HIDE DEF R
<1>3. \E x \in S : \A y \in S : ~(<<y, x>> \in R)
  BY <1>1, WFMin
<1>4. PICK x \in S : \A y \in S : ~(y < x)
  BY <1>2, <1>3
<1>5. \A y \in S : x <= y
  BY <1>4
<1> QED BY <1>5 DEF Min

\* A non-empty set of numbers up to n has a greatest element (the youngest
\* instruction of a set is well defined).
LEMMA MaxProperty ==
    ASSUME NEW n \in Nat, NEW S \in SUBSET (0..n), S # {}
    PROVE  Max(S) \in S /\ \A y \in S : y <= Max(S)
<1> DEFINE D == {d \in Nat : \E x \in S : x + d = n}
<1>1. D \in SUBSET Nat /\ D # {}
  <2>1. PICK x \in S : TRUE
    OBVIOUS
  <2>2. n - x \in Nat /\ x + (n - x) = n
    BY <2>1
  <2>3. n - x \in D
    BY <2>1, <2>2
  <2> QED BY <2>3
<1>2. Min(D) \in D /\ \A d \in D : Min(D) <= d
  <2> HIDE DEF D
  <2> QED BY <1>1, MinProperty
<1>3. PICK x \in S : x + Min(D) = n
  BY <1>2
<1>4. \A y \in S : y <= x
  <2> TAKE y \in S
  <2>1. n - y \in D
    OBVIOUS
  <2>2. Min(D) <= n - y
    BY <1>2, <2>1
  <2>3. Min(D) \in Nat
    BY <1>2
  <2> HIDE DEF D
  <2> QED BY <1>3, <2>2, <2>3
<1> QED BY <1>3, <1>4 DEF Max
=============================================================================

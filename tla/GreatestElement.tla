--------------------------- MODULE GreatestElement ---------------------------
(***************************************************************************)
(* The one fact of arithmetic that the tables' SELECT MAX(height) and       *)
(* ORDER BY ... DESC LIMIT 1 rest on.                                      *)
(***************************************************************************)
EXTENDS Integers, WellFoundedInduction, TLAPS

\* A set of naturals with an upper bound has a greatest element.
LEMMA GreatestExists ==
    ASSUME NEW S, S \subseteq Nat, S # {}, NEW n \in Nat, \A s \in S : s <= n
    PROVE  \E m \in S : \A g \in S : g <= m
<1> DEFINE R == {ss \in Nat \X Nat : ss[1] < ss[2]}
           T == {n - s : s \in S}
<1>1. IsWellFoundedOn(R, Nat)
  BY NatLessThanWellFounded DEF OpToRel
<1>2. T \subseteq Nat /\ T # {}
  <2>1. \A s \in S : n - s \in Nat
    OBVIOUS
  <2>2. QED BY <2>1
<1> HIDE DEF R, T
<1>3. PICK x \in T : \A y \in T : ~ (<<y, x>> \in R)
  BY <1>1, <1>2, WFMin
<1>4. PICK m \in S : x = n - m
  BY DEF T
<1>5. \A g \in S : g <= m
  <2> TAKE g \in S
  <2>1. n - g \in T /\ n - g \in Nat /\ x \in Nat
    BY <1>2 DEF T
  <2>2. ~ (n - g < x)
    BY <1>3, <2>1 DEF R
  <2>3. QED BY <1>4, <2>2
<1>6. QED BY <1>5
==============================================================================

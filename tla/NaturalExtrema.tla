--------------------------- MODULE NaturalExtrema ---------------------------
(* Least and greatest elements of sets of natural numbers, which CHOOSE finds. *)
EXTENDS Integers, WellFoundedInduction, TLAPS

\* Every set of natural numbers that is not empty has a least element.
LEMMA LeastElement ==
    ASSUME NEW S, S \subseteq Nat, S # {}
    PROVE  \E u \in S : \A v \in S : u <= v
<1>1. PICK u \in S : \A v \in S : <<v, u>> \notin OpToRel(<, Nat)
  BY NatLessThanWellFounded, WFMin
<1>2. \A v \in S : v < u => <<v, u>> \in OpToRel(<, Nat)
  BY DEF OpToRel
<1>3. \A v \in S : ~(v < u)
  BY <1>1, <1>2, Zenon
<1>4. \A v \in S : u <= v
  BY <1>3, S \subseteq Nat, SMT
<1> QED BY <1>4

\* Every bounded one has a greatest element.
LEMMA GreatestElement ==
    ASSUME NEW S, S \subseteq Nat, S # {}, NEW n \in Nat, \A s \in S : s <= n
    PROVE  \E u \in S : \A v \in S : v <= u
<1> DEFINE gaps == {n - s : s \in S}
<1>1. gaps \subseteq Nat /\ gaps # {}
  <2>1. \A s \in S : n - s \in Nat
    OBVIOUS
  <2>2. PICK s \in S : TRUE
    OBVIOUS
  <2>3. n - s \in gaps
    OBVIOUS
  <2> QED BY <2>1, <2>3
<1>2. PICK g \in gaps : \A k \in gaps : g <= k
  BY <1>1, LeastElement
<1>3. PICK u \in S : g = n - u
  OBVIOUS
<1>4. \A v \in S : n - u <= n - v
  BY <1>2, <1>3
<1> QED BY <1>4
=============================================================================

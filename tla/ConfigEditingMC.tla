-------------------------- MODULE ConfigEditingMC --------------------------
(***************************************************************************)
(* Instances of ConfigEditing: domains and sections as model values.  A    *)
(* behaviour works on two sections of one domain, or on one section in two *)
(* domains.                                                                *)
(***************************************************************************)
EXTENDS ConfigEditing
CONSTANTS east, west, gpos, tiers, x, y, z
Blocks == {D \X S : D \in SUBSET Domains, S \in SUBSET Sections}
TwoPlaces == {B \in Blocks : Cardinality(B) = 2}
Symmetric == Permutations(Domains) \cup Permutations(Sections)
             \cup Permutations(Contents \ {FirstContent})
=============================================================================

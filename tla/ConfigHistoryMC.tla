--------------------------- MODULE ConfigHistoryMC ---------------------------
(* A small instance of ConfigHistory for TLC. *)
EXTENDS ConfigHistory

CONSTANTS tiers, gpos, x, y, h1, h2, nobody

SectionsMC == {tiers, gpos}
SeededMC == {tiers}
PositionMC == [s \in SectionsMC |-> IF s = tiers THEN 1 ELSE 2]
ContentsMC == {x, y}
TwoHandlers == {h1, h2}
=============================================================================

----------------------------- MODULE JitAccessMC -----------------------------
(* Small instances of JitAccess for TLC. *)
EXTENDS JitAccess, TLC

CONSTANTS alice, bob, nobody, h1, h2, jitWorker, account

PeopleMC == {alice, bob}
OneHandler == {h1}
TwoHandlers == {h1, h2}
TargetsMC == {account}

SymmetryMC == Permutations({alice, bob}) \cup Permutations({h1, h2})
=============================================================================

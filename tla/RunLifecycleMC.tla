-------------------------- MODULE RunLifecycleMC --------------------------
(* Small instances of RunLifecycle for TLC. *)
EXTENDS RunRefinement, TLC

CONSTANTS alice, bob, h1, h2, scheduler, nobody

OneUser == {alice}
UsersMC == {alice, bob}
OneHandler == {h1}
TwoHandlers == {h1, h2}

\* Always open; closed at first.
OpenCalendar == [windows |-> Times, freezes |-> {}]
LateWindow == [windows |-> 2..MaxTime, freezes |-> {}]

OnlyOpen == {OpenCalendar}
OpenOrLate == {OpenCalendar, LateWindow}

SymmetryMC == Permutations({alice, bob}) \cup Permutations({h1, h2})
=============================================================================

----------------------------- MODULE GitMirrorMC -----------------------------
(* Small instances of GitMirror for TLC. *)
EXTENDS GitMirror

CONSTANTS tiers, groups, h1, foreign

OneSection == {tiers}
TwoSections == {tiers, groups}
OneHandler == {h1}
=============================================================================

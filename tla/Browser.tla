------------------------------- MODULE Browser -------------------------------
(***************************************************************************)
(* The pages of the web interface and, as one more place a behaviour may   *)
(* visit, the review of a draft before it is saved.  To the other pages a  *)
(* review is a pause: every behaviour of BrowserSpec is one of WebSpec.    *)
(***************************************************************************)
EXTENDS Web, SectionDiff

browserVars == <<webVars, reviewVars>>

NoReviews == reviewOf = Empty /\ reviewBase = Empty /\ reviewDraft = Empty /\ review = NoReview

BrowserInit ==
    /\ WebInit
    /\ IF at = "review" THEN ReviewInit ELSE NoReviews

BrowserNext ==
    \/ WebNext /\ UNCHANGED reviewVars
    \/ at = "review" /\ ReviewNext /\ UNCHANGED webVars

BrowserSpec == BrowserInit /\ [][BrowserNext]_browserVars

-----------------------------------------------------------------------------
(***************************************************************************)
(* What is shown before a save or an import hides no difference            *)
(* (structured-diff.ts).                                                   *)
(***************************************************************************)
ReviewsTell == at = "review" => ReviewType /\ ReviewTells
=============================================================================

----------------------------- MODULE MC_SprintRace -----------------------------
(* Two requests on two sprints.                                              *)
EXTENDS SprintRace, TLC

CONSTANTS r1, r2, us1, issue1, issue2

\* One request saves two issues in a transaction, the other a story.
TwoInOne == (r1 :> <<issue1, issue2>>) @@ (r2 :> <<us1>>)
=============================================================================

----------------------------- MODULE MC_References -----------------------------
(* The project of an import, which gives three numbers, and another one.   *)
EXTENDS References, TLC

CONSTANTS projA, projB

TwoProjects == {projA, projB}
LastNumbers == projA :> 3 @@ projB :> 1
AnyItem == Permutations(Items)

=============================================================================

----------------------------- MODULE MC_ServerRows -----------------------------
(* Small instances of the parts of ServerRows.                                   *)
EXTENDS ServerRows, TLC

CONSTANTS c1, c2

Card(cell, n) == [cell |-> cell, order |-> n]

\* A board as it is created, and one with two tasks of one position.
Boards == {(4 :> Card(c1, 0)) @@ (12 :> Card(c1, 1)) @@ (13 :> Card(c2, 2)),
           (4 :> Card(c1, 3)) @@ (12 :> Card(c1, 3)) @@ (13 :> Card(c1, 7))}

=============================================================================

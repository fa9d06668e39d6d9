----------------------------- MODULE MergedObject -----------------------------
(***************************************************************************)
(* What the version parameter promises: edits of one object are merged     *)
(* field by field.  An editor shows a version of the object; its edit is   *)
(* accepted only when none of its fields was changed after that version,   *)
(* it replaces those fields and nothing else, and makes the next version.  *)
(***************************************************************************)
EXTENDS Naturals

CONSTANTS Editors, Fields, Initial

VARIABLES
  version,   \* the version of the object
  val,       \* who wrote each field last
  changed,   \* the version in which each field was changed last
  shown      \* the version each editor shows, 0 for none

mergedVars == <<version, val, changed, shown>>

Init ==
  /\ version = 1
  /\ val = [f \in Fields |-> Initial]
  /\ changed = [f \in Fields |-> 1]
  /\ shown = [e \in Editors |-> 0]

Show(e) ==
  /\ shown' = [shown EXCEPT ![e] = version]
  /\ UNCHANGED <<version, val, changed>>

Edit(e, F) ==
  /\ shown[e] > 0
  /\ \A f \in F : changed[f] <= shown[e]
  /\ version' = version + 1
  /\ val' = [f \in Fields |-> IF f \in F THEN e ELSE val[f]]
  /\ changed' = [f \in Fields |-> IF f \in F THEN version + 1 ELSE changed[f]]
  /\ UNCHANGED shown

Next == \E e \in Editors : Show(e) \/ \E F \in SUBSET Fields : Edit(e, F)

Spec == Init /\ [][Next]_mergedVars
=============================================================================

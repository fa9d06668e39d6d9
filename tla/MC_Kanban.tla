------------------------------- MODULE MC_Kanban -------------------------------
(* One column with a card elsewhere: drags within a list and between two. *)
EXTENDS KanbanBoard

CONSTANTS todo, doing, t1, t2

CardsAtStart == [s \in Stories |-> IF s = 3 THEN doing ELSE todo]

=============================================================================

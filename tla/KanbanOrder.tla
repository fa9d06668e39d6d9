------------------------------ MODULE KanbanOrder ------------------------------
(***************************************************************************)
(* Positions of the cards of a kanban: what the server does to the stored  *)
(* positions when cards are dragged, and what the browser does to the ones *)
(* on screen before it asks the server.                                    *)
(*                                                                         *)
(* A cell is a status; the project has no swimlanes.  Stories are their    *)
(* ids, which decide between equal positions.                              *)
(***************************************************************************)
EXTENDS Naturals, FiniteSets, SequencesExt

CONSTANTS
  Stories,   \* ids
  Statuses,
  NoCard

ASSUME StoriesAssumption == Stories \subseteq Nat /\ IsFiniteSet(Stories) /\ NoCard \notin Stories

\* A row, and a card as a browser has loaded it.
Rows == [Stories -> [status : Statuses, order : Nat]]

-----------------------------------------------------------------------------
(* Lists, written with cardinalities to be reasoned about.                 *)

At(seq, s) == SelectInSeq(seq, LAMBDA t : t = s)

\* What a sequence has at some of its places, in its order.
Chosen(seq, places) ==
  [n \in 1 .. Cardinality(places) |->
     seq[CHOOSE i \in places : n = Cardinality({j \in places : j <= i})]]

-----------------------------------------------------------------------------
(* Server.                                                                 *)

\* order_by("kanban_order", "id")
Before(rows, s, t) ==
  rows[s].order < rows[t].order \/ (rows[s].order = rows[t].order /\ s < t)

Sorted(rows, S) ==
  [i \in 1 .. Cardinality(S) |->
     CHOOSE s \in S : i = 1 + Cardinality({t \in S : Before(rows, t, s)})]

Column(rows, status) == Sorted(rows, {s \in Stories : rows[s].status = status})

\* A drag names the cards and the card they come after, or the one they come before.
Anchor(drag) == IF drag.before # NoCard THEN drag.before ELSE drag.after

StartOrder_Same(rows, drag) == IF Anchor(drag) = NoCard THEN 1 ELSE rows[Anchor(drag)].order

StartOrder(rows, drag) ==
  CASE drag.before # NoCard -> rows[drag.before].order
    [] drag.before = NoCard /\ drag.after # NoCard -> rows[drag.after].order + 1
    [] OTHER -> 1

Behind_All(rows, drag, from) ==
  {s \in Stories : rows[s].status = drag.status /\ rows[s].order >= from}

\* The cards that make room, given the position of the anchor.
Behind(rows, drag, from) ==
  {s \in Stories \ (ToSet(drag.cards) \cup ({drag.after} \ {drag.before})) :
     rows[s].status = drag.status /\ rows[s].order >= from}

AnchorOrder(rows, drag) == IF Anchor(drag) = NoCard THEN 0 ELSE rows[Anchor(drag)].order

\* The first UPDATE: consecutive positions for the cards and those behind them.
Placed(rows, ids, start) ==
  [s \in Stories |-> IF s \in ToSet(ids)
                     THEN [rows[s] EXCEPT !.order = start + At(ids, s) - 1]
                     ELSE rows[s]]

\* The second UPDATE: the new status.
Moved(rows, drag) ==
  [s \in Stories |-> IF s \in ToSet(drag.cards) THEN [rows[s] EXCEPT !.status = drag.status]
                     ELSE rows[s]]

Listed(rows, drag, from) == drag.cards \o Sorted(rows, Behind(rows, drag, from))

\* The whole handler when nothing else happens.
Dragged(rows, drag) ==
  Moved(Placed(rows, Listed(rows, drag, AnchorOrder(rows, drag)), StartOrder(rows, drag)), drag)

-----------------------------------------------------------------------------
(* Browser.                                                                *)

\* _.sortBy keeps the order of equal elements.
Stable(cards, order) ==
  [i \in DOMAIN cards |->
     cards[CHOOSE k \in DOMAIN cards :
       i = 1 + Cardinality({j \in DOMAIN cards :
             \/ order[cards[j]] < order[cards[k]]
             \/ order[cards[j]] = order[cards[k]] /\ j < k})]]

Without(cards, S) == Chosen(cards, {i \in DOMAIN cards : cards[i] \notin S})

\* KanbanUserstoriesService.move: column is the list on screen, with the card if it was there.
LocalOrder(order, column, drag) ==
  LET first == IF drag.after = NoCard THEN 0 ELSE order[drag.after] + 1
      skipped == IF drag.after = NoCard THEN 0 ELSE At(column, drag.after)
      rest == Without(column, ToSet(drag.cards))
      behind == SubSeq(rest, skipped + 1, Len(rest))
  IN [s \in Stories |->
        CASE Contains(drag.cards, s) -> first + At(drag.cards, s) - 1
          [] Contains(behind, s) /\ ~ Contains(drag.cards, s) ->
               first + Len(drag.cards) + At(behind, s)
          [] OTHER -> order[s]]

-----------------------------------------------------------------------------
(* Reference: the cards where the user put them and the others as before.  *)

Inserted(column, drag) ==
  LET rest == Without(column, ToSet(drag.cards))
      place == CASE drag.before # NoCard -> At(rest, drag.before) - 1
                 [] drag.before = NoCard /\ drag.after # NoCard -> At(rest, drag.after)
                 [] OTHER -> 0
  IN SubSeq(rest, 1, place) \o drag.cards \o SubSeq(rest, place + 1, Len(rest))

\* No two cards of a cell have one position.
Ties(rows) == {p \in Stories \X Stories :
  p[1] # p[2] /\ rows[p[1]].status = rows[p[2]].status /\ rows[p[1]].order = rows[p[2]].order}

=============================================================================

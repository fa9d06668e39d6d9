----------------------------- MODULE TaskboardOrder -----------------------------
(***************************************************************************)
(* The taskboard of a sprint in several browser tabs.  The tab works out   *)
(* the position of a dragged task and changes its lists; the server saves  *)
(* the task and makes room for it with apply_order_updates, in a statement *)
(* that runs after the commit, and after the message to the other tabs,    *)
(* which load all the tasks again.                                         *)
(*                                                                         *)
(* A cell is a status of one story.  (A drag to another story renumbers    *)
(* us_order as well, and those numbers come in the same answer.)  Tasks    *)
(* are their ids; the tasks of a cell with one position are shown in the   *)
(* order of the ids.                                                       *)
(***************************************************************************)
EXTENDS Integers, FiniteSets, SequencesExt

CONSTANTS
  Tasks,      \* ids
  Cells,
  Tabs,
  Starts,     \* the boards a behaviour may start with: task -> cell and position
  MaxEvents   \* bound: drags, messages lost, and loads and updates that fail

VARIABLES
  rows,      \* cell, taskboard_order and version of the tasks
  requests,  \* the drags made so far with the progress of their requests
  told,      \* tabs with a message received or on its way
  loads,     \* tab -> loads sent and not answered; clean is history: no request ran when it
             \* was answered by the server and nothing has changed since
  cards,     \* tab -> the models of the tasks: as loaded or answered, the cell and position they
             \* were dragged to, and whether that is still to be saved
  order,     \* tab -> the positions the lists are sorted by
  list,      \* tab -> tasksRaw, sorted
  suspect,   \* history: tabs in which something went wrong since the last clean load
  faults

vars == <<rows, requests, told, loads, cards, order, list, suspect, faults>>

Row == [cell : Cells, order : Nat, version : Nat]
Rows == [Tasks -> Row]
NoRows == [s \in {} |-> 0]

\* A card as made of a row.
Model(row) == [attrs |-> row, cell |-> row.cell, order |-> row.order, modified |-> FALSE]
Models(db) == [s \in Tasks |-> Model(db[s])]

TypeOK ==
  /\ rows \in Rows
  /\ \A i \in DOMAIN requests :
       /\ requests[i].tab \in Tabs /\ requests[i].task \in Tasks
       /\ requests[i].step \in {"sent", "saved", "published", "done", "refused"}
       /\ requests[i].row \in Row /\ requests[i].held \in BOOLEAN
       /\ DOMAIN requests[i].values \subseteq Tasks
       /\ \A s \in DOMAIN requests[i].values : requests[i].values[s] \in Nat
  /\ told \subseteq Tabs
  /\ loads \in [Tabs -> Seq([rows : Rows \cup {NoRows}, clean : BOOLEAN])]
  /\ cards \in [Tabs -> [Tasks -> [attrs : Row, cell : Cells, order : Nat, modified : BOOLEAN]]]
  /\ order \in [Tabs -> [Tasks -> Nat]]
  /\ \A t \in Tabs : ToSet(list[t]) = Tasks /\ Len(list[t]) = Cardinality(Tasks)
  /\ suspect \subseteq Tabs
  /\ faults + Len(requests) <= MaxEvents

-----------------------------------------------------------------------------
(* Lists, written with cardinalities to be reasoned about.                 *)

\* The elements of S in the order R, each at the place that counts those before it.
Sorted(S, R) ==
  [i \in 1 .. Cardinality(S) |-> CHOOSE s \in S : i = 1 + Cardinality({t \in S : <<t, s>> \in R})]

ByPosition(position) == {p \in (DOMAIN position) \X (DOMAIN position) :
  position[p[1]] < position[p[2]] \/ (position[p[1]] = position[p[2]] /\ p[1] < p[2])}

At(seq, s) == CHOOSE i \in DOMAIN seq : seq[i] = s

AsIn(seq) == {p \in Tasks \X Tasks : At(seq, p[1]) < At(seq, p[2])}

-----------------------------------------------------------------------------
(* Positions on the server.                                                *)

\* The elements that make room when one goes from an old position to a new one.
Shifted(orders, old, new) ==
  {s \in DOMAIN orders : \/ new <= old /\ orders[s] >= new /\ orders[s] < old
                         \/ new >= old /\ orders[s] >= new}

Shift(orders, s, to) ==
  [t \in DOMAIN orders |-> IF t \in Shifted(orders, orders[s], to) THEN orders[t] + 1 ELSE orders[t]]

\* apply_order_updates: one after the other in the order of the new positions, each from where
\* those before it have shifted it, then the new positions as they are; of the elements touched.
ApplyOrderUpdates_Once(orders, new) ==
  [s \in DOMAIN orders |-> IF s \in DOMAIN new THEN new[s]
                           ELSE IF \E t \in DOMAIN new : orders[s] > new[t] THEN orders[s] + 1
                           ELSE orders[s]]

ApplyOrderUpdates(orders, new) ==
  LET moved == Sorted(DOMAIN new, ByPosition(new))
      upTo[n \in 0 .. Len(moved)] ==
        IF n = 0 THEN orders ELSE Shift(upTo[n - 1], moved[n], new[moved[n]])
      shifted == upTo[Len(moved)]
  IN [s \in {t \in DOMAIN orders : shifted[t] # orders[t] \/ (t \in DOMAIN new /\ new[t] # shifted[t])} |->
        IF s \in DOMAIN new THEN new[s] ELSE shifted[s]]

\* The row as saved: the drag brings what it changes in the card.
Saved(db, drag) ==
  [cell |-> IF drag.newCell THEN drag.cell ELSE db[drag.task].cell,
   order |-> IF drag.newOrder THEN drag.order ELSE db[drag.task].order,
   version |-> db[drag.task].version + 1]

\* The tasks of the cell with the saved one among them, and their new positions, if the cell or
\* the position of the task is another one.
Reordered(db, drag) ==
  LET saved == [db EXCEPT ![drag.task] = Saved(db, drag)]
      mine == saved[drag.task]
      inCell == {s \in Tasks : saved[s].cell = mine.cell}
      asked == [s \in (DOMAIN drag.setOrders \cap inCell) \cup {drag.task} |->
                  IF s = drag.task THEN mine.order ELSE drag.setOrders[s]]
  IN IF mine.cell = db[drag.task].cell /\ mine.order = db[drag.task].order
     THEN [s \in {} |-> 0]
     ELSE ApplyOrderUpdates([s \in inCell |-> saved[s].order], asked)

\* order_by, and the ids where it leaves a choice
Orders(db) == [s \in Tasks |-> db[s].order]

Column(db, cell) == Sorted({s \in Tasks : db[s].cell = cell}, ByPosition(Orders(db)))

-----------------------------------------------------------------------------
(* Positions in a tab.                                                     *)

\* _.sortBy keeps the order of equal elements.
Stable(seq, position) ==
  Sorted(Tasks, {p \in Tasks \X Tasks :
                   position[p[1]] < position[p[2]] \/ (position[p[1]] = position[p[2]] /\ p \in AsIn(seq))})

\* TaskboardTasksService.move: behind the first `index` of the other tasks of the cell.
Move(position, rest, s, index) ==
  LET previous == position[rest[index]]
      mine == IF index = 0 THEN 0 ELSE previous + 1
      equals == {u \in ToSet(rest) : At(rest, u) <= index /\ position[u] = previous}
  IN [order |-> [u \in Tasks |-> CASE u = s -> mine
                                   [] u # s /\ u \in ToSet(rest) /\ At(rest, u) > index ->
                                        mine + At(rest, u) - index
                                   [] OTHER -> position[u]],
      setOrders |-> IF Cardinality(equals) > 1 THEN [u \in equals |-> previous]
                    ELSE [u \in {} |-> 0]]

\* assignOrders: _.invert makes of the answer's task -> position a map from positions to tasks,
\* so that the position of a task changes only if its id is one of the positions.
Assigned(position, values) ==
  [s \in Tasks |-> IF \E u \in DOMAIN values : values[u] = s
                   THEN CHOOSE u \in DOMAIN values : values[u] = s
                   ELSE position[s]]

-----------------------------------------------------------------------------
Init ==
  /\ \E start \in Starts :
       rows = [s \in Tasks |-> [cell |-> start[s].cell, order |-> start[s].order, version |-> 0]]
  /\ requests = <<>>
  /\ told = {}
  /\ loads = [t \in Tabs |-> <<>>]
  /\ cards = [t \in Tabs |-> Models(rows)]
  /\ order = [t \in Tabs |-> Orders(rows)]
  /\ list = [t \in Tabs |-> Sorted(Tasks, ByPosition(Orders(rows)))]
  /\ suspect = {}
  /\ faults = 0

Calm == \A i \in DOMAIN requests : requests[i].step \in {"done", "refused"}
Settled(t) == t \notin told /\ loads[t] = <<>>

Among(t, cell) == {s \in Tasks : cards[t][s].cell = cell}

Shown(t, cell) == Sorted(Among(t, cell), AsIn(list[t]))

\* What a load has read is out of date, for all tabs.
Outdated == [t \in Tabs |-> [i \in DOMAIN loads[t] |-> [loads[t][i] EXCEPT !.clean = FALSE]]]

\* A drag since the tab loaded its cards.
Dragged(t) == \E i \in DOMAIN requests : requests[i].tab = t /\ requests[i].held

\* A task is dropped in a cell.  The model sends the attributes that differ, and nothing if none
\* does or did since it was saved.
Drop(t, s, cell, index) ==
  LET rest == Sorted(Among(t, cell) \ {s}, AsIn(list[t]))
      move == Move(order[t], rest, s, index)
      card == cards[t][s]
      drag == [tab |-> t, task |-> s, cell |-> cell, order |-> move.order[s],
               setOrders |-> move.setOrders, version |-> card.attrs.version,
               newCell |-> cell # card.attrs.cell, newOrder |-> move.order[s] # card.attrs.order,
               held |-> TRUE, step |-> "sent", row |-> card.attrs, values |-> NoRows]
      modified == card.modified \/ drag.newCell \/ drag.newOrder
      splits == index \in 1 .. Len(rest) - 1 /\ order[t][rest[index]] = order[t][rest[index + 1]]
  IN
  /\ Len(requests) + faults < MaxEvents
  /\ index <= Len(rest)
  /\ ~ (s \in Among(t, cell) /\ At(Shown(t, cell), s) = index + 1)
  /\ requests' = Append(requests, IF modified THEN drag ELSE [drag EXCEPT !.step = "done"])
  /\ cards' = [cards EXCEPT ![t][s] = [attrs |-> card.attrs, cell |-> cell, order |-> move.order[s],
                                      modified |-> modified]]
  /\ order' = [order EXCEPT ![t] = move.order]
  /\ list' = [list EXCEPT ![t] = Stable(@, move.order)]
  /\ loads' = [loads EXCEPT ![t] = Outdated[t]]
  /\ suspect' = IF Dragged(t) \/ ~ Calm \/ ~ Settled(t) \/ ~ modified \/ splits
                THEN suspect \cup {t} ELSE suspect
  /\ UNCHANGED <<rows, told, faults>>

Progress(i, step) == requests' = [requests EXCEPT ![i].step = step]

\* The save, and what to write for the others of the cell.  A save of a version that is not the
\* latest may be refused (OptimisticLocking); the tab leaves the task where it was dropped.
Save(i) ==
  LET drag == requests[i] IN
  /\ drag.step = "sent"
  /\ \A j \in DOMAIN requests : requests[j].step = "saved" => requests[j].task # drag.task
  /\ \/ /\ requests' = [requests EXCEPT ![i].step = "saved", ![i].row = Saved(rows, drag),
                                            ![i].values = Reordered(rows, drag)]
        /\ UNCHANGED suspect
     \/ /\ drag.version # rows[drag.task].version
        /\ Progress(i, "refused")
        /\ suspect' = suspect \cup {drag.tab}
  /\ UNCHANGED <<rows, told, loads, cards, order, list, faults>>

\* The commit, and the message to the other tabs, unless the broker cannot be reached.
Commit(i) ==
  LET drag == requests[i] IN
  /\ drag.step = "saved"
  /\ rows' = [rows EXCEPT ![drag.task] = drag.row]
  /\ Progress(i, "published")
  /\ loads' = Outdated
  /\ \/ told' = told \cup (Tabs \ {drag.tab}) /\ UNCHANGED <<suspect, faults>>
     \/ /\ Len(requests) + faults < MaxEvents
        /\ faults' = faults + 1
        /\ suspect' = suspect \cup (Tabs \ {drag.tab})
        /\ UNCHANGED told
  /\ UNCHANGED <<cards, order, list>>

\* The statement for the positions, and the answer to the tab with the row as it was saved.
\* After four errors the statement is given up and nobody told.
UpdateOrders(i) ==
  LET drag == requests[i]
      room == DOMAIN drag.values
  IN
  /\ drag.step = "published"
  /\ \A j \in DOMAIN requests : requests[j].step = "saved" => requests[j].task \notin room
  /\ \/ /\ rows' = [s \in Tasks |-> IF s \in room THEN [rows[s] EXCEPT !.order = drag.values[s]]
                                    ELSE rows[s]]
        /\ suspect' = IF \E s \in room : drag.values[s] \in Tasks THEN suspect \cup {drag.tab}
                      ELSE suspect
        /\ UNCHANGED faults
     \/ /\ Len(requests) + faults < MaxEvents
        /\ faults' = faults + 1
        /\ suspect' = suspect \cup {drag.tab}
        /\ UNCHANGED rows
  /\ Progress(i, "done")
  /\ loads' = Outdated
  /\ cards' = IF drag.held THEN [cards EXCEPT ![drag.tab][drag.task] = Model(drag.row)] ELSE cards
  /\ order' = [order EXCEPT ![drag.tab] = Assigned(@, drag.values)]
  /\ list' = [list EXCEPT ![drag.tab] = Stable(@, order'[drag.tab])]
  /\ UNCHANGED told

\* Messages that come in together cause one load.
Load(t) ==
  /\ t \in told
  /\ told' = told \ {t}
  /\ loads' = [loads EXCEPT ![t] = Append(@, [rows |-> NoRows, clean |-> FALSE])]
  /\ UNCHANGED <<rows, requests, cards, order, list, suspect, faults>>

Query(t, i) ==
  /\ i \in DOMAIN loads[t] /\ loads[t][i].rows = NoRows
  /\ loads' = [loads EXCEPT ![t][i] = [rows |-> rows, clean |-> Calm]]
  /\ UNCHANGED <<rows, requests, told, cards, order, list, suspect, faults>>

\* The loaded tasks replace the old ones, with their positions.
Answer(t, i) ==
  /\ i \in DOMAIN loads[t] /\ loads[t][i].rows # NoRows
  /\ LET new == loads[t][i].rows IN
     /\ cards' = [cards EXCEPT ![t] = Models(new)]
     /\ order' = [order EXCEPT ![t] = Orders(new)]
     /\ list' = [list EXCEPT ![t] = Sorted(Tasks, ByPosition(Orders(new)))]
  /\ loads' = [loads EXCEPT ![t] = RemoveAt(@, i)]
  /\ requests' = [j \in DOMAIN requests |->
                   [requests[j] EXCEPT !.held = @ /\ requests[j].tab # t]]
  /\ suspect' = IF loads[t][i].clean THEN suspect \ {t} ELSE suspect \cup {t}
  /\ UNCHANGED <<rows, told, faults>>

LoadFails(t, i) ==
  /\ i \in DOMAIN loads[t]
  /\ Len(requests) + faults < MaxEvents
  /\ faults' = faults + 1
  /\ loads' = [loads EXCEPT ![t] = RemoveAt(@, i)]
  /\ suspect' = suspect \cup {t}
  /\ UNCHANGED <<rows, requests, told, cards, order, list>>

Next ==
  \/ \E t \in Tabs, s \in Tasks, cell \in Cells, index \in 0 .. Cardinality(Tasks) :
       Drop(t, s, cell, index)
  \/ \E i \in DOMAIN requests : Save(i) \/ Commit(i) \/ UpdateOrders(i)
  \/ \E t \in Tabs : Load(t) \/ \E i \in DOMAIN loads[t] : Query(t, i) \/ Answer(t, i) \/ LoadFails(t, i)

Spec == Init /\ [][Next]_vars

-----------------------------------------------------------------------------
\* The positions a tab works out for a drag and those that apply_order_updates gives put the
\* tasks in one order, ties and gaps and all, and whatever others drag a tab shows what is in
\* the database when everything sent has been handled.  Unless since its last clean load a
\* message, a load or an update was lost, its drag was refused, it loaded while a request ran
\* (the message precedes the positions), its drag changed nothing that is sent or went
\* between two tasks of one position (only those before it are told apart), its user dragged
\* again (assignOrders does not give the tab the positions of the answer), or a position of
\* the answer is also the id of a task (assignOrders then gives that task a wrong one).
TabShowsOrder ==
  \A t \in Tabs : (Calm /\ Settled(t) /\ t \notin suspect) =>
    \A cell \in Cells : Shown(t, cell) = Column(rows, cell)

=============================================================================

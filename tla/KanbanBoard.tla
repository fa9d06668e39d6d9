------------------------------ MODULE KanbanBoard ------------------------------
(***************************************************************************)
(* A kanban shown in several browser tabs.  A drag changes the tab it is   *)
(* made in at once and goes to the server as a request, which runs without *)
(* a transaction in statements of its own; the other tabs are told which   *)
(* cards to load again.  A tab is not told of its own drags, keeps only    *)
(* the last of the messages that come in within a second, and replaces the *)
(* cards that message names when the answer of the load comes.             *)
(***************************************************************************)
EXTENDS KanbanOrder

CONSTANTS
  Tabs,
  Start,      \* the initial status of each card
  MaxDrags,   \* bound: drags in a behaviour
  MaxFaults   \* bound: messages lost by the broker and loads that fail

ASSUME BoardAssumption ==
  /\ Start \in [Stories -> Statuses]
  /\ MaxDrags \in Nat /\ MaxFaults \in Nat

VARIABLES
  rows,       \* kanban_order and status of every story in the database
  requests,   \* the drags made so far, each with the progress of its request; lone is history:
              \* no other was between its check and its last update when it was checked
  inbox,      \* tab -> sets of ids, the messages on their way to it
  waiting,    \* tab -> ids of the message held by the debounce, {} when there is none
  loads,      \* tab -> loads sent and not answered, oldest first
  cards,      \* tab -> the loaded models
  order,      \* tab -> the positions the lists are sorted by
  list,       \* tab -> userstoriesRaw: every card, sorted
  faults,
  suspect     \* tab -> history: cards an accident may have left in a wrong column

vars == <<rows, requests, inbox, waiting, loads, cards, order, list, faults, suspect>>

NoRows == [s \in {} |-> 0]

Init ==
  /\ rows = [s \in Stories |-> [status |-> Start[s], order |-> s]]
  /\ requests = <<>>
  /\ inbox = [t \in Tabs |-> <<>>]
  /\ waiting = [t \in Tabs |-> {}]
  /\ loads = [t \in Tabs |-> <<>>]
  /\ cards = [t \in Tabs |-> rows]
  /\ order = [t \in Tabs |-> [s \in Stories |-> s]]
  /\ list = [t \in Tabs |-> Sorted(rows, Stories)]
  /\ faults = 0
  /\ suspect = [t \in Tabs |-> {}]

-----------------------------------------------------------------------------
(* What a tab shows, and the drags of its user.                            *)

Shown(t, status) ==
  Chosen(list[t], {i \in DOMAIN list[t] : cards[t][list[t][i]].status = status})

\* Requests of a tab whose new status is not in the database yet.
Unsaved(t) ==
  UNION {ToSet(requests[i].drag.cards) : i \in
    {j \in DOMAIN requests : requests[j].tab = t
                             /\ requests[j].step \notin {"moved", "done", "rejected"}}}

\* Of a load whose answer is on its way the dragged card will be as it was.
Beside(load, drag) == [load EXCEPT !.own = @ \cup ToSet(drag.cards)]

\* moveUs: the lists change at once, without waiting for the answer.
Send(t, drag) ==
  /\ requests' = Append(requests, [tab |-> t, drag |-> drag, step |-> "sent",
                                   from |-> 0, start |-> 0, ids |-> <<>>, lone |-> TRUE])
  /\ cards' = [cards EXCEPT ![t] = Moved(@, drag)]
  /\ order' = [order EXCEPT ![t] = LocalOrder(@, Shown(t, drag.status), drag)]
  /\ list' = [list EXCEPT ![t] = Stable(@, order'[t])]
  /\ loads' = [loads EXCEPT ![t] = [i \in DOMAIN @ |-> Beside(@[i], drag)]]
  /\ suspect' = [suspect EXCEPT ![t] = @ \cup (Unsaved(t) \cap ToSet(drag.cards))]
  /\ UNCHANGED <<rows, inbox, waiting, faults>>

\* Dropped in the list of a status behind some of its other cards; not where it was.
Drop(t, s) == \E status \in Statuses :
  LET rest == Without(Shown(t, status), {s}) IN
  \E place \in 0 .. Len(rest) :
    /\ SubSeq(rest, 1, place) \o <<s>> \o SubSeq(rest, place + 1, Len(rest)) # Shown(t, status)
    /\ Send(t, [cards |-> <<s>>, status |-> status,
                after |-> IF place = 0 THEN NoCard ELSE rest[place],
                before |-> IF place = 0 /\ rest # <<>> THEN rest[1] ELSE NoCard])

\* The entry of the card's menu: before the first card, be it the card itself.
MoveToTop(t, s) ==
  LET status == cards[t][s].status IN
  Send(t, [cards |-> <<s>>, status |-> status,
           after |-> NoCard, before |-> Head(Shown(t, status))])

-----------------------------------------------------------------------------
(* The request on the server.                                              *)

Progress(i, step) == requests' = [requests EXCEPT ![i].step = step]

Running == {j \in DOMAIN requests : requests[j].step \in {"valid", "loaded", "listed", "placed"}}

screens == <<waiting, loads, cards, order, list>>

\* The anchor has to be in the cell still.  Nobody handles the error in the browser.
Validate(i) ==
  LET drag == requests[i].drag IN
  /\ requests[i].step = "sent"
  /\ \/ /\ Anchor(drag) # NoCard => rows[Anchor(drag)].status = drag.status
        /\ requests' = [requests EXCEPT ![i].step = "valid", ![i].lone = Running = {}]
        /\ UNCHANGED suspect
     \/ /\ Anchor(drag) # NoCard /\ rows[Anchor(drag)].status # drag.status
        /\ Progress(i, "rejected")
        /\ suspect' = [suspect EXCEPT ![requests[i].tab] = @ \cup ToSet(drag.cards)]
  /\ UNCHANGED <<rows, inbox, faults, screens>>

\* The anchor is loaded again, whatever its cell is now.
LoadAnchor(i) ==
  LET drag == requests[i].drag IN
  /\ requests[i].step = "valid"
  /\ requests' = [requests EXCEPT ![i].step = "loaded", ![i].from = AnchorOrder(rows, drag),
                                  ![i].start = StartOrder(rows, drag)]
  /\ UNCHANGED <<rows, inbox, faults, suspect, screens>>

ListCards(i) ==
  /\ requests[i].step = "loaded"
  /\ requests' = [requests EXCEPT ![i].step = "listed",
                                  ![i].ids = Listed(rows, requests[i].drag, requests[i].from)]
  /\ UNCHANGED <<rows, inbox, faults, suspect, screens>>

Place(i) ==
  /\ requests[i].step = "listed"
  /\ rows' = Placed(rows, requests[i].ids, requests[i].start)
  /\ Progress(i, "placed")
  /\ UNCHANGED <<inbox, faults, suspect, screens>>

ChangeStatus(i) ==
  /\ requests[i].step = "placed"
  /\ rows' = Moved(rows, requests[i].drag)
  /\ Progress(i, "moved")
  /\ UNCHANGED <<inbox, faults, suspect, screens>>

\* To every other session that shows the board.
Emit(i) ==
  /\ requests[i].step = "moved"
  /\ inbox' = [t \in Tabs |-> IF t = requests[i].tab THEN inbox[t]
                              ELSE Append(inbox[t], ToSet(requests[i].ids))]
  /\ Progress(i, "done")
  /\ UNCHANGED <<rows, faults, suspect, screens>>

\* The broker refuses the connection: the error is logged and the message gone.
LoseMessage(i) ==
  /\ requests[i].step = "moved"
  /\ faults < MaxFaults
  /\ faults' = faults + 1
  /\ Progress(i, "done")
  /\ suspect' = [t \in Tabs |-> IF t = requests[i].tab THEN suspect[t]
                                ELSE suspect[t] \cup ToSet(requests[i].ids)]
  /\ UNCHANGED <<rows, inbox, screens>>

-----------------------------------------------------------------------------
(* Messages and loads of a tab.                                            *)

\* The trailing debounce calls its function with the arguments of the last call only.
Receive_KeepFirst(t) ==
  /\ inbox[t] # <<>>
  /\ inbox' = [inbox EXCEPT ![t] = Tail(@)]
  /\ waiting' = [waiting EXCEPT ![t] = IF @ = {} THEN Head(inbox[t]) ELSE @]
  /\ suspect' = [suspect EXCEPT ![t] = @ \cup (waiting[t] \ Head(inbox[t]))]
  /\ UNCHANGED <<rows, requests, loads, cards, order, list, faults>>

Receive(t) ==
  /\ inbox[t] # <<>>
  /\ inbox' = [inbox EXCEPT ![t] = Tail(@)]
  /\ waiting' = [waiting EXCEPT ![t] = Head(inbox[t])]
  /\ suspect' = [suspect EXCEPT ![t] = @ \cup (waiting[t] \ Head(inbox[t]))]
  /\ UNCHANGED <<rows, requests, loads, cards, order, list, faults>>

Load(t) ==
  /\ waiting[t] # {}
  /\ loads' = [loads EXCEPT ![t] = Append(@, [ids |-> waiting[t], rows |-> NoRows, own |-> {}])]
  /\ waiting' = [waiting EXCEPT ![t] = {}]
  /\ UNCHANGED <<rows, requests, inbox, cards, order, list, faults, suspect>>

\* The server answers with what is in the database now.
Query(t, i) ==
  /\ i \in DOMAIN loads[t] /\ loads[t][i].rows = NoRows
  /\ loads' = [loads EXCEPT ![t][i].rows = rows, ![t][i].own = Unsaved(t)]
  /\ UNCHANGED <<rows, requests, inbox, waiting, cards, order, list, faults, suspect>>

\* Cards that an older load, answered later, will put back as they were before.
Overtaken(t, i) ==
  loads[t][i].ids \cap UNION {loads[t][j].ids : j \in 1 .. i - 1}

\* The named cards are replaced, and the positions of all of them reset to the loaded ones.
Answer_WithoutReset(t, i) ==
  /\ i \in DOMAIN loads[t] /\ loads[t][i].rows # NoRows
  /\ cards' = [cards EXCEPT ![t] =
       [s \in Stories |-> IF s \in loads[t][i].ids THEN loads[t][i].rows[s] ELSE @[s]]]
  /\ UNCHANGED order
  /\ list' = [list EXCEPT ![t] = Stable(@, order'[t])]
  /\ loads' = [loads EXCEPT ![t] = RemoveAt(@, i)]
  /\ suspect' = [suspect EXCEPT ![t] =
       @ \cup Overtaken(t, i) \cup (loads[t][i].own \cap loads[t][i].ids)]
  /\ UNCHANGED <<rows, requests, inbox, waiting, faults>>

Answer(t, i) ==
  /\ i \in DOMAIN loads[t] /\ loads[t][i].rows # NoRows
  /\ cards' = [cards EXCEPT ![t] =
       [s \in Stories |-> IF s \in loads[t][i].ids THEN loads[t][i].rows[s] ELSE @[s]]]
  /\ order' = [order EXCEPT ![t] = [s \in Stories |-> cards'[t][s].order]]
  /\ list' = [list EXCEPT ![t] = Stable(@, order'[t])]
  /\ loads' = [loads EXCEPT ![t] = RemoveAt(@, i)]
  /\ suspect' = [suspect EXCEPT ![t] =
       @ \cup Overtaken(t, i) \cup (loads[t][i].own \cap loads[t][i].ids)]
  /\ UNCHANGED <<rows, requests, inbox, waiting, faults>>

LoadFails(t, i) ==
  /\ i \in DOMAIN loads[t]
  /\ faults < MaxFaults
  /\ faults' = faults + 1
  /\ loads' = [loads EXCEPT ![t] = RemoveAt(@, i)]
  /\ suspect' = [suspect EXCEPT ![t] = @ \cup loads[t][i].ids]
  /\ UNCHANGED <<rows, requests, inbox, waiting, cards, order, list>>

Next ==
  \/ Len(requests) < MaxDrags /\ \E t \in Tabs, s \in Stories : Drop(t, s) \/ MoveToTop(t, s)
  \/ \E i \in 1 .. MaxDrags :
       /\ i \in DOMAIN requests
       /\ Validate(i) \/ LoadAnchor(i) \/ ListCards(i) \/ Place(i) \/ ChangeStatus(i)
          \/ Emit(i) \/ LoseMessage(i)
  \/ \E t \in Tabs : Receive(t) \/ Load(t)
  \/ \E t \in Tabs, i \in 1 .. MaxDrags : Query(t, i) \/ Answer(t, i) \/ LoadFails(t, i)

Spec == Init /\ [][Next]_vars

-----------------------------------------------------------------------------
(* Properties.                                                             *)

\* No request runs.
Calm == \A i \in DOMAIN requests : requests[i].step \in {"done", "rejected"}

\* Nothing is on its way to the tab either.
Quiet(t) == Calm /\ inbox[t] = <<>> /\ waiting[t] = {} /\ loads[t] = <<>>

\* The drags a user can make of one or two cards, wherever the others are.
PossibleDrags ==
  {drag \in [cards : {c \in Stories \X Stories : c[1] # c[2]} \cup {<<s>> : s \in Stories},
             status : Statuses, after : Stories \cup {NoCard}, before : Stories \cup {NoCard}] :
     /\ Anchor(drag) = NoCard <=> \A s \in Stories \ ToSet(drag.cards) : rows[s].status # drag.status
     /\ drag.after = NoCard \/ drag.before = NoCard
     /\ Anchor(drag) # NoCard => rows[Anchor(drag)].status = drag.status
     /\ Anchor(drag) \notin ToSet(drag.cards)}

\* update_userstories_kanban_order_in_bulk puts the dragged cards, in the order they were
\* dragged, right behind or before the anchor and leaves the others in their order, in the
\* column they go to and in those they come from, whatever drags shaped the board before.  (Asked
\* of the boards at rest: each state of the table is met in one.)
DragKeepsOrder ==
  (\A t \in Tabs : Quiet(t)) /\ Ties(rows) = {} => \A drag \in PossibleDrags : \A status \in Statuses :
    Column(Dragged(rows, drag), status) =
      IF status = drag.status THEN Inserted(Column(rows, status), drag)
      ELSE Without(Column(rows, status), ToSet(drag.cards))

\* Two cards of a column get one position only from requests that overlapped: drags handled
\* one after the other never leave the order of a column to the ids.  (While one runs its card
\* may have the position of another in the column that it is about to leave.)
TiesOnlyFromOverlap ==
  Calm /\ Ties(rows) # {} => \E i \in DOMAIN requests : ~ requests[i].lone

\* When everything that was sent has been handled, a tab shows every card in the column it is
\* in, unless an accident happened to that card in that tab: its message was lost, or dropped
\* by the debounce for a later one, its load failed or was overtaken, its drag was refused, or
\* it was dragged here while an answer or an earlier drag of it was on its way.
StaleOnlyAfterAccident ==
  \A t \in Tabs : Quiet(t) =>
    \A s \in Stories \ suspect[t] : cards[t][s].status = rows[s].status

\* A tab whose user only watches shows the cards of every column in the order of the database.
WatcherShowsOrder ==
  \A t \in Tabs :
    (Quiet(t) /\ suspect[t] = {} /\ Ties(rows) = {} /\ \A i \in DOMAIN requests : requests[i].tab # t)
      => \A status \in Statuses : Shown(t, status) = Column(rows, status)

=============================================================================

------------------------------- MODULE Swimlanes -------------------------------
(***************************************************************************)
(* The swimlanes of a kanban: the first one takes in all stories, one that *)
(* is deleted gives its stories to another.  The deletion reads the        *)
(* stories of every lane, and how many there are, in queries of their own  *)
(* at READ COMMITTED while other users drag stories; it writes them back   *)
(* all at once.  Lanes are numbered in their order on the board.           *)
(***************************************************************************)
EXTENDS Naturals, FiniteSets, SequencesExt

CONSTANTS
  Stories,     \* ids, which decide between equal positions
  LastLane,    \* bound: lanes ever created
  Deletions,   \* requests to delete a lane
  MaxRequests, \* bound: deletions, drags and saves of the project
  NoLane

Lanes == 1 .. LastLane

VARIABLES
  lanes,       \* the lanes that exist
  default,     \* Project.default_swimlane
  lane,        \* story -> its lane or NoLane
  order,       \* story -> kanban_order
  creation,    \* the lane being created and how far; the advisory lock admits one
  deletions,   \* the progress of the deletions
  drags,       \* the drags made so far, each with its progress
  saves,       \* the saves of the project so far
  home,        \* history: where the users put a story, lanes that were deleted considered
  moved,       \* history: stories dragged while a deletion, or the creation of a first lane, ran
  skewed,      \* history: a drag ended between the list of a lane and its count, or one
               \* deletion while another ran
  crossed,     \* history: a lane was created, or another one made the default, when the deletion
               \* of the default had already been allowed
  unset        \* history: a save of the project left it without a default though it has lanes

vars == <<lanes, default, lane, order, creation, deletions, drags, saves, home, moved, skewed, crossed, unset>>

-----------------------------------------------------------------------------
NoCreation == [lane |-> NoLane, step |-> "idle"]
Unsent == [lane |-> NoLane, to |-> NoLane, step |-> "idle", todo |-> <<>>, keys |-> <<>>,
           none |-> <<>>, ids |-> [l \in Lanes |-> <<>>], count |-> [l \in Lanes |-> 0]]

TypeOK ==
  /\ lanes \subseteq Lanes
  /\ default \in lanes \cup {NoLane}
  /\ lane \in [Stories -> lanes \cup {NoLane}]
  /\ order \in [Stories -> Nat]
  /\ creation \in [lane : Lanes \cup {NoLane}, step : {"idle", "inserted", "counted"}]
  /\ \A d \in Deletions :
       LET D == deletions[d] IN
       /\ D.step \in {"idle", "checked", "list", "count", "allowed", "clear", "last", "done", "failed"}
       /\ D.lane \in Lanes \cup {NoLane} /\ D.to \in Lanes \cup {NoLane}
       /\ D.todo \in Seq(Lanes) /\ D.keys \in Seq(Lanes) /\ D.none \in Seq(Stories)
       /\ D.ids \in [Lanes -> Seq(Stories)] /\ D.count \in [Lanes -> Nat]
  /\ \A i \in DOMAIN drags : drags[i].step \in {"listed", "done", "failed"}
  /\ saves \in Nat
  /\ home \in [Stories -> Lanes \cup {NoLane}]
  /\ moved \subseteq Stories
  /\ skewed \in BOOLEAN /\ crossed \in BOOLEAN /\ unset \in BOOLEAN

Init ==
  /\ \E n \in 0 .. LastLane :
       /\ lanes = 1 .. n
       /\ default = IF n = 0 THEN NoLane ELSE 1
       /\ lane \in [Stories -> lanes \cup {NoLane}]
  /\ order = [s \in Stories |-> s]
  /\ creation = NoCreation
  /\ deletions = [d \in Deletions |-> Unsent]
  /\ drags = <<>> /\ saves = 0
  /\ home = lane
  /\ moved = {} /\ skewed = FALSE /\ crossed = FALSE /\ unset = FALSE

-----------------------------------------------------------------------------
Running == {d \in Deletions : deletions[d].step \notin {"idle", "done", "failed"}}

\* The lanes whose deletion pre_delete has let pass.
Passed == {deletions[d].lane : d \in {e \in Deletions : deletions[e].step \in {"allowed", "last"}}}

\* The elements of S in the order R, each at the place that counts those before it.
Sorted(S, R) ==
  [i \in 1 .. Cardinality(S) |-> CHOOSE s \in S : i = 1 + Cardinality({t \in S : <<t, s>> \in R})]

\* order_by('kanban_order', 'id')
ByOrder == {p \in Stories \X Stories :
  order[p[1]] < order[p[2]] \/ (order[p[1]] = order[p[2]] /\ p[1] < p[2])}

InLane(l) == Sorted({s \in Stories : lane[s] = l}, ByOrder)

OnBoard(L) == Sorted(L, {p \in L \X L : p[1] < p[2]})

\* Lists one after the other.
Joined(lists) ==
  LET upTo[n \in 0 .. Len(lists)] == IF n = 0 THEN <<>> ELSE upTo[n - 1] \o lists[n]
  IN upTo[Len(lists)]

\* The lists in the order of the lanes, those of the deleted lane after those of its heir.  A lane
\* that is its own heir is popped with all its stories.
Flat(D, listed) ==
  Joined([n \in DOMAIN D.keys |->
    CASE D.keys[n] = D.lane -> <<>>
      [] D.keys[n] = D.to /\ D.to # D.lane -> listed[D.to] \o listed[D.lane]
      [] OTHER -> listed[D.keys[n]]])

\* The lane that each story of the lists is to have.
Targets_HeirLast(D) == [l \in Lanes |-> [i \in 1 .. D.count[l] |-> l]]

Targets(D) == [l \in Lanes |-> [i \in 1 .. D.count[l] |-> IF l = D.lane THEN D.to ELSE l]]

\* The stories, each with the lane it is to have: two lists zipped, the longer one cut off.
Pairs(D) ==
  LET uss == D.none \o Flat(D, D.ids)
      target == [i \in 1 .. Len(D.none) |-> NoLane] \o Flat(D, Targets(D))
      size == IF Len(uss) < Len(target) THEN Len(uss) ELSE Len(target)
  IN [i \in 1 .. size |-> [story |-> uss[i], lane |-> target[i]]]

\* The stories that the UPDATE of a deletion has written and locked until it commits.
Held == UNION {{Pairs(deletions[d])[i].story : i \in DOMAIN Pairs(deletions[d])} :
                d \in {e \in Deletions : deletions[e].step = "allowed"}}

\* The bound.
MayAsk == saves + Len(drags) + Cardinality({d \in Deletions : deletions[d].step # "idle"}) < MaxRequests

-----------------------------------------------------------------------------
(* A lane is created: inserted, made the default if it is the only one...  *)

InsertLane(l) ==
  /\ creation = NoCreation
  /\ \A k \in Lanes :
       (k < l) <=> (k \in lanes \/ \E d \in Deletions : deletions[d].lane = k)
  /\ lanes' = lanes \cup {l}
  /\ creation' = [lane |-> l, step |-> "inserted"]
  /\ crossed' = (crossed \/ default \in Passed)
  /\ UNCHANGED <<default, lane, order, deletions, drags, saves, home, moved, skewed, unset>>

SetDefault(l) ==
  /\ creation.step = "inserted" /\ creation.lane = l
  /\ default' = IF lanes = {l} THEN l ELSE default
  /\ unset' = IF lanes = {l} THEN FALSE ELSE unset
  /\ creation' = [creation EXCEPT !.step = "counted"]
  /\ UNCHANGED <<lanes, lane, order, deletions, drags, saves, home, moved, skewed, crossed>>

\* ... in which case it takes in all stories.
TakeAll(l) ==
  /\ creation.step = "counted" /\ creation.lane = l
  /\ lanes = {l} => Held = {}
  /\ lane' = IF lanes = {l} THEN [s \in Stories |-> l] ELSE lane
  /\ home' = IF lanes = {l} THEN [s \in Stories |-> l] ELSE home
  /\ creation' = NoCreation
  /\ UNCHANGED <<lanes, default, order, deletions, drags, saves, moved, skewed, crossed, unset>>

-----------------------------------------------------------------------------
\* The project is edited, or saved by a request that loaded it earlier: all columns are written,
\* the default too.  The foreign key refuses a lane that is gone.
SaveProject(v) ==
  /\ MayAsk
  /\ v \in lanes \cup {NoLane}
  /\ saves' = saves + 1
  /\ default' = v
  /\ unset' = (v = NoLane /\ lanes # {})
  /\ crossed' = (crossed \/ (v # default /\ v \in Passed))
  /\ UNCHANGED <<lanes, lane, order, creation, deletions, drags, home, moved, skewed>>

-----------------------------------------------------------------------------
(* A lane is deleted, its stories moved to another one.                    *)

Set(d, record) == deletions' = [deletions EXCEPT ![d] = record]

\* With one lane left its stories go to none.  That the heir is another lane is not checked.
Delete(d, l, to) ==
  /\ MayAsk /\ deletions[d].step = "idle"
  /\ l \in lanes /\ creation.lane # l
  /\ \/ to \in lanes /\ Set(d, [Unsent EXCEPT !.lane = l, !.to = to, !.step = "checked"])
     \/ to = NoLane /\ lanes = {l} /\ Set(d, [Unsent EXCEPT !.lane = l, !.step = "clear"])
  /\ UNCHANGED <<lanes, default, lane, order, creation, drags, saves, home, moved, skewed, crossed, unset>>

\* The stories without a lane, and the lanes to go through.
ListNone(d) ==
  /\ deletions[d].step = "checked"
  /\ Set(d, [deletions[d] EXCEPT !.none = InLane(NoLane), !.todo = OnBoard(lanes),
                                 !.keys = OnBoard(lanes), !.step = "list"])
  /\ UNCHANGED <<lanes, default, lane, order, creation, drags, saves, home, moved, skewed, crossed, unset>>

ListLane(d) ==
  /\ deletions[d].step = "list" /\ deletions[d].todo # <<>>
  /\ LET l == Head(deletions[d].todo) IN
     Set(d, [deletions[d] EXCEPT !.ids[l] = InLane(l), !.step = "count"])
  /\ UNCHANGED <<lanes, default, lane, order, creation, drags, saves, home, moved, skewed, crossed, unset>>

CountLane(d) ==
  /\ deletions[d].step = "count"
  /\ LET l == Head(deletions[d].todo) IN
     Set(d, [deletions[d] EXCEPT !.count[l] = Len(InLane(l)), !.todo = Tail(@), !.step = "list"])
  /\ UNCHANGED <<lanes, default, lane, order, creation, drags, saves, home, moved, skewed, crossed, unset>>

\* Where its stories are to be: a lane that is its own heir leaves them to none.
HeirOf(D) == IF D.to = D.lane THEN NoLane ELSE D.to

\* The lane goes: what is in it still goes to none, and so does the default.
DeleteLane(d, assigned, placed) ==
  LET l == deletions[d].lane IN
  /\ lanes' = lanes \ {l}
  /\ default' = IF default = l THEN NoLane ELSE default
  /\ lane' = [s \in Stories |-> IF assigned[s] = l THEN NoLane ELSE assigned[s]]
  /\ order' = placed
  /\ home' = [s \in Stories |-> IF home[s] = l THEN HeirOf(deletions[d]) ELSE home[s]]
  /\ Set(d, [deletions[d] EXCEPT !.step = "done", !.none = <<>>, !.keys = <<>>,
                                 !.ids = Unsent.ids, !.count = Unsent.count])

\* UPDATE ... FROM (VALUES ...) waits for the rows that another deletion has locked.  Then
\* pre_delete refuses the default when it is not the only lane.  The request fails as well when
\* the lane is gone, or the heir was when the lanes were listed.
Allow(d) ==
  LET D == deletions[d]
      pairs == Pairs(D)
      refused == \/ default = D.lane /\ lanes # {D.lane}
                 \/ D.lane \notin lanes
                 \/ ~ Contains(D.keys, D.to)
  IN
  /\ D.step = "list" /\ D.todo = <<>>
  /\ \A i \in DOMAIN pairs : pairs[i].story \notin Held
  /\ Set(d, IF refused THEN [Unsent EXCEPT !.lane = D.lane, !.step = "failed"]
            ELSE [D EXCEPT !.step = "allowed"])
  /\ UNCHANGED <<lanes, default, lane, order, creation, drags, saves, home, moved, skewed, crossed, unset>>

\* A lane of the pairs is gone: the foreign key rolls the transaction back as it commits.
Refused(d) ==
  LET pairs == Pairs(deletions[d])
  IN \E i \in DOMAIN pairs : pairs[i].lane \notin lanes \cup {NoLane}

\* The lane is deleted and the transaction commits, with the pairs that the UPDATE wrote: of a
\* story that is in them twice either one.
MoveAndRemove(d) ==
  LET pairs == Pairs(deletions[d])
      listed == {pairs[i].story : i \in DOMAIN pairs}
  IN
  /\ deletions[d].step = "allowed"
  /\ IF Refused(d)
     THEN /\ Set(d, [Unsent EXCEPT !.lane = deletions[d].lane, !.step = "failed"])
          /\ UNCHANGED <<lanes, default, lane, order, home>>
     ELSE \E pick \in [listed -> DOMAIN pairs] :
            /\ \A s \in listed : pairs[pick[s]].story = s
            /\ DeleteLane(d, [s \in Stories |-> IF s \in listed THEN pairs[pick[s]].lane ELSE lane[s]],
                         [s \in Stories |-> IF s \in listed THEN pick[s] - 1 ELSE order[s]])
  /\ skewed' = (skewed \/ (deletions'[d].step = "done" /\ Running # {d}))
  /\ UNCHANGED <<creation, drags, saves, moved, crossed, unset>>

CheckLast_NotTheDefault(d) ==
  /\ deletions[d].step = "clear"
  /\ \A s \in Held : lane[s] # deletions[d].lane
  /\ Set(d, [deletions[d] EXCEPT !.step = "last"])
  /\ UNCHANGED <<lanes, default, lane, order, creation, drags, saves, home, moved, skewed, crossed, unset>>

\* The last lane: pre_delete refuses it when it is the default and no longer alone...
CheckLast(d) ==
  LET refused == default = deletions[d].lane /\ lanes # {default} IN
  /\ deletions[d].step = "clear"
  /\ \A s \in Held : lane[s] # deletions[d].lane
  /\ Set(d, [deletions[d] EXCEPT !.step = IF refused THEN "failed" ELSE "last"])
  /\ UNCHANGED <<lanes, default, lane, order, creation, drags, saves, home, moved, skewed, crossed, unset>>

\* ... and its stories, those that a drag brought meanwhile too, go to none with it.
RemoveLast(d) ==
  /\ deletions[d].step = "last"
  /\ \A s \in Held : lane[s] # deletions[d].lane
  /\ IF deletions[d].lane \in lanes THEN DeleteLane(d, lane, order)
     ELSE /\ Set(d, [deletions[d] EXCEPT !.step = "failed"])
          /\ UNCHANGED <<lanes, default, lane, order, home>>
  /\ skewed' = (skewed \/ (deletions'[d].step = "done" /\ Running # {d}))
  /\ UNCHANGED <<creation, drags, saves, moved, crossed, unset>>

-----------------------------------------------------------------------------
(* A story is dragged to the top of a lane (KanbanBoard has the statements *)
(* and the other places of a drag).                                        *)

Drag(s, l) ==
  /\ MayAsk
  /\ l \in lanes /\ l # lane[s]
  /\ drags' = Append(drags, [story |-> s, lane |-> l, step |-> "listed",
                             ids |-> <<s>> \o InLane(l)])
  /\ UNCHANGED <<lanes, default, lane, order, creation, deletions, saves, home, moved, skewed, crossed, unset>>

\* The positions are written first: they stay when the lane is gone and the story cannot follow.
Drop(i) ==
  LET s == drags[i].story
      ids == drags[i].ids
      l == drags[i].lane
      fits == l \in lanes
  IN
  /\ drags[i].step = "listed"
  /\ ToSet(ids) \cap Held = {}
  /\ order' = [t \in Stories |-> IF t \in ToSet(ids) THEN CHOOSE k \in DOMAIN ids : ids[k] = t
                                 ELSE order[t]]
  /\ lane' = [lane EXCEPT ![s] = IF fits THEN l ELSE @]
  /\ home' = [home EXCEPT ![s] = IF fits THEN l ELSE @]
  /\ drags' = [drags EXCEPT ![i].step = IF fits THEN "done" ELSE "failed", ![i].ids = <<>>]
  /\ moved' = IF fits /\ (Running # {} \/ creation # NoCreation) THEN moved \cup {s} ELSE moved
  /\ skewed' = (skewed \/ (fits /\ \E d \in Running : deletions[d].step = "count"))
  /\ UNCHANGED <<lanes, default, creation, deletions, saves, crossed, unset>>

-----------------------------------------------------------------------------
Next ==
  \/ \E l \in Lanes : InsertLane(l) \/ SetDefault(l) \/ TakeAll(l)
  \/ \E d \in Deletions :
       \/ \E l \in Lanes, to \in Lanes \cup {NoLane} : Delete(d, l, to)
       \/ ListNone(d) \/ ListLane(d) \/ CountLane(d) \/ Allow(d) \/ MoveAndRemove(d)
       \/ CheckLast(d) \/ RemoveLast(d)
  \/ \E v \in Lanes \cup {NoLane} : SaveProject(v)
  \/ \E s \in Stories, l \in Lanes : Drag(s, l)
  \/ \E i \in DOMAIN drags : Drop(i)

Spec == Init /\ [][Next]_vars

-----------------------------------------------------------------------------
\* update_order_and_swimlane pairs every story with its lane: a deletion leaves a story that
\* nobody dragged meanwhile in the lane it was in, or in the heir of the deleted one, and in none
\* only if the deleted lane was given as its own heir or was the last one.  Unless a drag ended
\* between the list of a lane and its count, or another deletion meanwhile: then the pairs are
\* shifted and stories land in lanes that nobody put them in, or the heir is gone as well.
StoriesKeepLane ==
  ~ skewed => \A s \in Stories \ moved : lane[s] = home[s]

\* With lanes on the board new stories have a default to go to: the first lane becomes it, and
\* it is not deleted as long as there are others.  Unless the last save of the project that wrote
\* the default emptied it; or a lane was created, or another one made the default, when the
\* deletion of the default had already been allowed.
DefaultLane ==
  (lanes # {} /\ default = NoLane) => crossed \/ creation # NoCreation \/ unset

=============================================================================

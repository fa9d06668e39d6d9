---------------------------- MODULE SprintRaceProofs ----------------------------
(***************************************************************************)
(* Theorems about SprintRace: requests that do not overlap on a sprint     *)
(* leave its flag right, and those that save one item do not deadlock.     *)
(***************************************************************************)
EXTENDS SprintRace, FiniteSetTheorems, TLAPS

Elements(s) == {s[k] : k \in DOMAIN s}

Mine(r) == Elements(Batch[r])

Steps == {"ready", "save", "load", "stories", "tasks", "issues", "count", "write", "commit",
          "answered", "failed"}

Calculating == {"load", "stories", "tasks", "issues", "count", "write"}

Orders == [item : Items, row : Rows]

(***************************************************************************)
(* The strengthening.                                                      *)
(***************************************************************************)
TypeInv ==
  /\ items \in [Items -> Rows]
  /\ closed \in [Milestones -> BOOLEAN]
  /\ holder \in [Milestones -> Requests \cup {NoOne}]
  /\ pc \in [Requests -> Steps]
  /\ todo \in [Requests -> Seq(Orders)]
  /\ sprints \in [Requests -> Seq(Milestones)]
  /\ written \in [Requests -> [Items -> Rows \cup {Untouched}]]
  /\ flags \in [Requests -> [Milestones -> BOOLEAN \cup {Untouched}]]
  /\ loaded \in [Requests -> BOOLEAN]
  /\ verdict \in [Requests -> BOOLEAN]
  /\ touched \in [Requests -> SUBSET Milestones]
  /\ shared \in [Requests -> SUBSET Milestones]

\* What a request has left to do at each of its steps.
StepInv(r) ==
  /\ pc[r] = "ready" =>
       /\ sprints[r] = <<>> /\ \A i \in Items : written[r][i] = Untouched
       /\ \A m \in Milestones : flags[r][m] = Untouched
  /\ pc[r] = "save" => sprints[r] = <<>> /\ todo[r] # <<>>
  /\ pc[r] \in Calculating => sprints[r] # <<>>
  /\ pc[r] = "commit" => sprints[r] = <<>> /\ todo[r] = <<>>

\* A request writes its own items, each once, and stays within the sprints it touches.
ItemsInv(r) ==
  /\ \A i \in Items : written[r][i] # Untouched =>
       i \in Mine(r) /\ written[r][i].milestone \in touched[r] /\ items[i].milestone \in touched[r]
  /\ \A s \in Elements(todo[r]) :
       /\ s.item \in Mine(r) /\ written[r][s.item] = Untouched
       /\ items[s.item].milestone \in touched[r] /\ s.row.milestone \in touched[r]
  /\ \A j, k \in DOMAIN todo[r] : todo[r][j].item = todo[r][k].item => j = k

SprintsInv(r) ==
  /\ Elements(sprints[r]) \subseteq touched[r]
  /\ \A m \in Milestones : flags[r][m] # Untouched => m \in touched[r]

\* The sprints of which nobody else commits a change while the request runs.
Stable(r) == touched[r] \ (shared[r] \cap contended)

CompleteFor(r, m) ==
  /\ \E i \in Items : Row(r, i).milestone = m
  /\ \A i \in Items : Row(r, i).milestone = m => Row(r, i).done

DoneIn(r, table, m) == \A i \in table : Row(r, i).milestone = m => Row(r, i).done

\* The calculation of a stable sprint is as far as it says: what it read has not changed.
VerdictInv(r) ==
  \A m \in Stable(r) : pc[r] \in Calculating /\ Head(sprints[r]) = m =>
    /\ pc[r] # "load" => (loaded[r] <=> Closed(r, m))
    /\ pc[r] = "stories" => verdict[r]
    /\ pc[r] = "tasks" => (verdict[r] <=> DoneIn(r, Stories, m))
    /\ pc[r] = "issues" => (verdict[r] <=> DoneIn(r, Stories, m) /\ DoneIn(r, LooseTasks, m))
    /\ pc[r] = "count" => (verdict[r] <=> DoneIn(r, Items, m))
    /\ pc[r] = "write" => (verdict[r] <=> CompleteFor(r, m))

\* A sprint that is still going to be recalculated.
Due(r, m) ==
  \/ m \in Elements(sprints[r])
  \/ \E s \in Elements(todo[r]) : s.row.milestone = m \/ items[s.item].milestone = m

\* For the request itself every stable sprint is right, or is going to be recalculated.
RightInv(r) == \A m \in Stable(r) : Due(r, m) \/ (Closed(r, m) <=> CompleteFor(r, m))

\* A request holds the rows of the sprints whose flags it has written.
HolderInv(r) ==
  \A m \in Milestones : holder[m] = r <=> r \in Running /\ flags[r][m] # Untouched

\* It has written a flag because of an item it saved, and no open item of another request was in
\* the way.
HeldInv(r) ==
  \A m \in Milestones \ contended : holder[m] = r =>
    /\ \A i \in Items \ Mine(r) : items[i].milestone = m => items[i].done
    /\ \E i \in Items : written[r][i] # Untouched /\ m \in {items[i].milestone, written[r][i].milestone}

\* It moves its items to one sprint, or leaves them where they are.
MovesTo(r, m) ==
  /\ \A i \in Items : written[r][i] # Untouched =>
       written[r][i].milestone = m /\ written[r][i].done = items[i].done
  /\ \A s \in Elements(todo[r]) : s.row.milestone = m /\ s.row.done = items[s.item].done

Turns(r) ==
  /\ \A i \in Items : written[r][i] # Untouched => written[r][i].milestone = items[i].milestone
  /\ \A s \in Elements(todo[r]) : s.row.milestone = items[s.item].milestone

KindInv(r) == Turns(r) \/ \E m \in Milestones : MovesTo(r, m)

\* A request that saves one item comes to the sprint the item was in last.
OrderInv(r) ==
  Len(Batch[r]) = 1 =>
    /\ pc[r] = "save" => Len(todo[r]) = 1 /\ \A m \in Milestones : flags[r][m] = Untouched
    /\ pc[r] \in Calculating =>
         /\ todo[r] = <<>> /\ Len(sprints[r]) \in {1, 2}
         /\ sprints[r][Len(sprints[r])] = items[Batch[r][1]].milestone
         /\ Len(sprints[r]) = 2 => \A m \in Milestones : flags[r][m] = Untouched
         /\ \A m \in Milestones \ contended :
              flags[r][m] # Untouched => (CompleteFor(r, m) <=> ~ Complete(m))

RequestInv(r) ==
  /\ StepInv(r) /\ HolderInv(r)
  /\ r \in Running =>
       /\ ItemsInv(r) /\ SprintsInv(r) /\ VerdictInv(r) /\ RightInv(r)
       /\ HeldInv(r) /\ KindInv(r) /\ OrderInv(r)

\* Two requests at work share what both touch.
OverlapInv ==
  \A q, r \in Requests : q \in Running /\ r \in Running /\ q # r => touched[q] \cap touched[r] \subseteq shared[r]

FlagsInv == \A m \in Milestones \ contended : closed[m] <=> Complete(m)

RaceInv == TypeInv /\ (\A r \in Requests : RequestInv(r)) /\ OverlapInv /\ FlagsInv

(***************************************************************************)
(* Sequences.                                                              *)
(***************************************************************************)
LEMMA HeadAndTail ==
  ASSUME NEW S, NEW s \in Seq(S), s # <<>>
  PROVE  /\ Head(s) \in S /\ Tail(s) \in Seq(S) /\ Elements(s) \subseteq S
         /\ Elements(s) = {Head(s)} \cup Elements(Tail(s))
         /\ Len(s) = 1 => Tail(s) = <<>>
         /\ Len(s) > 1 => Tail(s) # <<>>
         /\ Len(s) >= 1
<1>1. Len(s) \in Nat /\ Len(s) >= 1 /\ DOMAIN s = 1 .. Len(s) /\ \A k \in 1 .. Len(s) : s[k] \in S
  OBVIOUS
<1>2. /\ Tail(s) \in Seq(S) /\ Len(Tail(s)) = Len(s) - 1 /\ DOMAIN Tail(s) = 1 .. (Len(s) - 1)
      /\ \A k \in 1 .. (Len(s) - 1) : Tail(s)[k] = s[k + 1]
  BY <1>1
<1>3. Head(s) = s[1]
  BY <1>1
<1>4. ASSUME NEW e \in Elements(s) PROVE e = Head(s) \/ e \in Elements(Tail(s))
  <2>1. PICK k \in 1 .. Len(s) : e = s[k]
    BY <1>1, <1>4 DEF Elements
  <2>2. CASE k = 1
    BY <2>1, <2>2, <1>3
  <2>3. CASE k # 1
    <3>1. k - 1 \in 1 .. (Len(s) - 1) /\ k = (k - 1) + 1
      BY <2>1, <2>3, <1>1
    <3>2. Tail(s)[k - 1] = s[k]
      BY <3>1, <1>2
    <3> QED BY <3>1, <3>2, <2>1, <1>2 DEF Elements
  <2> QED BY <2>2, <2>3
<1>5. ASSUME NEW e \in Elements(Tail(s)) PROVE e \in Elements(s)
  <2>1. PICK k \in 1 .. (Len(s) - 1) : e = Tail(s)[k]
    BY <1>2, <1>5 DEF Elements
  <2>2. k + 1 \in 1 .. Len(s) /\ e = s[k + 1]
    BY <2>1, <1>1, <1>2
  <2> QED BY <2>2, <1>1 DEF Elements
<1>6. Head(s) \in Elements(s) /\ Elements(s) \subseteq S
  BY <1>1, <1>3 DEF Elements
<1> QED BY <1>1, <1>2, <1>4, <1>5, <1>6

LEMMA NoElements == Elements(<<>>) = {}
BY DEF Elements

LEMMA NothingInIt ==
  ASSUME NEW S, NEW s \in Seq(S)
  PROVE  /\ s = <<>> <=> Len(s) = 0
         /\ Elements(s) \subseteq S
BY DEF Elements

LEMMA OneOrTwo ==
  ASSUME NEW S, NEW s \in Seq(S), NEW a, NEW b,
         (a = b /\ Len(s) = 1 /\ s[1] = a) \/ (Len(s) = 2 /\ s[1] = a /\ s[2] = b)
  PROVE  /\ s # <<>> /\ Elements(s) = {a, b}
         /\ Len(s) \in {1, 2} /\ s[Len(s)] = b
<1>1. DOMAIN s = 1 .. Len(s)
  OBVIOUS
<1>2. CASE a = b /\ Len(s) = 1 /\ s[1] = a
  BY <1>1, <1>2 DEF Elements
<1>3. CASE Len(s) = 2 /\ s[1] = a /\ s[2] = b
  <2>1. ASSUME NEW e \in Elements(s) PROVE e \in {a, b}
    BY <1>1, <1>3, <2>1 DEF Elements
  <2>2. a \in Elements(s) /\ b \in Elements(s)
    BY <1>1, <1>3 DEF Elements
  <2> QED BY <1>3, <2>1, <2>2
<1> QED BY <1>2, <1>3

LEMMA EarlierAreOthers ==
  ASSUME NEW S, NEW s \in Seq(S), s # <<>>, \A j, k \in DOMAIN s : s[j].item = s[k].item => j = k
  PROVE  /\ \A j, k \in DOMAIN Tail(s) : Tail(s)[j].item = Tail(s)[k].item => j = k
         /\ \A e \in Elements(Tail(s)) : e.item # Head(s).item
<1>1. Len(s) \in Nat /\ Len(s) >= 1 /\ DOMAIN s = 1 .. Len(s)
  OBVIOUS
<1>2. /\ DOMAIN Tail(s) = 1 .. (Len(s) - 1)
      /\ \A k \in 1 .. (Len(s) - 1) : Tail(s)[k] = s[k + 1]
  BY <1>1
<1>3. Head(s) = s[1]
  BY <1>1
<1>4. ASSUME NEW j \in DOMAIN Tail(s), NEW k \in DOMAIN Tail(s), Tail(s)[j].item = Tail(s)[k].item
      PROVE  j = k
  <2>1. j + 1 \in 1 .. Len(s) /\ k + 1 \in 1 .. Len(s) /\ s[j + 1].item = s[k + 1].item
    BY <1>1, <1>2, <1>4
  <2>2. j + 1 = k + 1
    BY <2>1, <1>1
  <2> QED BY <2>2, <1>2, <1>1
<1>5. ASSUME NEW e \in Elements(Tail(s)), e.item = Head(s).item
      PROVE  FALSE
  <2>1. PICK k \in 1 .. (Len(s) - 1) : e = Tail(s)[k]
    BY <1>2, <1>5 DEF Elements
  <2>2. k + 1 \in DOMAIN s /\ 1 \in DOMAIN s /\ s[k + 1].item = s[1].item /\ k + 1 # 1
    BY <2>1, <1>1, <1>2, <1>3, <1>5
  <2> QED BY <2>2
<1> QED BY <1>4, <1>5

(***************************************************************************)
(* What a request may set out to save.                                     *)
(***************************************************************************)
LEMMA SavesAreOwn ==
  ASSUME TypeInv, NEW r \in Requests, NEW s \in Saves(r)
  PROVE  /\ DOMAIN s = DOMAIN Batch[r]
         /\ \A k \in DOMAIN s : s[k].item = Batch[r][k] /\ s[k] \in Orders
         /\ s \in Seq(Orders) /\ s # <<>> /\ Len(s) = Len(Batch[r])
         /\ \/ \A k \in DOMAIN s : s[k].row.milestone = items[s[k].item].milestone
            \/ \E m \in Milestones : \A k \in DOMAIN s :
                 s[k].row.milestone = m /\ s[k].row.done = items[s[k].item].done
<1>1. Batch[r] \in Seq(Items) /\ Batch[r] # <<>> /\ \A k \in DOMAIN Batch[r] : Batch[r][k] \in Items
  BY BatchAssumption
<1>2. /\ DOMAIN s = DOMAIN Batch[r]
      /\ \A k \in DOMAIN s : s[k].item = Batch[r][k] /\ s[k] \in Orders
      /\ \/ \A k \in DOMAIN s : s[k].row.milestone = items[s[k].item].milestone
         \/ \E m \in Milestones : \A k \in DOMAIN s :
              s[k].row.milestone = m /\ s[k].row.done = items[s[k].item].done
  <2>1. ASSUME NEW i \in Items
        PROVE  /\ \A m \in Targets : LET row == [items[i] EXCEPT !.milestone = m]
                                     IN row \in Rows /\ row.milestone = m /\ row.done = items[i].done
               /\ \A d \in BOOLEAN : LET row == [items[i] EXCEPT !.done = d]
                                     IN row \in Rows /\ row.milestone = items[i].milestone
    <3>1. items[i] \in Rows
      BY DEF TypeInv
    <3>2. Targets \subseteq Milestones
      BY MilestonesAssumption
    <3>3. \A m \in Milestones : LET row == [items[i] EXCEPT !.milestone = m]
                              IN row \in Rows /\ row.milestone = m /\ row.done = items[i].done
      BY <3>1 DEF Rows
    <3>4. \A d \in BOOLEAN : LET row == [items[i] EXCEPT !.done = d]
                            IN row \in Rows /\ row.milestone = items[i].milestone
      BY <3>1 DEF Rows
    <3> QED BY <3>2, <3>3, <3>4
  <2>2. CASE \E m \in Targets : s = [k \in DOMAIN Batch[r] |->
              [item |-> Batch[r][k], row |-> [items[Batch[r][k]] EXCEPT !.milestone = m]]]
    <3>1. PICK m \in Targets : s = [k \in DOMAIN Batch[r] |->
              [item |-> Batch[r][k], row |-> [items[Batch[r][k]] EXCEPT !.milestone = m]]]
      BY <2>2
    <3>2. ASSUME NEW k \in DOMAIN Batch[r]
          PROVE  s[k] = [item |-> Batch[r][k], row |-> [items[Batch[r][k]] EXCEPT !.milestone = m]]
      BY <3>1
    <3>3. m \in Milestones
      BY MilestonesAssumption
    <3>4. ASSUME NEW k \in DOMAIN Batch[r]
          PROVE  /\ s[k].item = Batch[r][k] /\ s[k] \in Orders
                 /\ s[k].row.milestone = m /\ s[k].row.done = items[s[k].item].done
      <4> DEFINE row == [items[Batch[r][k]] EXCEPT !.milestone = m]
      <4>1. Batch[r][k] \in Items
        BY <1>1
      <4>2. row \in Rows /\ row.milestone = m /\ row.done = items[Batch[r][k]].done
        BY <4>1, <2>1
      <4>3. s[k] = [item |-> Batch[r][k], row |-> row]
        BY <3>2
      <4> HIDE DEF row
      <4>4. s[k].item = Batch[r][k] /\ s[k].row = row
        BY <4>3
      <4>5. s[k] \in Orders
        BY <4>1, <4>2, <4>3 DEF Orders
      <4> QED BY <4>2, <4>4, <4>5
    <3>5. DOMAIN s = DOMAIN Batch[r]
      BY <3>1
    <3> QED BY <3>3, <3>4, <3>5
  <2>3. CASE \E d \in BOOLEAN : s = [k \in DOMAIN Batch[r] |->
              [item |-> Batch[r][k], row |-> [items[Batch[r][k]] EXCEPT !.done = d]]]
    <3>1. PICK d \in BOOLEAN : s = [k \in DOMAIN Batch[r] |->
              [item |-> Batch[r][k], row |-> [items[Batch[r][k]] EXCEPT !.done = d]]]
      BY <2>3
    <3>2. ASSUME NEW k \in DOMAIN Batch[r]
          PROVE  s[k] = [item |-> Batch[r][k], row |-> [items[Batch[r][k]] EXCEPT !.done = d]]
      BY <3>1
    <3>3. ASSUME NEW k \in DOMAIN Batch[r]
          PROVE  /\ s[k].item = Batch[r][k] /\ s[k] \in Orders
                 /\ s[k].row.milestone = items[s[k].item].milestone
      <4> DEFINE row == [items[Batch[r][k]] EXCEPT !.done = d]
      <4>1. Batch[r][k] \in Items
        BY <1>1
      <4>2. row \in Rows /\ row.milestone = items[Batch[r][k]].milestone
        BY <4>1, <2>1
      <4>3. s[k] = [item |-> Batch[r][k], row |-> row]
        BY <3>2
      <4> HIDE DEF row
      <4>4. s[k].item = Batch[r][k] /\ s[k].row = row
        BY <4>3
      <4>5. s[k] \in Orders
        BY <4>1, <4>2, <4>3 DEF Orders
      <4> QED BY <4>2, <4>4, <4>5
    <3>4. DOMAIN s = DOMAIN Batch[r]
      BY <3>1
    <3> QED BY <3>3, <3>4
  <2> QED BY <2>2, <2>3 DEF Saves
<1>3. DOMAIN s = 1 .. Len(Batch[r]) /\ Len(Batch[r]) \in Nat
  BY <1>1, <1>2
<1>4. s = [k \in 1 .. Len(Batch[r]) |-> s[k]]
  <2>1. s = [k \in DOMAIN s |-> s[k]]
    BY DEF Saves
  <2> QED BY <2>1, <1>3
<1>5. s \in [1 .. Len(Batch[r]) -> Orders]
  BY <1>2, <1>3, <1>4
<1>6. s \in Seq(Orders)
  BY <1>3, <1>5
<1>7. s # <<>>
  BY <1>1, <1>2
<1>8. Len(s) = Len(Batch[r])
  BY <1>3, <1>6
<1> QED BY <1>2, <1>6, <1>7, <1>8

LEMMA InitRace == Init => RaceInv
<1> SUFFICES ASSUME Init PROVE RaceInv
  OBVIOUS
<1>1. TypeInv
  <2>1. \A m \in Milestones : closed[m] \in BOOLEAN
    BY DEF Init, Complete
  <2>2. closed \in [Milestones -> BOOLEAN]
    BY <2>1 DEF Init
  <2>3. <<>> \in Seq(Orders) /\ <<>> \in Seq(Milestones)
    OBVIOUS
  <2> QED BY <2>2, <2>3 DEF Init, TypeInv, Steps
<1>2. ASSUME NEW r \in Requests PROVE RequestInv(r)
  <2>1. r # NoOne
    BY NoOneAssumption
  <2> QED BY <2>1 DEF Init, RequestInv, StepInv, HolderInv, Running, Calculating
<1>3. OverlapInv
  BY DEF Init, OverlapInv, Running
<1>4. ASSUME NEW m \in Milestones \ contended PROVE closed[m] <=> Complete(m)
  BY DEF Init
<1> QED BY <1>1, <1>2, <1>3, <1>4 DEF RaceInv, FlagsInv

(***************************************************************************)
(* What a request knows while others go on.                                *)
(***************************************************************************)
LEMMA OthersKeep ==
  ASSUME NEW q \in Requests, RequestInv(q), items' = items, closed' = closed, contended' = contended,
         \A m \in Milestones : holder'[m] = q <=> holder[m] = q,
         pc'[q] = pc[q], todo'[q] = todo[q], sprints'[q] = sprints[q], written'[q] = written[q],
         flags'[q] = flags[q], loaded'[q] = loaded[q], verdict'[q] = verdict[q],
         touched'[q] = touched[q], shared[q] \subseteq shared'[q]
  PROVE  RequestInv(q)'
<1>1. /\ \A i : Row(q, i)' = Row(q, i)
      /\ \A m : Closed(q, m)' = Closed(q, m)
  BY DEF Row, Closed
<1>2. /\ \A m : CompleteFor(q, m)' <=> CompleteFor(q, m)
      /\ \A m, table : DoneIn(q, table, m)' <=> DoneIn(q, table, m)
      /\ \A m : Complete(m)' <=> Complete(m)
  BY <1>1 DEF CompleteFor, DoneIn, Complete
<1>3. \A m : Due(q, m)' <=> Due(q, m)
  BY DEF Due
<1>4. (q \in Running)' <=> q \in Running
  BY DEF Running
<1>5. Stable(q)' \subseteq Stable(q)
  BY DEF Stable
<1>6. StepInv(q)'
  BY DEF RequestInv, StepInv
<1>7. HolderInv(q)'
  BY <1>4 DEF RequestInv, HolderInv
<1> SUFFICES ASSUME q \in Running
             PROVE  /\ ItemsInv(q)' /\ SprintsInv(q)' /\ VerdictInv(q)' /\ RightInv(q)'
                    /\ HeldInv(q)' /\ KindInv(q)' /\ OrderInv(q)'
  BY <1>4, <1>6, <1>7 DEF RequestInv
<1>8. ItemsInv(q) /\ SprintsInv(q) /\ VerdictInv(q) /\ RightInv(q) /\ HeldInv(q) /\ KindInv(q) /\ OrderInv(q)
  BY DEF RequestInv
<1>9. ItemsInv(q)' /\ SprintsInv(q)'
  BY <1>8 DEF ItemsInv, SprintsInv
<1>10. VerdictInv(q)'
  BY <1>8, <1>1, <1>2, <1>5 DEF VerdictInv
<1>11. RightInv(q)'
  BY <1>8, <1>1, <1>2, <1>3, <1>5 DEF RightInv
<1>12. HeldInv(q)'
  BY <1>8 DEF HeldInv, Mine
<1>13. KindInv(q)'
  BY <1>8 DEF KindInv, Turns, MovesTo
<1>14. OrderInv(q)'
  BY <1>8, <1>2 DEF OrderInv
<1> QED BY <1>9, <1>10, <1>11, <1>12, <1>13, <1>14

\* A step within a transaction.
LEMMA LocalStep ==
  ASSUME RaceInv, NEW r \in Requests, r \in Running, TypeInv', UNCHANGED <<items, closed, overlap>>,
         \A q \in Requests \ {r} :
           /\ pc'[q] = pc[q] /\ todo'[q] = todo[q] /\ sprints'[q] = sprints[q]
           /\ written'[q] = written[q] /\ flags'[q] = flags[q]
           /\ loaded'[q] = loaded[q] /\ verdict'[q] = verdict[q]
           /\ \A m \in Milestones : holder'[m] = q <=> holder[m] = q,
         RequestInv(r)'
  PROVE  RaceInv'
<1>1. ASSUME NEW q \in Requests \ {r} PROVE RequestInv(q)'
  <2>1. RequestInv(q)
    BY DEF RaceInv
  <2> QED BY <2>1, OthersKeep DEF overlap
<1>2. OverlapInv'
  <2>1. Running' \subseteq Running
    BY DEF Running
  <2> QED BY <2>1 DEF RaceInv, OverlapInv, overlap
<1>3. FlagsInv'
  BY DEF RaceInv, FlagsInv, Complete, overlap
<1> QED BY <1>1, <1>2, <1>3 DEF RaceInv

(***************************************************************************)
(* A request begins.                                                       *)
(***************************************************************************)
LEMMA StartKeeps ==
  ASSUME RaceInv, NEW r \in Requests, Start(r)
  PROVE  RaceInv'
<1>1. PICK s \in Saves(r) :
        LET mine == UNION {{items[s[k].item].milestone, s[k].row.milestone} : k \in DOMAIN s}
        IN /\ todo' = [todo EXCEPT ![r] = s]
           /\ touched' = [touched EXCEPT ![r] = mine]
           /\ shared' = [q \in Requests |->
                CASE q = r -> mine \cap UNION {touched[p] : p \in Running}
                  [] q \in Running -> shared[q] \cup (touched[q] \cap mine)
                  [] OTHER -> shared[q]]
  BY DEF Start
<1> DEFINE mine == UNION {{items[s[k].item].milestone, s[k].row.milestone} : k \in DOMAIN s}
<1>2. /\ todo' = [todo EXCEPT ![r] = s]
      /\ touched' = [touched EXCEPT ![r] = mine]
      /\ shared' = [q \in Requests |->
           CASE q = r -> mine \cap UNION {touched[p] : p \in Running}
             [] q \in Running -> shared[q] \cup (touched[q] \cap mine)
             [] OTHER -> shared[q]]
  BY <1>1
<1>3. /\ pc[r] = "ready" /\ pc' = [pc EXCEPT ![r] = "save"]
      /\ UNCHANGED <<items, closed, holder, written, flags, sprints, loaded, verdict, contended>>
  BY DEF Start, db
<1>4. TypeInv
  BY DEF RaceInv
<1>5. /\ DOMAIN s = DOMAIN Batch[r] /\ s \in Seq(Orders) /\ s # <<>>
      /\ \A k \in DOMAIN s : s[k].item = Batch[r][k] /\ s[k] \in Orders
      /\ Len(s) = Len(Batch[r])
      /\ \/ \A k \in DOMAIN s : s[k].row.milestone = items[s[k].item].milestone
         \/ \E m \in Milestones : \A k \in DOMAIN s :
              s[k].row.milestone = m /\ s[k].row.done = items[s[k].item].done
  BY <1>4, SavesAreOwn
<1>6. \A e \in Elements(s) : {items[e.item].milestone, e.row.milestone} \subseteq mine
  BY DEF Elements
<1>7. \A m \in mine : \E e \in Elements(s) : items[e.item].milestone = m \/ e.row.milestone = m
  BY DEF Elements
<1>8. mine \subseteq Milestones
  <2>1. \A k \in DOMAIN s : items[s[k].item].milestone \in Milestones /\ s[k].row.milestone \in Milestones
    BY <1>4, <1>5 DEF TypeInv, Orders, Rows
  <2> QED BY <2>1
<1> HIDE DEF mine
<1>9. /\ todo'[r] = s /\ touched'[r] = mine /\ pc'[r] = "save"
      /\ shared'[r] = mine \cap UNION {touched[p] : p \in Running}
      /\ \A q \in Requests \ {r} :
           /\ todo'[q] = todo[q] /\ touched'[q] = touched[q] /\ pc'[q] = pc[q]
           /\ shared'[q] = IF q \in Running THEN shared[q] \cup (touched[q] \cap mine) ELSE shared[q]
  <2>1. /\ DOMAIN todo = Requests /\ DOMAIN touched = Requests /\ DOMAIN pc = Requests
    BY <1>4 DEF TypeInv
  <2>2. /\ todo'[r] = s /\ touched'[r] = mine /\ pc'[r] = "save"
        /\ \A q \in Requests \ {r} : todo'[q] = todo[q] /\ touched'[q] = touched[q] /\ pc'[q] = pc[q]
    BY <2>1, <1>2, <1>3
  <2>3. shared'[r] = mine \cap UNION {touched[p] : p \in Running}
    <3>1. r \notin Running
      BY <1>3 DEF Running
    <3> QED BY <3>1, <1>2
  <2>4. ASSUME NEW q \in Requests \ {r}
        PROVE  shared'[q] = IF q \in Running THEN shared[q] \cup (touched[q] \cap mine) ELSE shared[q]
    BY <1>2
  <2> QED BY <2>2, <2>3, <2>4
<1>10. TypeInv'
  <2>1. \A q \in Requests : shared'[q] \subseteq Milestones
    BY <1>4, <1>8, <1>9 DEF TypeInv
  <2>2. shared' \in [Requests -> SUBSET Milestones]
    BY <1>2, <2>1
  <2>3. todo' \in [Requests -> Seq(Orders)] /\ touched' \in [Requests -> SUBSET Milestones]
    BY <1>2, <1>4, <1>5, <1>8 DEF TypeInv
  <2>4. pc' \in [Requests -> Steps]
    BY <1>3, <1>4 DEF TypeInv, Steps
  <2> QED BY <1>3, <1>4, <2>2, <2>3, <2>4 DEF TypeInv
<1>11. RequestInv(r)'
  <2>1. /\ sprints[r] = <<>> /\ \A i \in Items : written[r][i] = Untouched
        /\ \A m \in Milestones : flags[r][m] = Untouched
    BY <1>3 DEF RaceInv, RequestInv, StepInv
  <2>2. StepInv(r)'
    BY <2>1, <1>3, <1>5, <1>9 DEF StepInv, Calculating
  <2>3. ItemsInv(r)'
    <3>1. \A e \in Elements(s) : e.item \in Mine(r) /\ e.item \in Items
      BY <1>5 DEF Elements, Mine, Orders
    <3>2. \A j, k \in DOMAIN s : s[j].item = s[k].item => j = k
      BY <1>5, BatchAssumption
    <3> QED BY <2>1, <3>1, <3>2, <1>3, <1>6, <1>9 DEF ItemsInv, Mine
  <2>4. SprintsInv(r)'
    BY <2>1, <1>3, NoElements DEF SprintsInv
  <2>5. VerdictInv(r)'
    BY <1>9 DEF VerdictInv, Calculating
  <2>6. RightInv(r)'
    BY <1>3, <1>7, <1>9 DEF RightInv, Due, Stable
  <2>7. HolderInv(r)' /\ HeldInv(r)'
    <3>1. \A m \in Milestones : holder[m] # r
      BY <1>3 DEF RaceInv, RequestInv, HolderInv, Running
    <3> QED BY <3>1, <2>1, <1>3 DEF HolderInv, HeldInv
  <2>8. KindInv(r)'
    <3>1. CASE \A k \in DOMAIN s : s[k].row.milestone = items[s[k].item].milestone
      <4>1. Turns(r)'
        BY <3>1, <2>1, <1>3, <1>9 DEF Turns, Elements
      <4> QED BY <4>1 DEF KindInv
    <3>2. CASE \E m \in Milestones : \A k \in DOMAIN s :
                 s[k].row.milestone = m /\ s[k].row.done = items[s[k].item].done
      <4>1. PICK m \in Milestones : \A k \in DOMAIN s :
              s[k].row.milestone = m /\ s[k].row.done = items[s[k].item].done
        BY <3>2
      <4>2. MovesTo(r, m)'
        BY <4>1, <2>1, <1>3, <1>9 DEF MovesTo, Elements
      <4> QED BY <4>2 DEF KindInv
    <3> QED BY <3>1, <3>2, <1>5
  <2>9. OrderInv(r)'
    BY <2>1, <1>3, <1>5, <1>9 DEF OrderInv, Calculating
  <2> QED BY <2>2, <2>3, <2>4, <2>5, <2>6, <2>7, <2>8, <2>9 DEF RequestInv
<1>12. ASSUME NEW q \in Requests \ {r} PROVE RequestInv(q)'
  <2>1. RequestInv(q)
    BY DEF RaceInv
  <2>2. shared[q] \subseteq shared'[q]
    BY <1>9
  <2> QED BY <2>1, <2>2, <1>3, <1>9, OthersKeep
<1>13. OverlapInv'
  <2> SUFFICES ASSUME NEW p \in Requests, NEW q \in Requests, (p \in Running)', (q \in Running)', p # q
               PROVE  touched'[p] \cap touched'[q] \subseteq shared'[q]
    BY DEF OverlapInv
  <2>1. p = r \/ p \in Running
    BY <1>9 DEF Running
  <2>2. q = r \/ q \in Running
    BY <1>9 DEF Running
  <2>3. CASE q = r
    BY <2>1, <2>3, <1>9
  <2>4. CASE q # r /\ p = r
    BY <2>2, <2>4, <1>9
  <2>5. CASE q # r /\ p # r
    <3>1. touched[p] \cap touched[q] \subseteq shared[q]
      BY <2>1, <2>2, <2>5 DEF RaceInv, OverlapInv
    <3> QED BY <3>1, <2>2, <2>5, <1>9
  <2> QED BY <2>3, <2>4, <2>5
<1>14. FlagsInv'
  BY <1>3 DEF RaceInv, FlagsInv, Complete
<1> QED BY <1>10, <1>11, <1>12, <1>13, <1>14 DEF RaceInv

(***************************************************************************)
(* A request saves an item.                                                *)
(***************************************************************************)
LEMMA SaveKeeps ==
  ASSUME RaceInv, NEW r \in Requests, Save(r)
  PROVE  RaceInv'
<1> DEFINE s == Head(todo[r])
           a == s.row.milestone
           b == Row(r, s.item).milestone
<1>1. /\ pc[r] = "save" /\ pc' = [pc EXCEPT ![r] = "load"]
      /\ written' = [written EXCEPT ![r][s.item] = s.row]
      /\ sprints' = [sprints EXCEPT ![r] = <<a>> \o IF b = a THEN <<>> ELSE <<b>>]
      /\ todo' = [todo EXCEPT ![r] = Tail(todo[r])]
      /\ UNCHANGED <<items, closed, holder, flags, loaded, verdict, overlap>>
  BY DEF Save, db
<1>2. TypeInv /\ r \in Running
  BY <1>1 DEF RaceInv, Running
<1>3. /\ sprints[r] = <<>> /\ todo[r] # <<>> /\ todo[r] \in Seq(Orders)
      /\ ItemsInv(r) /\ SprintsInv(r) /\ RightInv(r)
      /\ HolderInv(r) /\ HeldInv(r) /\ KindInv(r) /\ OrderInv(r)
  BY <1>1, <1>2 DEF RaceInv, RequestInv, StepInv, TypeInv
<1>4. /\ s \in Orders /\ Tail(todo[r]) \in Seq(Orders)
      /\ Elements(todo[r]) = {s} \cup Elements(Tail(todo[r]))
      /\ Len(todo[r]) = 1 => Tail(todo[r]) = <<>>
  BY <1>3, HeadAndTail
<1>5. /\ \A j, k \in DOMAIN Tail(todo[r]) : Tail(todo[r])[j].item = Tail(todo[r])[k].item => j = k
      /\ \A e \in Elements(Tail(todo[r])) : e.item # s.item
  <2>1. \A j, k \in DOMAIN todo[r] : todo[r][j].item = todo[r][k].item => j = k
    BY <1>3 DEF ItemsInv
  <2> QED BY <2>1, <1>3, EarlierAreOthers
<1>6. s.item \in Items /\ s.row \in Rows /\ a \in Milestones
  BY <1>4 DEF Orders, Rows
<1>7. /\ s.item \in Mine(r) /\ written[r][s.item] = Untouched /\ b = items[s.item].milestone
      /\ a \in touched[r] /\ b \in touched[r] /\ b \in Milestones
  <2>1. s \in Elements(todo[r])
    BY <1>4
  <2>2. s.item \in Mine(r) /\ written[r][s.item] = Untouched /\ a \in touched[r] /\ items[s.item].milestone \in touched[r]
    BY <2>1, <1>3 DEF ItemsInv
  <2> QED BY <2>2, <1>2, <1>6 DEF Row, TypeInv, Rows
<1> HIDE DEF s, a, b
<1>8. /\ sprints'[r] \in Seq(Milestones) /\ sprints'[r] # <<>> /\ Elements(sprints'[r]) = {a, b}
      /\ Len(sprints'[r]) \in {1, 2} /\ sprints'[r][Len(sprints'[r])] = b
  <2>1. sprints'[r] = <<a>> \o IF b = a THEN <<>> ELSE <<b>>
    BY <1>1, <1>2 DEF TypeInv
  <2>2. a \in Milestones /\ b \in Milestones
    BY <1>6, <1>7
  <2> DEFINE t == sprints'[r]
  <2>3. /\ t \in Seq(Milestones)
        /\ (a = b /\ Len(t) = 1 /\ t[1] = a) \/ (Len(t) = 2 /\ t[1] = a /\ t[2] = b)
    <3>1. CASE a = b
      <4>1. t = <<a>>
        BY <2>1, <3>1
      <4> QED BY <2>2, <3>1, <4>1
    <3>2. CASE a # b
      <4>1. t = <<a>> \o <<b>>
        BY <2>1, <3>2
      <4> HIDE DEF t
      <4> QED BY <2>2, <4>1
    <3> QED BY <3>1, <3>2
  <2> HIDE DEF t
  <2>4. t # <<>> /\ Elements(t) = {a, b} /\ Len(t) \in {1, 2} /\ t[Len(t)] = b
    BY <2>3, OneOrTwo
  <2> QED BY <2>3, <2>4 DEF t
<1>9. /\ pc'[r] = "load" /\ todo'[r] = Tail(todo[r])
      /\ written'[r] = [written[r] EXCEPT ![s.item] = s.row]
      /\ \A q \in Requests \ {r} : /\ pc'[q] = pc[q] /\ todo'[q] = todo[q] /\ sprints'[q] = sprints[q]
                                   /\ written'[q] = written[q]
  BY <1>1, <1>2 DEF TypeInv
<1>10. TypeInv'
  <2>1. pc' \in [Requests -> Steps] /\ todo' \in [Requests -> Seq(Orders)]
    BY <1>1, <1>2, <1>4 DEF TypeInv, Steps
  <2>2. sprints' \in [Requests -> Seq(Milestones)]
    BY <1>1, <1>2, <1>8 DEF TypeInv
  <2>3. written' \in [Requests -> [Items -> Rows \cup {Untouched}]]
    BY <1>1, <1>2, <1>6 DEF TypeInv
  <2> QED BY <1>1, <1>2, <2>1, <2>2, <2>3 DEF TypeInv, overlap
<1>11. StepInv(r)'
  BY <1>8, <1>9 DEF StepInv
<1>12. /\ written'[r][s.item] = s.row
       /\ \A i \in Items \ {s.item} : written'[r][i] = written[r][i]
  BY <1>2, <1>6, <1>9 DEF TypeInv
<1>13. ItemsInv(r)'
  <2>1. \A i \in Items : written'[r][i] # Untouched =>
          i \in Mine(r) /\ written'[r][i].milestone \in touched[r] /\ items[i].milestone \in touched[r]
    <3>1. ASSUME NEW i \in Items \ {s.item}, written'[r][i] # Untouched
          PROVE  i \in Mine(r) /\ written'[r][i].milestone \in touched[r] /\ items[i].milestone \in touched[r]
      BY <3>1, <1>3, <1>12 DEF ItemsInv
    <3>2. written'[r][s.item].milestone \in touched[r] /\ items[s.item].milestone \in touched[r]
      BY <1>7, <1>12 DEF a
    <3> QED BY <3>1, <3>2, <1>7
  <2>2. ASSUME NEW e \in Elements(Tail(todo[r]))
        PROVE  /\ e.item \in Mine(r) /\ written'[r][e.item] = Untouched
               /\ items[e.item].milestone \in touched[r] /\ e.row.milestone \in touched[r]
    <3>1. e \in Orders
      BY <1>4, NothingInIt
    <3>2. e.item \in Items \ {s.item}
      BY <3>1, <1>5 DEF Orders
    <3> QED BY <3>2, <1>3, <1>4, <1>12 DEF ItemsInv
  <2>3. \A j, k \in DOMAIN todo'[r] : todo'[r][j].item = todo'[r][k].item => j = k
    BY <1>5, <1>9
  <2>4. touched' = touched /\ items' = items
    BY <1>1 DEF overlap
  <2> QED BY <2>1, <2>2, <2>3, <2>4, <1>9 DEF ItemsInv, Mine
<1>14. SprintsInv(r)'
  BY <1>1, <1>3, <1>7, <1>8 DEF SprintsInv, overlap
<1>15. VerdictInv(r)'
  BY <1>9 DEF VerdictInv
<1>16. RightInv(r)'
  <2> SUFFICES ASSUME NEW m \in Stable(r)', ~ Due(r, m)'
               PROVE  Closed(r, m)' <=> CompleteFor(r, m)'
    BY DEF RightInv
  <2>1. m \in Stable(r) /\ m # a /\ m # b
    BY <1>1, <1>8 DEF Stable, overlap, Due
  <2>2. ~ Due(r, m)
    <3>1. ~ \E e \in Elements(Tail(todo[r])) : e.row.milestone = m \/ items[e.item].milestone = m
      BY <1>1, <1>9 DEF Due
    <3>2. s.row.milestone # m /\ items[s.item].milestone # m
      BY <2>1, <1>7 DEF a
    <3> QED BY <3>1, <3>2, <1>3, <1>4, NoElements DEF Due
  <2>3. Closed(r, m) <=> CompleteFor(r, m)
    BY <2>1, <2>2, <1>3 DEF RightInv
  <2>4. Closed(r, m)' = Closed(r, m)
    BY <1>1 DEF Closed
  <2>5. PICK x \in Items : x = s.item
    BY <1>6
  <2>6. Row(r, x).milestone # m /\ Row(r, x)'.milestone # m
    <3>1. Row(r, x)' = s.row
      BY <2>5, <1>6, <1>12, UntouchedAssumption DEF Row
    <3> QED BY <3>1, <2>1, <2>5 DEF a, b
  <2>7. \A i \in Items \ {x} : Row(r, i)' = Row(r, i)
    BY <2>5, <1>1, <1>12 DEF Row
  <2>8. CompleteFor(r, m)' <=> CompleteFor(r, m)
    BY <2>6, <2>7 DEF CompleteFor
  <2> QED BY <2>3, <2>4, <2>8
<1>17. HolderInv(r)'
  BY <1>1, <1>2, <1>3, <1>9 DEF HolderInv, Running
<1>18. HeldInv(r)'
  <2> SUFFICES ASSUME NEW m \in Milestones \ contended, holder[m] = r
               PROVE  /\ \A i \in Items \ Mine(r) : items[i].milestone = m => items[i].done
                      /\ \E i \in Items : written'[r][i] # Untouched
                                         /\ m \in {items[i].milestone, written'[r][i].milestone}
    BY <1>1 DEF HeldInv, Mine, overlap
  <2>1. PICK i \in Items : written[r][i] # Untouched /\ m \in {items[i].milestone, written[r][i].milestone}
    BY <1>3 DEF HeldInv
  <2>2. written'[r][i] = written[r][i]
    BY <2>1, <1>7, <1>12
  <2>3. \A k \in Items \ Mine(r) : items[k].milestone = m => items[k].done
    BY <1>3 DEF HeldInv
  <2> QED BY <2>1, <2>2, <2>3
<1>19. KindInv(r)'
  <2>1. CASE Turns(r)
    <3>1. a = b
      BY <2>1, <1>4, <1>7 DEF Turns, a
    <3>2. \A i \in Items : written'[r][i] # Untouched => written'[r][i].milestone = items[i].milestone
      BY <2>1, <3>1, <1>7, <1>12 DEF Turns, a
    <3>3. \A e \in Elements(Tail(todo[r])) : e.row.milestone = items[e.item].milestone
      BY <2>1, <1>4 DEF Turns
    <3>4. Turns(r)'
      BY <3>2, <3>3, <1>1, <1>9 DEF Turns
    <3> QED BY <3>4 DEF KindInv
  <2>2. ASSUME NEW m \in Milestones, MovesTo(r, m) PROVE KindInv(r)'
    <3>1. s.row.milestone = m /\ s.row.done = items[s.item].done
      BY <2>2, <1>4 DEF MovesTo
    <3>2. \A i \in Items : written'[r][i] # Untouched =>
            written'[r][i].milestone = m /\ written'[r][i].done = items[i].done
      BY <2>2, <3>1, <1>12 DEF MovesTo
    <3>3. \A e \in Elements(Tail(todo[r])) : e.row.milestone = m /\ e.row.done = items[e.item].done
      BY <2>2, <1>4 DEF MovesTo
    <3>4. MovesTo(r, m)'
      BY <3>2, <3>3, <1>1, <1>9 DEF MovesTo
    <3> QED BY <3>4 DEF KindInv
  <2> QED BY <2>1, <2>2, <1>3 DEF KindInv
<1>20. OrderInv(r)'
  <2> SUFFICES ASSUME Len(Batch[r]) = 1 PROVE OrderInv(r)'
    BY DEF OrderInv
  <2>1. Len(todo[r]) = 1 /\ \A m \in Milestones : flags[r][m] = Untouched
    BY <1>1, <1>3 DEF OrderInv
  <2>2. s.item = Batch[r][1]
    <3>1. Mine(r) = {Batch[r][1]}
      <4>1. Batch[r] \in Seq(Items)
        BY BatchAssumption
      <4>2. DOMAIN Batch[r] = {1}
        BY <4>1
      <4> QED BY <4>2 DEF Mine, Elements
    <3> QED BY <3>1, <1>7
  <2> QED BY <2>1, <2>2, <1>1, <1>4, <1>7, <1>8, <1>9 DEF OrderInv
<1>21. RequestInv(r)'
  BY <1>11, <1>13, <1>14, <1>15, <1>16, <1>17, <1>18, <1>19, <1>20 DEF RequestInv
<1> QED BY <1>1, <1>2, <1>9, <1>10, <1>21, LocalStep

(***************************************************************************)
(* A request calculates a sprint.                                          *)
(***************************************************************************)
\* Nothing that the request or another one sees changes but its calculation.
LEMMA CalculationStep ==
  ASSUME RaceInv, NEW r \in Requests, pc[r] \in Calculating,
         NEW to \in Calculating, NEW l \in BOOLEAN, NEW v \in BOOLEAN,
         pc' = [pc EXCEPT ![r] = to],
         loaded' = [loaded EXCEPT ![r] = l], verdict' = [verdict EXCEPT ![r] = v],
         UNCHANGED <<db, todo, written, flags, sprints, overlap>>,
         \A m \in Stable(r) : Head(sprints[r]) = m =>
           /\ to # "load" => (l <=> Closed(r, m))
           /\ to = "stories" => v
           /\ to = "tasks" => (v <=> DoneIn(r, Stories, m))
           /\ to = "issues" => (v <=> DoneIn(r, Stories, m) /\ DoneIn(r, LooseTasks, m))
           /\ to = "count" => (v <=> DoneIn(r, Items, m))
           /\ to = "write" => (v <=> CompleteFor(r, m))
  PROVE  RaceInv'
<1>1. TypeInv /\ r \in Running
  BY DEF RaceInv, Running, Calculating
<1>2. to \in Steps
  BY DEF Calculating, Steps
<1>3. TypeInv'
  BY <1>1, <1>2 DEF TypeInv, db, overlap
<1>4. /\ pc'[r] = to /\ loaded'[r] = l /\ verdict'[r] = v
      /\ \A q \in Requests \ {r} : pc'[q] = pc[q] /\ loaded'[q] = loaded[q] /\ verdict'[q] = verdict[q]
  BY <1>1 DEF TypeInv
<1>5. /\ UNCHANGED <<items, closed, holder, todo, written, flags, sprints, touched, shared, contended>>
      /\ StepInv(r) /\ ItemsInv(r) /\ SprintsInv(r) /\ RightInv(r)
      /\ HolderInv(r) /\ HeldInv(r) /\ KindInv(r) /\ OrderInv(r)
  BY <1>1 DEF db, overlap, RaceInv, RequestInv
<1>6. /\ \A i : Row(r, i)' = Row(r, i)
      /\ \A m : Closed(r, m)' = Closed(r, m)
  BY <1>5 DEF Row, Closed
<1>7. /\ \A m : CompleteFor(r, m)' <=> CompleteFor(r, m)
      /\ \A m, table : DoneIn(r, table, m)' <=> DoneIn(r, table, m)
      /\ \A m : Complete(m)' <=> Complete(m)
  BY <1>5, <1>6 DEF CompleteFor, DoneIn, Complete
<1>8. StepInv(r)'
  BY <1>4, <1>5 DEF StepInv, Calculating
<1>9. ItemsInv(r)' /\ SprintsInv(r)'
  BY <1>5 DEF ItemsInv, SprintsInv
<1>10. VerdictInv(r)'
  <2> SUFFICES ASSUME NEW m \in Stable(r), Head(sprints[r]) = m
               PROVE  /\ to # "load" => (l <=> Closed(r, m))
                      /\ to = "stories" => v
                      /\ to = "tasks" => (v <=> DoneIn(r, Stories, m))
                      /\ to = "issues" => (v <=> DoneIn(r, Stories, m) /\ DoneIn(r, LooseTasks, m))
                      /\ to = "count" => (v <=> DoneIn(r, Items, m))
                      /\ to = "write" => (v <=> CompleteFor(r, m))
    BY <1>4, <1>5, <1>6, <1>7 DEF VerdictInv, Stable
  <2> QED OBVIOUS
<1>11. RightInv(r)'
  <2>1. Stable(r)' = Stable(r) /\ \A m : Due(r, m)' <=> Due(r, m)
    BY <1>5 DEF Stable, Due
  <2> QED BY <2>1, <1>5, <1>6, <1>7 DEF RightInv
<1>12. HolderInv(r)' /\ HeldInv(r)' /\ KindInv(r)'
  BY <1>1, <1>4, <1>5 DEF HolderInv, HeldInv, KindInv, Turns, MovesTo, Mine, Running, Calculating
<1>13. OrderInv(r)'
  BY <1>4, <1>5, <1>7 DEF OrderInv, Calculating
<1>14. RequestInv(r)'
  BY <1>8, <1>9, <1>10, <1>11, <1>12, <1>13 DEF RequestInv
<1> QED BY <1>1, <1>3, <1>4, <1>5, <1>14, LocalStep

LEMMA LoadKeeps ==
  ASSUME RaceInv, NEW r \in Requests, LoadSprint(r)
  PROVE  RaceInv'
<1> DEFINE m == Head(sprints[r])
<1>1. /\ pc[r] = "load" /\ pc' = [pc EXCEPT ![r] = "stories"]
      /\ loaded' = [loaded EXCEPT ![r] = Closed(r, m)] /\ verdict' = [verdict EXCEPT ![r] = TRUE]
      /\ UNCHANGED <<db, todo, written, flags, sprints, overlap>>
  BY DEF LoadSprint
<1>2. TypeInv /\ pc[r] \in Calculating /\ "stories" \in Calculating
  BY <1>1 DEF RaceInv, Calculating
<1>3. Closed(r, m) \in BOOLEAN
  <2>1. sprints[r] # <<>> /\ sprints[r] \in Seq(Milestones)
    BY <1>2 DEF RaceInv, RequestInv, StepInv, TypeInv
  <2>2. m \in Milestones
    BY <2>1, HeadAndTail
  <2> HIDE DEF m
  <2> QED BY <2>2, <1>2 DEF TypeInv, Closed
<1> QED BY <1>1, <1>2, <1>3, CalculationStep

\* A query of the calculation adds a fact to the verdict.
LEMMA ReadKeeps ==
  ASSUME RaceInv, NEW r \in Requests, NEW from \in Calculating \ {"load"},
         NEW to \in Calculating \ {"load"}, NEW fact \in BOOLEAN, Read(r, from, to, fact),
         \A m \in Stable(r) : Head(sprints[r]) = m =>
           LET v == verdict[r] /\ fact
           IN /\ to = "stories" => v
              /\ to = "tasks" => (v <=> DoneIn(r, Stories, m))
              /\ to = "issues" => (v <=> DoneIn(r, Stories, m) /\ DoneIn(r, LooseTasks, m))
              /\ to = "count" => (v <=> DoneIn(r, Items, m))
              /\ to = "write" => (v <=> CompleteFor(r, m))
  PROVE  RaceInv'
<1> DEFINE v == verdict[r] /\ fact
<1>1. /\ pc[r] = from /\ pc' = [pc EXCEPT ![r] = to] /\ verdict' = [verdict EXCEPT ![r] = v]
      /\ UNCHANGED <<db, todo, written, flags, sprints, loaded, overlap>>
  BY DEF Read
<1>2. TypeInv /\ r \in Running
  BY <1>1 DEF RaceInv, Running, Calculating
<1>3. loaded' = [loaded EXCEPT ![r] = loaded[r]] /\ loaded[r] \in BOOLEAN /\ v \in BOOLEAN
  BY <1>1, <1>2 DEF TypeInv
<1>4. \A m \in Stable(r) : Head(sprints[r]) = m => (loaded[r] <=> Closed(r, m))
  BY <1>1, <1>2 DEF RaceInv, RequestInv, VerdictInv
<1> QED BY <1>1, <1>3, <1>4, CalculationStep

LEMMA VerdictSoFar ==
  ASSUME RaceInv, NEW r \in Requests, pc[r] \in Calculating, NEW m \in Stable(r), Head(sprints[r]) = m
  PROVE  /\ pc[r] = "stories" => verdict[r]
         /\ pc[r] = "tasks" => (verdict[r] <=> DoneIn(r, Stories, m))
         /\ pc[r] = "issues" => (verdict[r] <=> DoneIn(r, Stories, m) /\ DoneIn(r, LooseTasks, m))
         /\ pc[r] = "count" => (verdict[r] <=> DoneIn(r, Items, m))
         /\ pc[r] = "write" => (loaded[r] <=> Closed(r, m)) /\ (verdict[r] <=> CompleteFor(r, m))
<1>1. r \in Running
  BY DEF Running, Calculating
<1> QED BY <1>1 DEF RaceInv, RequestInv, VerdictInv

LEMMA ReadsKeep ==
  ASSUME RaceInv, NEW r \in Requests, ReadStories(r) \/ ReadTasks(r) \/ ReadIssues(r) \/ Count(r)
  PROVE  RaceInv'
<1>1. \A table : AllDone(r, table) \in BOOLEAN /\ (AllDone(r, table) <=> DoneIn(r, table, Head(sprints[r])))
  BY DEF AllDone, DoneIn
<1>2. CASE ReadStories(r)
  <2>1. pc[r] = "stories" /\ Read(r, "stories", "tasks", AllDone(r, Stories))
    BY <1>2 DEF ReadStories, Read
  <2>2. {"stories", "tasks"} \subseteq Calculating \ {"load"}
    BY DEF Calculating
  <2>3. \A m \in Stable(r) : Head(sprints[r]) = m => (verdict[r] /\ AllDone(r, Stories) <=> DoneIn(r, Stories, m))
    BY <1>1, <2>1, <2>2, VerdictSoFar
  <2> QED BY <1>1, <2>1, <2>2, <2>3, ReadKeeps
<1>3. CASE ReadTasks(r)
  <2>1. pc[r] = "tasks" /\ Read(r, "tasks", "issues", AllDone(r, LooseTasks))
    BY <1>3 DEF ReadTasks, Read
  <2>2. {"tasks", "issues"} \subseteq Calculating \ {"load"}
    BY DEF Calculating
  <2>3. \A m \in Stable(r) : Head(sprints[r]) = m =>
          (verdict[r] /\ AllDone(r, LooseTasks) <=> DoneIn(r, Stories, m) /\ DoneIn(r, LooseTasks, m))
    BY <1>1, <2>1, <2>2, VerdictSoFar
  <2> QED BY <1>1, <2>1, <2>2, <2>3, ReadKeeps
<1>4. CASE ReadIssues(r)
  <2>1. pc[r] = "issues" /\ Read(r, "issues", "count", AllDone(r, Issues))
    BY <1>4 DEF ReadIssues, Read
  <2>2. {"issues", "count"} \subseteq Calculating \ {"load"}
    BY DEF Calculating
  <2>3. \A m : DoneIn(r, Items, m) <=>
                 DoneIn(r, Stories, m) /\ DoneIn(r, LooseTasks, m) /\ DoneIn(r, Issues, m)
    BY DEF DoneIn, Items
  <2>4. \A m \in Stable(r) : Head(sprints[r]) = m => (verdict[r] /\ AllDone(r, Issues) <=> DoneIn(r, Items, m))
    BY <1>1, <2>1, <2>2, <2>3, VerdictSoFar
  <2> QED BY <1>1, <2>1, <2>2, <2>4, ReadKeeps
<1>5. CASE Count(r)
  <2> DEFINE fact == \E i \in Items : Row(r, i).milestone = Head(sprints[r])
  <2>1. pc[r] = "count" /\ Read(r, "count", "write", fact)
    BY <1>5 DEF Count, Read
  <2>2. {"count", "write"} \subseteq Calculating \ {"load"} /\ fact \in BOOLEAN
    BY DEF Calculating
  <2>3. \A m \in Stable(r) : Head(sprints[r]) = m => (verdict[r] /\ fact <=> CompleteFor(r, m))
    <3> SUFFICES ASSUME NEW m \in Stable(r), Head(sprints[r]) = m
                 PROVE  verdict[r] /\ fact <=> CompleteFor(r, m)
      OBVIOUS
    <3>1. verdict[r] <=> DoneIn(r, Items, m)
      BY <2>1, <2>2, VerdictSoFar
    <3> QED BY <3>1 DEF CompleteFor, DoneIn
  <2> HIDE DEF fact
  <2> QED BY <2>1, <2>2, <2>3, ReadKeeps
<1> QED BY <1>2, <1>3, <1>4, <1>5

(***************************************************************************)
(* A request is done with a sprint.                                        *)
(***************************************************************************)
LEMMA SprintStep ==
  ASSUME RaceInv, NEW r \in Requests, pc[r] = "write", SprintDone(r),
         NEW m \in Milestones, m = Head(sprints[r]),
         UNCHANGED <<items, closed, todo, written, loaded, verdict, overlap>>,
         \/ ~ Changes(r) /\ flags' = flags /\ holder' = holder
         \/ /\ Changes(r) /\ holder[m] \in {NoOne, r} /\ holder' = [holder EXCEPT ![m] = r]
            /\ flags' = [flags EXCEPT ![r][m] = verdict[r]]
  PROVE  RaceInv'
<1>1. TypeInv /\ r \in Running /\ pc[r] \in Calculating
  BY DEF RaceInv, Running, Calculating
<1>2. /\ sprints[r] # <<>> /\ sprints[r] \in Seq(Milestones) /\ todo[r] \in Seq(Orders)
      /\ ItemsInv(r) /\ SprintsInv(r) /\ RightInv(r)
      /\ HolderInv(r) /\ HeldInv(r) /\ KindInv(r) /\ OrderInv(r)
  BY <1>1 DEF RaceInv, RequestInv, StepInv, TypeInv
<1>3. /\ Tail(sprints[r]) \in Seq(Milestones)
      /\ Elements(sprints[r]) = {m} \cup Elements(Tail(sprints[r]))
      /\ Len(sprints[r]) = 1 => Tail(sprints[r]) = <<>>
      /\ Len(sprints[r]) > 1 => Tail(sprints[r]) # <<>>
      /\ Len(sprints[r]) >= 1 /\ Len(sprints[r]) \in Nat
  BY <1>2, HeadAndTail
<1>4. PICK to \in {"load", "save", "commit"} :
        /\ pc' = [pc EXCEPT ![r] = to]
        /\ to = "load" => Tail(sprints[r]) # <<>>
        /\ to = "save" => Tail(sprints[r]) = <<>> /\ todo[r] # <<>>
        /\ to = "commit" => Tail(sprints[r]) = <<>> /\ todo[r] = <<>>
  <2>1. CASE Len(sprints[r]) > 1
    <3>1. pc' = [pc EXCEPT ![r] = "load"]
      BY <2>1, <1>3 DEF SprintDone
    <3> QED BY <3>1, <2>1, <1>3
  <2>2. CASE Len(sprints[r]) = 1 /\ todo[r] # <<>>
    <3>1. pc' = [pc EXCEPT ![r] = "save"]
      BY <2>2, <1>3 DEF SprintDone
    <3> QED BY <3>1, <2>2, <1>3
  <2>3. CASE Len(sprints[r]) = 1 /\ todo[r] = <<>>
    <3>1. pc' = [pc EXCEPT ![r] = "commit"]
      BY <2>3, <1>3 DEF SprintDone
    <3> QED BY <3>1, <2>3, <1>3
  <2>4. Len(sprints[r]) > 1 \/ Len(sprints[r]) = 1
    <3> DEFINE n == Len(sprints[r])
    <3>1. n \in Nat /\ n >= 1
      BY <1>3
    <3> HIDE DEF n
    <3>2. n > 1 \/ n = 1
      BY <3>1
    <3> QED BY <3>2 DEF n
  <2> QED BY <2>1, <2>2, <2>3, <2>4
<1>5. sprints' = [sprints EXCEPT ![r] = Tail(sprints[r])]
  BY DEF SprintDone
<1>6. flags' \in [Requests -> [Milestones -> BOOLEAN \cup {Untouched}]]
  <2>1. flags \in [Requests -> [Milestones -> BOOLEAN \cup {Untouched}]] /\ verdict[r] \in BOOLEAN
    BY <1>1 DEF TypeInv
  <2>2. [flags EXCEPT ![r][m] = verdict[r]] \in [Requests -> [Milestones -> BOOLEAN \cup {Untouched}]]
    BY <2>1
  <2> QED BY <2>1, <2>2
<1>7. /\ pc'[r] = to /\ sprints'[r] = Tail(sprints[r])
      /\ \A n \in Milestones \ {m} : flags'[r][n] = flags[r][n]
      /\ \A q \in Requests \ {r} : pc'[q] = pc[q] /\ sprints'[q] = sprints[q] /\ flags'[q] = flags[q]
  BY <1>1, <1>4, <1>5 DEF TypeInv
<1>8. TypeInv'
  <2>0. holder' \in [Milestones -> Requests \cup {NoOne}]
    BY <1>1 DEF TypeInv
  <2>1. pc' \in [Requests -> Steps] /\ sprints' \in [Requests -> Seq(Milestones)]
    BY <1>1, <1>3, <1>4, <1>5 DEF TypeInv, Steps
  <2> QED BY <2>0, <2>1, <1>1, <1>6 DEF TypeInv, overlap
<1>9. StepInv(r)'
  BY <1>4, <1>7 DEF StepInv, Calculating
<1>10. ItemsInv(r)'
  BY <1>2 DEF ItemsInv, overlap
<1>11. SprintsInv(r)'
  <2>1. m \in touched[r] /\ Elements(Tail(sprints[r])) \subseteq touched[r]
    BY <1>2, <1>3 DEF SprintsInv
  <2>2. \A n \in Milestones : flags'[r][n] # Untouched => n \in touched[r]
    BY <2>1, <1>2, <1>7 DEF SprintsInv
  <2> QED BY <2>1, <2>2, <1>7 DEF SprintsInv, overlap
<1>12. VerdictInv(r)'
  BY <1>4, <1>7 DEF VerdictInv, Calculating
<1>13. /\ \A i : Row(r, i)' = Row(r, i)
       /\ \A n \in Milestones \ {m} : Closed(r, n)' = Closed(r, n)
  BY <1>7 DEF Row, Closed
<1>14. \A n : CompleteFor(r, n)' <=> CompleteFor(r, n)
  BY <1>13 DEF CompleteFor
<1>15. m \in Stable(r) => (Closed(r, m)' <=> CompleteFor(r, m))
  <2> SUFFICES ASSUME m \in Stable(r) PROVE Closed(r, m)' <=> CompleteFor(r, m)
    OBVIOUS
  <2>1. (loaded[r] <=> Closed(r, m)) /\ (verdict[r] <=> CompleteFor(r, m))
    BY <1>1, VerdictSoFar
  <2>2. CASE ~ Changes(r) /\ flags' = flags /\ holder' = holder
    <3>1. loaded[r] <=> verdict[r]
      BY <2>2 DEF Changes
    <3>2. Closed(r, m)' = Closed(r, m)
      BY <2>2 DEF Closed
    <3> QED BY <2>1, <3>1, <3>2
  <2>3. CASE flags' = [flags EXCEPT ![r][m] = verdict[r]]
    <3>1. flags'[r][m] = verdict[r]
      BY <2>3, <1>1 DEF TypeInv
    <3>2. verdict[r] # Untouched
      BY <1>1, UntouchedAssumption DEF TypeInv
    <3>3. Closed(r, m)' = verdict[r]
      BY <3>1, <3>2 DEF Closed
    <3> QED BY <2>1, <3>3
  <2> QED BY <2>2, <2>3
<1>16. RightInv(r)'
  <2> SUFFICES ASSUME NEW n \in Stable(r), ~ Due(r, n)'
               PROVE  Closed(r, n)' <=> CompleteFor(r, n)'
    BY DEF RightInv, Stable, overlap
  <2>1. CASE n = m
    BY <2>1, <1>14, <1>15
  <2>2. CASE n # m
    <3>1. ~ Due(r, n)
      BY <2>2, <1>3, <1>7 DEF Due
    <3>2. Closed(r, n) <=> CompleteFor(r, n)
      BY <3>1, <1>2 DEF RightInv
    <3>3. n \in Milestones
      BY <1>1 DEF Stable, TypeInv
    <3> QED BY <2>2, <3>2, <3>3, <1>13, <1>14
  <2> QED BY <2>1, <2>2
\* The row is the request's own as soon as its flag is written.
<1>17. /\ \A n \in Milestones \ {m} : holder'[n] = holder[n]
       /\ \A q \in Requests \ {r} : holder'[m] = q <=> holder[m] = q
       /\ \/ Changes(r) /\ holder'[m] = r /\ flags'[r][m] = verdict[r]
          \/ ~ Changes(r) /\ holder'[m] = holder[m] /\ flags'[r][m] = flags[r][m]
  BY <1>1, NoOneAssumption DEF TypeInv
<1>18. verdict[r] # Untouched
  BY <1>1, UntouchedAssumption DEF TypeInv
<1>19. HolderInv(r)'
  <2>1. r \in Running'
    BY <1>4, <1>7 DEF Running
  <2>2. ASSUME NEW n \in Milestones PROVE holder'[n] = r <=> flags'[r][n] # Untouched
    <3>1. holder[n] = r <=> flags[r][n] # Untouched
      BY <1>1, <1>2 DEF HolderInv
    <3> QED BY <3>1, <1>7, <1>17, <1>18
  <2> QED BY <2>1, <2>2 DEF HolderInv
\* Its first change of a sprint's flag: what was right and what it calculated differ.
<1>20. ASSUME m \notin contended, Changes(r), holder[m] # r
       PROVE  CompleteFor(r, m) <=> ~ Complete(m)
  <2>1. m \in Elements(sprints[r]) /\ m \in Stable(r)
    <3>1. m \in Elements(sprints[r])
      BY <1>3
    <3>2. m \in touched[r]
      BY <3>1, <1>2 DEF SprintsInv
    <3> QED BY <3>1, <3>2, <1>20 DEF Stable
  <2>2. (loaded[r] <=> Closed(r, m)) /\ (verdict[r] <=> CompleteFor(r, m))
    BY <1>1, <2>1, VerdictSoFar
  <2>3. Closed(r, m) = closed[m]
    <3>1. flags[r][m] = Untouched
      BY <1>1, <1>2, <1>20 DEF HolderInv
    <3> QED BY <3>1 DEF Closed
  <2>4. closed[m] <=> Complete(m)
    BY <1>20 DEF RaceInv, FlagsInv
  <2>5. ~ (loaded[r] <=> verdict[r])
    BY <1>1, <1>20 DEF Changes, TypeInv
  <2> QED BY <2>2, <2>3, <2>4, <2>5
<1>21. HeldInv(r)'
  <2> SUFFICES ASSUME NEW n \in Milestones \ contended, holder'[n] = r
               PROVE  /\ \A i \in Items \ Mine(r) : items[i].milestone = n => items[i].done
                      /\ \E i \in Items : written[r][i] # Untouched
                                         /\ n \in {items[i].milestone, written[r][i].milestone}
    BY DEF HeldInv, Mine, overlap
  <2>1. CASE holder[n] = r
    BY <2>1, <1>2 DEF HeldInv
  <2>2. CASE holder[n] # r
    <3>1. n = m /\ Changes(r)
      BY <2>2, <1>17
    <3>2. CompleteFor(r, m) <=> ~ Complete(m)
      BY <3>1, <2>2, <1>20
    <3>3. ASSUME NEW i \in Items \ Mine(r), items[i].milestone = m PROVE items[i].done
      <4>1. Row(r, i) = items[i]
        BY <1>2 DEF ItemsInv, Row
      <4> QED BY <4>1, <3>2, <3>3 DEF Complete, CompleteFor
    <3>4. \E i \in Items : written[r][i] # Untouched
                           /\ m \in {items[i].milestone, written[r][i].milestone}
      <4> SUFFICES ASSUME \A i \in Items : written[r][i] = Untouched
                             \/ (items[i].milestone # m /\ written[r][i].milestone # m)
                   PROVE  FALSE
        OBVIOUS
      <4>1. \A i \in Items : Row(r, i) = items[i] \/ (items[i].milestone # m /\ Row(r, i).milestone # m)
        BY DEF Row
      <4> QED BY <4>1, <3>2 DEF Complete, CompleteFor
    <3> QED BY <3>1, <3>3, <3>4
  <2> QED BY <2>1, <2>2
<1>22. KindInv(r)'
  BY <1>2 DEF KindInv, Turns, MovesTo, overlap
<1>23. OrderInv(r)'
  <2> SUFFICES ASSUME Len(Batch[r]) = 1 PROVE OrderInv(r)'
    BY DEF OrderInv
  <2>1. /\ todo[r] = <<>> /\ Len(sprints[r]) \in {1, 2}
        /\ sprints[r][Len(sprints[r])] = items[Batch[r][1]].milestone
        /\ \A n \in Milestones \ contended :
             flags[r][n] # Untouched => (CompleteFor(r, n) <=> ~ Complete(n))
    BY <1>1, <1>2 DEF OrderInv
  <2>2. to # "save"
    BY <2>1, <1>4
  <2>3. to = "load" => Len(sprints[r]) = 2
    BY <2>1, <1>3, <1>4
  <2>4. Len(sprints[r]) = 2 => Len(Tail(sprints[r])) = 1 /\ Tail(sprints[r])[1] = sprints[r][2]
    BY <1>2
  <2>5. \A n \in Milestones \ contended : flags'[r][n] # Untouched => (CompleteFor(r, n) <=> ~ Complete(n))
    <3> SUFFICES ASSUME NEW n \in Milestones \ contended, flags'[r][n] # Untouched
                 PROVE  CompleteFor(r, n) <=> ~ Complete(n)
      OBVIOUS
    <3>1. CASE flags[r][n] # Untouched
      BY <3>1, <2>1
    <3>2. CASE flags[r][n] = Untouched
      <4>1. n = m /\ Changes(r)
        BY <3>2, <1>7, <1>17
      <4>2. holder[m] # r
        BY <4>1, <3>2, <1>2 DEF HolderInv
      <4> QED BY <4>1, <4>2, <1>20
    <3> QED BY <3>1, <3>2
  <2>6. \A n : Complete(n)' <=> Complete(n)
    BY DEF Complete
  <2>7. contended' = contended
    BY DEF overlap
  <2>8. CASE to = "load"
    BY <2>1, <2>3, <2>4, <2>5, <2>6, <2>7, <2>8, <1>7, <1>14 DEF OrderInv
  <2>9. CASE to = "commit"
    BY <2>9, <1>7 DEF OrderInv, Calculating
  <2> QED BY <2>2, <2>8, <2>9
<1>24. RequestInv(r)'
  BY <1>9, <1>10, <1>11, <1>12, <1>16, <1>19, <1>21, <1>22, <1>23 DEF RequestInv
<1>25. \A q \in Requests \ {r} : \A n \in Milestones : holder'[n] = q <=> holder[n] = q
  BY <1>17
<1> QED BY <1>1, <1>7, <1>8, <1>24, <1>25, LocalStep

LEMMA FlagsKeep ==
  ASSUME RaceInv, NEW r \in Requests, KeepClosed(r) \/ WriteClosed(r)
  PROVE  RaceInv'
<1>1. /\ pc[r] = "write" /\ SprintDone(r)
      /\ UNCHANGED <<items, closed, todo, written, loaded, verdict, overlap>>
      /\ \/ ~ Changes(r) /\ flags' = flags /\ holder' = holder
         \/ /\ Changes(r) /\ holder[Head(sprints[r])] \in {NoOne, r}
            /\ holder' = [holder EXCEPT ![Head(sprints[r])] = r]
            /\ flags' = [flags EXCEPT ![r][Head(sprints[r])] = verdict[r]]
  BY DEF KeepClosed, WriteClosed, db
<1>2. sprints[r] # <<>> /\ sprints[r] \in Seq(Milestones)
  BY <1>1 DEF RaceInv, RequestInv, StepInv, Calculating, TypeInv
<1>3. Head(sprints[r]) \in Milestones
  BY <1>2, HeadAndTail
<1> QED BY <1>1, <1>3, SprintStep

(***************************************************************************)
(* The end of a transaction.                                               *)
(***************************************************************************)
LEMMA OwnItems ==
  ASSUME NEW q \in Requests, NEW r \in Requests, q # r
  PROVE  Mine(q) \cap Mine(r) = {}
BY BatchAssumption DEF Mine, Elements

LEMMA CommitKeeps ==
  ASSUME RaceInv, NEW r \in Requests, Commit(r)
  PROVE  RaceInv'
<1>1. /\ pc[r] = "commit" /\ pc' = [pc EXCEPT ![r] = "answered"]
      /\ items' = [i \in Items |-> Row(r, i)] /\ closed' = [m \in Milestones |-> Closed(r, m)]
      /\ contended' = (contended \ touched[r]) \cup shared[r] /\ holder' = Released(r)
      /\ UNCHANGED <<todo, sprints, loaded, verdict, written, flags, touched, shared>>
  BY DEF Commit, memory
<1>2. TypeInv /\ r \in Running
  BY <1>1 DEF RaceInv, Running
<1>3. /\ sprints[r] = <<>> /\ todo[r] = <<>>
      /\ ItemsInv(r) /\ SprintsInv(r) /\ RightInv(r)
  BY <1>1, <1>2 DEF RaceInv, RequestInv, StepInv
<1>4. /\ pc'[r] = "answered" /\ \A q \in Requests \ {r} : pc'[q] = pc[q]
      /\ \A i \in Items : items'[i] = Row(r, i)
      /\ \A m \in Milestones : closed'[m] = Closed(r, m)
  BY <1>1, <1>2 DEF TypeInv
<1>5. TypeInv'
  <2>0. holder' \in [Milestones -> Requests \cup {NoOne}]
    BY <1>1, <1>2 DEF TypeInv, Released
  <2>1. \A i \in Items : Row(r, i) \in Rows
    BY <1>2 DEF TypeInv, Row
  <2>2. \A m \in Milestones : Closed(r, m) \in BOOLEAN
    BY <1>2 DEF TypeInv, Closed
  <2>3. items' \in [Items -> Rows] /\ closed' \in [Milestones -> BOOLEAN]
    BY <1>1, <2>1, <2>2
  <2>4. pc' \in [Requests -> Steps]
    BY <1>1, <1>2 DEF TypeInv, Steps
  <2> QED BY <1>1, <1>2, <2>0, <2>3, <2>4 DEF TypeInv
\* What the transaction changes lies in the sprints it touches.
<1>6. /\ \A i \in Items : items'[i] # items[i] =>
           i \in Mine(r) /\ items'[i].milestone \in touched[r] /\ items[i].milestone \in touched[r]
      /\ \A m \in Milestones : closed'[m] # closed[m] => m \in touched[r]
  BY <1>3, <1>4 DEF Row, Closed, ItemsInv, SprintsInv
<1>7. ASSUME NEW q \in Requests \ {r} PROVE RequestInv(q)'
  <2>1. /\ (q \in Running)' <=> q \in Running
        /\ RequestInv(q)
    BY <1>4 DEF Running, RaceInv
  <2>2. StepInv(q)'
    BY <2>1, <1>1, <1>4 DEF RequestInv, StepInv
  <2>3. CASE q \in Running
    <3>1. /\ ItemsInv(q) /\ SprintsInv(q) /\ VerdictInv(q) /\ RightInv(q)
          /\ HolderInv(q) /\ HeldInv(q) /\ KindInv(q) /\ OrderInv(q)
      BY <2>1, <2>3 DEF RequestInv
    <3>2. /\ touched[q] \cap touched[r] \subseteq shared[q] \cap contended'
          /\ touched[q] \cap contended \subseteq contended' /\ touched[q] \subseteq Milestones
      <4>1. touched[q] \cap touched[r] \subseteq shared[q] /\ touched[q] \cap touched[r] \subseteq shared[r]
        BY <2>3, <1>2 DEF RaceInv, OverlapInv
      <4> QED BY <4>1, <1>1, <1>2 DEF TypeInv
    <3>3. \A i \in Mine(q) : i \in Items => items'[i] = items[i]
      BY <1>6, OwnItems
    <3>4. \A s \in Elements(todo[q]) : items'[s.item] = items[s.item]
      <4>1. Elements(todo[q]) \subseteq Orders
        <5>1. todo[q] \in Seq(Orders)
          BY <1>2 DEF TypeInv
        <5> QED BY <5>1, NothingInIt
      <4>2. \A s \in Elements(todo[q]) : s.item \in Mine(q) /\ s.item \in Items
        BY <3>1, <4>1 DEF ItemsInv, Orders
      <4> QED BY <4>2, <3>3
    <3>5. ItemsInv(q)'
      <4>1. \A i \in Items : written[q][i] # Untouched => items'[i] = items[i]
        BY <3>1, <3>3 DEF ItemsInv
      <4> QED BY <3>1, <3>4, <4>1, <1>1 DEF ItemsInv
    <3>6. SprintsInv(q)'
      BY <3>1, <1>1 DEF SprintsInv
    <3>7. ASSUME NEW m \in Milestones \ touched[r]
          PROVE  /\ Closed(q, m)' = Closed(q, m)
                 /\ \A i \in Items : Row(q, i)' = Row(q, i) \/ (Row(q, i).milestone # m /\ Row(q, i)'.milestone # m)
                 /\ \A i \in Items : items'[i] = items[i] \/ (items[i].milestone # m /\ items'[i].milestone # m)
      <4>1. Closed(q, m)' = Closed(q, m)
        BY <3>7, <1>1, <1>6 DEF Closed
      <4>2. ASSUME NEW i \in Items
            PROVE  /\ Row(q, i)' = Row(q, i) \/ (Row(q, i).milestone # m /\ Row(q, i)'.milestone # m)
                   /\ items'[i] = items[i] \/ (items[i].milestone # m /\ items'[i].milestone # m)
        BY <3>7, <1>1, <1>6 DEF Row
      <4> QED BY <4>1, <4>2
    <3>8. ASSUME NEW m \in Milestones \ touched[r]
          PROVE  /\ CompleteFor(q, m)' <=> CompleteFor(q, m)
                 /\ \A table \in SUBSET Items : DoneIn(q, table, m)' <=> DoneIn(q, table, m)
                 /\ Complete(m)' <=> Complete(m)
      BY <3>7 DEF CompleteFor, DoneIn, Complete
    <3>9. Stable(q)' \subseteq Stable(q) \ touched[r] /\ Stable(q)' \subseteq Milestones
      BY <3>2, <1>1 DEF Stable
\* What it holds, and is not contended, is out of the reach of the commit.
    <3>16. ASSUME NEW m \in Milestones \ contended', flags[q][m] # Untouched
           PROVE  m \notin touched[r] /\ m \notin contended
      BY <3>16, <3>1, <3>2 DEF SprintsInv
    <3>10. VerdictInv(q)'
      <4>1. {Stories, LooseTasks, Items} \subseteq SUBSET Items
        BY DEF Items
      <4> SUFFICES ASSUME NEW m \in Stable(q)', pc'[q] \in Calculating, Head(sprints'[q]) = m
                   PROVE  /\ pc'[q] # "load" => (loaded'[q] <=> Closed(q, m)')
                          /\ pc'[q] = "stories" => verdict'[q]
                          /\ pc'[q] = "tasks" => (verdict'[q] <=> DoneIn(q, Stories, m)')
                          /\ pc'[q] = "issues" =>
                               (verdict'[q] <=> DoneIn(q, Stories, m)' /\ DoneIn(q, LooseTasks, m)')
                          /\ pc'[q] = "count" => (verdict'[q] <=> DoneIn(q, Items, m)')
                          /\ pc'[q] = "write" => (verdict'[q] <=> CompleteFor(q, m)')
        BY DEF VerdictInv
      <4>2. m \in Milestones \ touched[r] /\ m \in Stable(q)
        BY <3>9
      <4>3. /\ Closed(q, m)' = Closed(q, m)
            /\ CompleteFor(q, m)' <=> CompleteFor(q, m)
            /\ DoneIn(q, Stories, m)' <=> DoneIn(q, Stories, m)
            /\ DoneIn(q, LooseTasks, m)' <=> DoneIn(q, LooseTasks, m)
            /\ DoneIn(q, Items, m)' <=> DoneIn(q, Items, m)
        BY <4>1, <4>2, <3>7, <3>8
      <4>4. pc[q] \in Calculating /\ Head(sprints[q]) = m
        BY <1>1, <1>4
      <4>5. /\ pc[q] # "load" => (loaded[q] <=> Closed(q, m))
            /\ pc[q] = "stories" => verdict[q]
            /\ pc[q] = "tasks" => (verdict[q] <=> DoneIn(q, Stories, m))
            /\ pc[q] = "issues" => (verdict[q] <=> DoneIn(q, Stories, m) /\ DoneIn(q, LooseTasks, m))
            /\ pc[q] = "count" => (verdict[q] <=> DoneIn(q, Items, m))
            /\ pc[q] = "write" => (verdict[q] <=> CompleteFor(q, m))
        BY <4>2, <4>4, <3>1 DEF VerdictInv
      <4>6. pc'[q] = pc[q] /\ loaded'[q] = loaded[q] /\ verdict'[q] = verdict[q]
        BY <1>1, <1>4
      <4> QED BY <4>3, <4>5, <4>6
    <3>11. RightInv(q)'
      <4>1. ASSUME NEW m, Due(q, m) PROVE Due(q, m)'
        BY <4>1, <1>1, <3>4 DEF Due
      <4> QED BY <4>1, <3>1, <3>7, <3>8, <3>9 DEF RightInv
    <3>12. HolderInv(q)'
      <4>1. \A m \in Milestones : holder'[m] = q <=> holder[m] = q
        BY <1>1, NoOneAssumption DEF Released
      <4> QED BY <4>1, <3>1, <2>1, <1>1 DEF HolderInv
    <3>13. HeldInv(q)'
      <4> SUFFICES ASSUME NEW m \in Milestones \ contended', holder'[m] = q
                   PROVE  /\ \A i \in Items \ Mine(q) : items'[i].milestone = m => items'[i].done
                          /\ \E i \in Items : written'[q][i] # Untouched
                                             /\ m \in {items'[i].milestone, written'[q][i].milestone}
        BY DEF HeldInv, Mine
      <4>1. holder[m] = q
        BY <1>1, NoOneAssumption DEF Released
      <4>2. flags[q][m] # Untouched
        BY <4>1, <3>1 DEF HolderInv
      <4>3. m \notin touched[r] /\ m \notin contended
        BY <4>2, <3>16
      <4>4. /\ \A i \in Items \ Mine(q) : items[i].milestone = m => items[i].done
            /\ \E i \in Items : written[q][i] # Untouched
                               /\ m \in {items[i].milestone, written[q][i].milestone}
        BY <4>1, <4>3, <3>1 DEF HeldInv
      <4>5. PICK i \in Items : written[q][i] # Untouched /\ m \in {items[i].milestone, written[q][i].milestone}
        BY <4>4
      <4>6. items'[i] = items[i]
        BY <4>5, <3>1, <3>3 DEF ItemsInv
      <4>7. \A j \in Items \ Mine(q) : items'[j].milestone = m => items'[j].done
        BY <4>3, <4>4, <3>7
      <4> QED BY <4>5, <4>6, <4>7, <1>1
    <3>14. KindInv(q)'
      <4>1. \A i \in Items : written[q][i] # Untouched => items'[i] = items[i]
        BY <3>1, <3>3 DEF ItemsInv
      <4>2. CASE Turns(q)
        BY <4>1, <4>2, <3>4, <1>1 DEF KindInv, Turns
      <4>3. CASE \E m \in Milestones : MovesTo(q, m)
        BY <4>1, <4>3, <3>4, <1>1 DEF KindInv, MovesTo
      <4> QED BY <4>2, <4>3, <3>1 DEF KindInv
    <3>15. OrderInv(q)'
      <4>1. Len(Batch[q]) = 1 => Batch[q][1] \in Mine(q) /\ Batch[q][1] \in Items
        <5>1. Batch[q] \in Seq(Items)
          BY BatchAssumption
        <5> QED BY <5>1 DEF Mine, Elements
      <4>2. Len(Batch[q]) = 1 => items'[Batch[q][1]] = items[Batch[q][1]]
        BY <4>1, <3>3
      <4>3. \A m \in Milestones \ contended' : flags[q][m] # Untouched =>
              m \notin contended /\ (CompleteFor(q, m)' <=> CompleteFor(q, m)) /\ (Complete(m)' <=> Complete(m))
        BY <3>16, <3>8
      <4> QED BY <4>2, <4>3, <3>1, <1>1, <1>4 DEF OrderInv
    <3> QED BY <2>2, <3>5, <3>6, <3>10, <3>11, <3>12, <3>13, <3>14, <3>15 DEF RequestInv
  <2>4. CASE q \notin Running
    <3>1. HolderInv(q)'
      <4>1. \A m \in Milestones : holder'[m] = q <=> holder[m] = q
        BY <1>1, NoOneAssumption DEF Released
      <4> QED BY <4>1, <2>1, <1>1 DEF RequestInv, HolderInv
    <3> QED BY <2>1, <2>2, <2>4, <3>1 DEF RequestInv
  <2> QED BY <2>3, <2>4
<1>8. RequestInv(r)'
  <2>1. \A m \in Milestones : holder'[m] # r
    BY <1>1, NoOneAssumption DEF Released
  <2> QED BY <2>1, <1>4 DEF RequestInv, StepInv, HolderInv, Running, Calculating
<1>9. OverlapInv'
  <2>1. Running' \subseteq Running
    BY <1>2, <1>4 DEF Running
  <2> QED BY <2>1, <1>1 DEF RaceInv, OverlapInv
<1>10. FlagsInv'
  <2> SUFFICES ASSUME NEW m \in Milestones, m \notin contended' PROVE closed'[m] <=> Complete(m)'
    BY DEF FlagsInv
  <2>1. CASE m \in touched[r]
    <3>1. m \in Stable(r)
      BY <2>1, <1>1 DEF Stable
    <3>2. ~ Due(r, m)
      BY <1>3, NoElements DEF Due
    <3>3. Closed(r, m) <=> CompleteFor(r, m)
      BY <3>1, <3>2, <1>3 DEF RightInv
    <3>4. Complete(m)' <=> CompleteFor(r, m)
      BY <1>4 DEF Complete, CompleteFor
    <3> QED BY <3>3, <3>4, <1>4
  <2>2. CASE m \notin touched[r]
    <3>1. closed[m] <=> Complete(m)
      BY <2>2, <1>1 DEF RaceInv, FlagsInv
    <3>2. closed'[m] = closed[m]
      BY <2>2, <1>6
    <3>3. \A i \in Items : items'[i] = items[i] \/ (items'[i].milestone # m /\ items[i].milestone # m)
      BY <2>2, <1>6
    <3>4. Complete(m)' <=> Complete(m)
      BY <3>3 DEF Complete
    <3> QED BY <3>1, <3>2, <3>4
  <2> QED BY <2>1, <2>2
<1> QED BY <1>5, <1>7, <1>8, <1>9, <1>10 DEF RaceInv

LEMMA FailKeeps ==
  ASSUME RaceInv, NEW r \in Requests, Fail(r)
  PROVE  RaceInv'
<1>1. /\ pc' = [pc EXCEPT ![r] = "failed"] /\ holder' = Released(r)
      /\ UNCHANGED <<items, closed, todo, sprints, loaded, verdict, written, flags, overlap>>
  BY DEF Fail, memory
<1>2. TypeInv
  BY DEF RaceInv
<1>3. r \in Running
  <2>1. pc[r] = "write"
    BY DEF Fail, Deadlocked, WaitsFor
  <2> QED BY <2>1 DEF Running
<1>4. pc'[r] = "failed" /\ \A q \in Requests \ {r} : pc'[q] = pc[q]
  BY <1>1, <1>2 DEF TypeInv
<1>5. TypeInv'
  <2>1. holder' \in [Milestones -> Requests \cup {NoOne}]
    BY <1>1, <1>2 DEF TypeInv, Released
  <2> QED BY <2>1, <1>1, <1>2 DEF TypeInv, Steps, overlap
<1>6. RequestInv(r)'
  <2>1. \A m \in Milestones : holder'[m] # r
    BY <1>1, NoOneAssumption DEF Released
  <2> QED BY <2>1, <1>4 DEF RequestInv, StepInv, HolderInv, Running, Calculating
<1>7. \A q \in Requests \ {r} : \A m \in Milestones : holder'[m] = q <=> holder[m] = q
  BY <1>1, NoOneAssumption DEF Released
<1> QED BY <1>1, <1>3, <1>4, <1>5, <1>6, <1>7, LocalStep

-----------------------------------------------------------------------------
LEMMA NextRace == RaceInv /\ [Next]_vars => RaceInv'
<1> SUFFICES ASSUME RaceInv, [Next]_vars PROVE RaceInv'
  OBVIOUS
<1>1. ASSUME NEW r \in Requests, Step(r) PROVE RaceInv'
  BY <1>1, StartKeeps, SaveKeeps, LoadKeeps, ReadsKeep, FlagsKeep, CommitKeeps, FailKeeps DEF Step
<1>2. CASE UNCHANGED vars
  <2>1. UNCHANGED <<items, closed, holder, pc, todo, sprints, loaded, verdict, written, flags,
                    touched, shared, contended>>
    BY <1>2 DEF vars, db, memory, overlap
  <2>2. ASSUME NEW r \in Requests PROVE RequestInv(r)'
    <3>1. RequestInv(r)
      BY DEF RaceInv
    <3> QED BY <2>1, <3>1, OthersKeep
  <2>3. TypeInv' /\ OverlapInv' /\ FlagsInv'
    BY <2>1 DEF RaceInv, TypeInv, OverlapInv, FlagsInv, Running, Complete
  <2> QED BY <2>2, <2>3 DEF RaceInv
<1> QED BY <1>1, <1>2 DEF Next

\* For any number of requests, items, sprints and server processes, and every interleaving of
\* their statements and commits: the flag of a sprint is right unless the last requests that
\* committed changes of its items overlapped on it, or a bulk endpoint left it wrong before and
\* none has come by since.
THEOREM LoneRequestsRight == Spec => []LoneRequestsGetItRight
<1>1. RaceInv => LoneRequestsGetItRight
  <2> SUFFICES ASSUME RaceInv, NEW m \in Milestones \ contended PROVE closed[m] = Complete(m)
    BY DEF LoneRequestsGetItRight
  <2>1. (closed[m] <=> Complete(m)) /\ closed[m] \in BOOLEAN
    BY DEF RaceInv, FlagsInv, TypeInv
  <2>2. Complete(m) \in BOOLEAN
    BY DEF Complete
  <2> QED BY <2>1, <2>2
<1> QED BY <1>1, InitRace, NextRace, PTL DEF Spec


(***************************************************************************)
(* Requests that wait for each other, where no flag may be wrong.          *)
(***************************************************************************)
At(r) == Head(sprints[r])

\* The flag a request waits to change is to be changed: it has not written it yet.
LEMMA Blocked ==
  ASSUME RaceInv, contended = {}, NEW f \in Requests, NEW g \in Requests, WaitsFor(f, g)
  PROVE  /\ f \in Running /\ At(f) \in Milestones /\ flags[f][At(f)] = Untouched
         /\ CompleteFor(f, At(f)) <=> ~ Complete(At(f))
<1>1. /\ pc[f] = "write" /\ pc[f] \in Calculating /\ f \in Running /\ TypeInv
      /\ Changes(f) /\ g # f /\ holder[At(f)] = g
  BY DEF WaitsFor, Calculating, Running, RaceInv, At
<1>2. /\ sprints[f] # <<>> /\ sprints[f] \in Seq(Milestones)
      /\ SprintsInv(f) /\ HolderInv(f)
  BY <1>1 DEF RaceInv, RequestInv, StepInv, TypeInv
<1>3. At(f) \in Milestones /\ At(f) \in Elements(sprints[f])
  BY <1>2, HeadAndTail DEF At
<1>4. flags[f][At(f)] = Untouched
  BY <1>1, <1>2, <1>3 DEF HolderInv
<1>5. At(f) \in Stable(f)
  BY <1>2, <1>3 DEF SprintsInv, Stable
<1>6. (loaded[f] <=> Closed(f, At(f))) /\ (verdict[f] <=> CompleteFor(f, At(f)))
  <2>1. \A m \in Stable(f) : Head(sprints[f]) = m =>
          (loaded[f] <=> Closed(f, m)) /\ (verdict[f] <=> CompleteFor(f, m))
    BY <1>1, VerdictSoFar
  <2> QED BY <2>1, <1>5 DEF At
<1>7. Closed(f, At(f)) = closed[At(f)]
  BY <1>4 DEF Closed
<1>8. closed[At(f)] <=> Complete(At(f))
  BY <1>3 DEF RaceInv, FlagsInv
<1>9. ~ (loaded[f] <=> verdict[f])
  BY <1>1 DEF Changes, TypeInv
<1> QED BY <1>1, <1>3, <1>4, <1>6, <1>7, <1>8, <1>9

\* The holder of a row has written one of its items in a way that concerns the sprint.
LEMMA Holds ==
  ASSUME RaceInv, contended = {}, NEW g \in Requests, NEW m \in Milestones, holder[m] = g
  PROVE  /\ g \in Running /\ flags[g][m] # Untouched
         /\ \A i \in Items \ Mine(g) : items[i].milestone = m => items[i].done
         /\ \E i \in Items : /\ i \in Mine(g) /\ written[g][i] # Untouched
                            /\ m \in {items[i].milestone, written[g][i].milestone}
<1>1. g \in Running /\ flags[g][m] # Untouched
  BY DEF RaceInv, RequestInv, HolderInv
<1>2. HeldInv(g) /\ ItemsInv(g)
  BY <1>1 DEF RaceInv, RequestInv
<1> QED BY <1>1, <1>2 DEF HeldInv, ItemsInv

\* A request that waits for a sprint it moves its items out of empties it, and it waits for one
\* that moves its items in.
LEMMA WaitsForArrivals ==
  ASSUME RaceInv, contended = {}, NEW f \in Requests, NEW g \in Requests, WaitsFor(f, g),
         NEW m \in Milestones, MovesTo(f, m), At(f) # m
  PROVE  /\ Complete(At(f))
         /\ \A i \in Items : items[i].milestone = At(f) => i \in Mine(f)
         /\ MovesTo(g, At(f))
<1> DEFINE y == At(f)
<1>1. /\ f \in Running /\ y \in Milestones
      /\ CompleteFor(f, y) <=> ~ Complete(y)
  BY Blocked
<1>2. f # g /\ holder[y] = g
  BY DEF WaitsFor, At
<1>3. /\ g \in Running
      /\ \A i \in Items \ Mine(g) : items[i].milestone = y => items[i].done
  BY <1>1, <1>2, Holds
<1>4. PICK w \in Items : /\ w \in Mine(g) /\ written[g][w] # Untouched
                         /\ y \in {items[w].milestone, written[g][w].milestone}
  BY <1>1, <1>2, Holds
<1>5. Mine(f) \cap Mine(g) = {}
  BY <1>2, OwnItems
<1>6. \A i \in Items : written[f][i] # Untouched => i \in Mine(f) /\ written[f][i].milestone # y
  BY <1>1 DEF RaceInv, RequestInv, ItemsInv, MovesTo
<1>7. \A i \in Items : \/ Row(f, i) = items[i] /\ written[f][i] = Untouched
                       \/ Row(f, i).milestone # y /\ i \in Mine(f)
  BY <1>6 DEF Row
<1> HIDE DEF y
<1>8. Complete(y)
  <2> SUFFICES ASSUME ~ Complete(y) PROVE FALSE
    OBVIOUS
  <2>1. CompleteFor(f, y)
    BY <1>1
  <2>2. \E i \in Items : items[i].milestone = y
    BY <2>1, <1>7 DEF CompleteFor
  <2>3. PICK k \in Items : items[k].milestone = y /\ ~ items[k].done
    BY <2>2 DEF Complete
  <2>4. k \in Mine(f)
    BY <2>1, <2>3, <1>7 DEF CompleteFor
  <2> QED BY <2>3, <2>4, <1>3, <1>5
<1>9. \A i \in Items : items[i].milestone = y => i \in Mine(f)
  <2> SUFFICES ASSUME NEW i \in Items, items[i].milestone = y, i \notin Mine(f) PROVE FALSE
    OBVIOUS
  <2>1. Row(f, i) = items[i]
    BY <1>7
  <2>2. \A k \in Items : Row(f, k).milestone = y => Row(f, k).done
    BY <1>7, <1>8 DEF Complete
  <2>3. CompleteFor(f, y)
    BY <2>1, <2>2 DEF CompleteFor
  <2> QED BY <2>3, <1>1, <1>8
<1>10. written[g][w].milestone = y /\ items[w].milestone # y
  BY <1>4, <1>5, <1>9
<1>11. MovesTo(g, y)
  <2>1. KindInv(g)
    BY <1>3 DEF RaceInv, RequestInv
  <2>2. ~ Turns(g)
    BY <1>4, <1>10 DEF Turns
  <2>3. PICK n \in Milestones : MovesTo(g, n)
    BY <2>1, <2>2 DEF KindInv
  <2>4. n = y
    BY <2>3, <1>4, <1>10 DEF MovesTo
  <2> QED BY <2>3, <2>4
<1> QED BY <1>8, <1>9, <1>11 DEF y

\* A request of one item that waits and is waited for moves its item, the only one of a sprint,
\* into an empty one.
LEMMA LoneMove ==
  ASSUME RaceInv, contended = {}, NEW r \in Requests, Len(Batch[r]) = 1,
         NEW h \in Requests, WaitsFor(r, h), NEW x \in Milestones, holder[x] = r
  PROVE  /\ MovesTo(r, x) /\ At(r) # x
         /\ \A i \in Items : items[i].milestone # x
<1> DEFINE y == At(r)
           b == Batch[r][1]
<1>1. /\ r \in Running /\ y \in Milestones /\ flags[r][y] = Untouched
      /\ r # h /\ holder[y] = h /\ pc[r] = "write"
  <2>1. r # h /\ holder[y] = h /\ pc[r] = "write"
    BY DEF WaitsFor, At
  <2> QED BY <2>1, Blocked
<1>2. flags[r][x] # Untouched
  BY Holds
<1>3. y # x
  BY <1>1, <1>2
<1>4. KindInv(r) /\ OrderInv(r) /\ ItemsInv(r)
  BY <1>1 DEF RaceInv, RequestInv
<1>5. /\ Len(sprints[r]) = 1 /\ sprints[r][1] = items[b].milestone
      /\ CompleteFor(r, x) <=> ~ Complete(x)
  <2>1. pc[r] \in Calculating
    BY <1>1 DEF Calculating
  <2>2. /\ Len(sprints[r]) \in {1, 2} /\ sprints[r][Len(sprints[r])] = items[b].milestone
        /\ Len(sprints[r]) = 2 => \A m \in Milestones : flags[r][m] = Untouched
        /\ CompleteFor(r, x) <=> ~ Complete(x)
    BY <2>1, <1>2, <1>4 DEF OrderInv
  <2>3. Len(sprints[r]) = 1
    BY <2>2, <1>2
  <2> QED BY <2>2, <2>3
<1>6. y = items[b].milestone
  <2>1. sprints[r] \in Seq(Milestones)
    BY DEF RaceInv, TypeInv
  <2> QED BY <2>1, <1>5 DEF At
<1>7. Mine(r) = {b} /\ b \in Items
  <2>1. Batch[r] \in Seq(Items)
    BY BatchAssumption
  <2>2. DOMAIN Batch[r] = {1}
    BY <2>1
  <2> QED BY <2>1, <2>2 DEF Mine, Elements
<1>8. PICK w \in Items : /\ w \in Mine(r) /\ written[r][w] # Untouched
                         /\ x \in {items[w].milestone, written[r][w].milestone}
  BY Holds
<1>9. w = b /\ written[r][b] # Untouched /\ written[r][b].milestone = x
  BY <1>8, <1>7, <1>6, <1>3
<1>10. MovesTo(r, x)
  <2>1. ~ Turns(r)
    BY <1>9, <1>7, <1>6, <1>3 DEF Turns
  <2>2. PICK m \in Milestones : MovesTo(r, m)
    BY <2>1, <1>4 DEF KindInv
  <2>3. m = x
    BY <2>2, <1>7, <1>9 DEF MovesTo
  <2> QED BY <2>2, <2>3
<1>11. Complete(y)
  BY <1>3, <1>10, WaitsForArrivals
<1>12. written[r][b].done
  <2>1. items[b].done
    BY <1>11, <1>6, <1>7 DEF Complete
  <2> QED BY <2>1, <1>7, <1>9, <1>10 DEF MovesTo
<1>13. \A i \in Items \ {b} : Row(r, i) = items[i]
  BY <1>4, <1>7 DEF ItemsInv, Row
<1>14. Row(r, b) = written[r][b]
  BY <1>9 DEF Row
<1> HIDE DEF y, b
<1>15. \A i \in Items : items[i].milestone # x
  <2>1. (\A i \in Items : items[i].milestone = x => items[i].done) =>
           CompleteFor(r, x)
    BY <1>7, <1>9, <1>12, <1>13, <1>14 DEF CompleteFor
  <2>2. Complete(x) => CompleteFor(r, x)
    BY <2>1 DEF Complete
  <2>3. CompleteFor(r, x) /\ ~ Complete(x)
    BY <2>2, <1>5
  <2>4. b \notin {i \in Items : items[i].milestone = x}
    BY <1>3, <1>6
  <2>5. \A i \in Items : items[i].milestone = x => items[i].done
    BY <2>3, <2>4, <1>13 DEF CompleteFor
  <2> QED BY <2>3, <2>5 DEF Complete
<1> QED BY <1>3, <1>10, <1>15 DEF y

\* In a finite set each member of which follows one, what those outside a closed part are
\* followed by is outside as well.
LEMMA NoWayIn ==
  ASSUME NEW S, IsFiniteSet(S), NEW succ \in [S -> S], NEW F \in SUBSET S,
         \A f \in F : succ[f] \in F,
         \A g \in S : \E f \in S : succ[f] = g,
         NEW p \in S, succ[p] \in F
  PROVE  p \in F
<1> SUFFICES ASSUME p \notin F PROVE FALSE
  OBVIOUS
<1> DEFINE G == S \ F
           T == {g \in G \ {p} : succ[g] \in G}
           s == [g \in T |-> succ[g]]
<1>1. IsFiniteSet(G) /\ p \in G
  BY FS_Subset
<1>2. IsFiniteSet(G \ {p}) /\ Cardinality(G \ {p}) = Cardinality(G) - 1 /\ Cardinality(G) \in Nat
  <2> HIDE DEF G
  <2> QED BY <1>1, FS_RemoveElement, FS_CardinalityType
<1>3. T \subseteq G \ {p}
  OBVIOUS
<1>4. IsFiniteSet(T) /\ Cardinality(T) <= Cardinality(G \ {p}) /\ Cardinality(T) \in Nat
  <2> HIDE DEF T, G
  <2> QED BY <1>2, <1>3, FS_Subset, FS_CardinalityType
<1>5. s \in Surjection(T, G)
  <2>1. s \in [T -> G]
    OBVIOUS
  <2>2. ASSUME NEW g \in G PROVE \E f \in T : s[f] = g
    <3>1. PICK f \in S : succ[f] = g
      OBVIOUS
    <3>2. f \in G /\ f # p
      BY <3>1
    <3> QED BY <3>1, <3>2
  <2> QED BY <2>1, <2>2 DEF Surjection
<1>6. Cardinality(G) <= Cardinality(T)
  <2> HIDE DEF T, G, s
  <2> QED BY <1>4, <1>5, FS_Surjection
<1> HIDE DEF T, G
<1> QED BY <1>2, <1>4, <1>6

LEMMA NoLoneDeadlock ==
  ASSUME RaceInv, contended = {}, NEW r \in Requests, Deadlocked(r)
  PROVE  Len(Batch[r]) > 1
<1>1. \E n \in Nat \ {0} : n = Len(Batch[r])
  <2>1. Batch[r] \in Seq(Items) /\ Batch[r] # <<>>
    BY BatchAssumption
  <2> QED BY <2>1
<1> SUFFICES ASSUME Len(Batch[r]) = 1 PROVE FALSE
  <2>1. \A n \in Nat \ {0} : n # 1 => n > 1
    OBVIOUS
  <2> QED BY <1>1, <2>1
<1>2. PICK S \in SUBSET Requests :
        /\ r \in S
        /\ \A p \in S : (\E q \in S : WaitsFor(p, q)) /\ (\E q \in S : WaitsFor(q, p))
  BY DEF Deadlocked
<1> DEFINE succ(f) == holder[At(f)]
           F == {f \in S : \E m \in Milestones : MovesTo(f, m) /\ At(f) # m}
<1>3. \A f, g \in Requests : WaitsFor(f, g) => succ(f) = g
  BY DEF WaitsFor, At
<1>4. \A f \in S : \E g \in S : g = succ(f) /\ WaitsFor(f, g)
  BY <1>2, <1>3
<1>5. \A g \in S : \E f \in S : succ(f) = g
  BY <1>2, <1>3
\* Those that wait for a sprint they do not move items to wait for each other.
<1>6. ASSUME NEW f \in F PROVE succ(f) \in F
  <2>1. PICK m \in Milestones : MovesTo(f, m) /\ At(f) # m
    OBVIOUS
  <2>2. PICK g \in S : g = succ(f) /\ WaitsFor(f, g)
    BY <1>4
  <2>3. PICK k \in S : k = succ(g) /\ WaitsFor(g, k)
    BY <1>4
  <2>4. f \in Requests /\ g \in Requests
    OBVIOUS
  <2>5. MovesTo(g, At(f)) /\ At(f) \in Milestones
    BY <2>1, <2>2, <2>4, WaitsForArrivals, Blocked
  <2>6. At(g) # At(f)
    <3>1. g # k
      BY <2>3 DEF WaitsFor
    <3> QED BY <2>2, <2>3, <3>1
  <2> QED BY <2>2, <2>5, <2>6
<1>7. PICK p \in S : WaitsFor(p, r)
  BY <1>2
<1>8. At(p) \in Milestones /\ holder[At(p)] = r /\ p \in Requests
  <2>1. p \in Requests
    BY <1>2
  <2> QED BY <2>1, <1>3, <1>7, Blocked
<1>9. PICK h \in Requests : WaitsFor(r, h)
  BY <1>2
<1>10. /\ MovesTo(r, At(p)) /\ At(r) # At(p)
       /\ \A i \in Items : items[i].milestone # At(p)
  BY <1>8, <1>9, LoneMove
<1>11. r \in F
  BY <1>2, <1>8, <1>10
<1>12. p \in F
  <2>1. IsFiniteSet(S)
    BY RequestsAssumption, FS_Subset
  <2> DEFINE s == [f \in S |-> succ(f)]
  <2>2. s \in [S -> S] /\ s[p] \in F /\ \A g \in S : \E f \in S : s[f] = g
    BY <1>4, <1>5, <1>8, <1>11
  <2>3. F \in SUBSET S /\ \A f \in F : s[f] \in F
    BY <1>6
  <2> HIDE DEF F, s
  <2> QED BY <2>1, <2>2, <2>3, NoWayIn
<1>13. PICK m \in Milestones : MovesTo(p, m) /\ At(p) # m
  BY <1>12
<1>14. Complete(At(p))
  BY <1>7, <1>8, <1>13, WaitsForArrivals
<1> QED BY <1>10, <1>14 DEF Complete

\* For any number of requests, items and sprints: where no flag may be wrong, a transaction that
\* saves one item is never among those that wait for each other's sprint rows, so PostgreSQL
\* fails none of them for a deadlock.
THEOREM BatchesDeadlock == Spec => []OnlyBatchesDeadlock
<1>1. RaceInv => OnlyBatchesDeadlock
  BY NoLoneDeadlock DEF OnlyBatchesDeadlock
<1> QED BY <1>1, InitRace, NextRace, PTL DEF Spec
=============================================================================

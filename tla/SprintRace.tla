------------------------------- MODULE SprintRace -------------------------------
(***************************************************************************)
(* Requests that save items of the same sprints at the same time.          *)
(*                                                                         *)
(* SprintClosing runs a request and its signal handlers in one step.  Here *)
(* every statement is a step of its own: several server processes run      *)
(* transactions at PostgreSQL's READ COMMITTED level, where a query sees   *)
(* what was committed when it starts and the transaction's own writes, an  *)
(* UPDATE locks its row until the commit, and nothing locks the rows that  *)
(* the calculation of a sprint reads.                                      *)
(*                                                                         *)
(* An item is a story, a task without a story or an issue: after a save    *)
(* the handlers of all three recalculate the sprint the item is in, then   *)
(* the one it was in.  The verdict on a story itself does not change here, *)
(* and two requests on one item are left to OptimisticLocking.             *)
(***************************************************************************)
EXTENDS FiniteSets, Sequences, Naturals

CONSTANTS
  Requests,    \* each is sent once
  Stories, LooseTasks, Issues,
  Batch,       \* the items each request saves, in order
  Milestones,
  BulkTargets, \* the sprints whose flag a bulk endpoint may have left wrong (SprintClosing)
  Targets,     \* the sprints that requests move items to
  Operations,  \* the changes requests make
  Workers,     \* server processes (gunicorn --workers)
  NoOne,       \* no holder of a row lock
  Untouched    \* a row the transaction has not written

Items == Stories \cup LooseTasks \cup Issues
Rows == [done : BOOLEAN, milestone : Milestones]

AllOperations == {"move",    \* move_userstories_to_sprint, move_tasks..., move_issues...
                  "status"}  \* a status that turns the item from open to closed or back

ASSUME RequestsAssumption == IsFiniteSet(Requests)
ASSUME OperationsAssumption == Operations \subseteq AllOperations
ASSUME MilestonesAssumption == Targets \cup BulkTargets \subseteq Milestones
ASSUME BatchAssumption ==
  /\ Batch \in [Requests -> Seq(Items) \ {<<>>}]
  /\ \A q, r \in Requests : \A j \in DOMAIN Batch[q], k \in DOMAIN Batch[r] :
       Batch[q][j] = Batch[r][k] => q = r /\ j = k
ASSUME WorkersAssumption == Workers \in Nat \ {0}
ASSUME NoOneAssumption == NoOne \notin Requests
ASSUME UntouchedAssumption == Untouched \notin Rows \cup BOOLEAN

VARIABLES
  items,     \* committed rows of the items
  closed,    \* committed Milestone.closed
  holder,    \* the request holding the lock on each milestone row
  pc,        \* where each request is
  todo,      \* the saves a request still has to make
  written,   \* the item rows of its transaction
  flags,     \* the closed flags of its transaction
  sprints,   \* the sprints to recalculate after its last save
  loaded,    \* the closed flag of the sprint object in its memory
  verdict,   \* the calculation as far as it has come
  touched,   \* the sprints its items come from and go to
  shared,    \* those of them that a request running at the same time touches too
  wrong,     \* the sprints whose flag is wrong at first
  contended  \* the sprints whose last requests overlapped, and those wrong at first

db == <<items, closed, holder>>
memory == <<todo, sprints, loaded, verdict>>
overlap == <<touched, shared, contended, wrong>>
vars == <<db, pc, memory, written, flags, overlap>>

-----------------------------------------------------------------------------
(* What a request sees.                                                    *)

Row(r, i) == IF written[r][i] = Untouched THEN items[i] ELSE written[r][i]
Closed(r, m) == IF flags[r][m] = Untouched THEN closed[m] ELSE flags[r][m]

AllDone(r, table) ==
  \A i \in table : Row(r, i).milestone = Head(sprints[r]) => Row(r, i).done

Complete(m) ==
  /\ \E i \in Items : items[i].milestone = m
  /\ \A i \in Items : items[i].milestone = m => items[i].done

Running == {r \in Requests : pc[r] \notin {"ready", "answered", "failed"}}

-----------------------------------------------------------------------------
Init ==
  /\ items \in [Items -> Rows]
  /\ wrong \in SUBSET BulkTargets
  /\ closed = [m \in Milestones |-> IF m \in wrong THEN ~ Complete(m) ELSE Complete(m)]
  /\ holder = [m \in Milestones |-> NoOne]
  /\ pc = [r \in Requests |-> "ready"]
  /\ todo = [r \in Requests |-> <<>>]
  /\ written = [r \in Requests |-> [i \in Items |-> Untouched]]
  /\ flags = [r \in Requests |-> [m \in Milestones |-> Untouched]]
  /\ sprints = [r \in Requests |-> <<>>]
  /\ loaded = [r \in Requests |-> FALSE]
  /\ verdict = [r \in Requests |-> TRUE]
  /\ touched = [r \in Requests |-> {}]
  /\ shared = [r \in Requests |-> {}]
  /\ contended = wrong

\* The rows a request may set out to save: bulk requests move several items to one sprint, a
\* status is changed one item at a time.
Saves(r) ==
  LET Save(row(_)) == [k \in DOMAIN Batch[r] |->
                        [item |-> Batch[r][k], row |-> row(items[Batch[r][k]])]]
  IN UNION {
       {LET Move(row) == [row EXCEPT !.milestone = m] IN Save(Move) :
          m \in {n \in Targets : "move" \in Operations}},
       {LET Turn(row) == [row EXCEPT !.done = d] IN Save(Turn) :
          d \in {c \in BOOLEAN : "status" \in Operations /\ Len(Batch[r]) = 1}}}

\* A free worker takes the request; its transaction begins with its first save.
Start(r) ==
  /\ pc[r] = "ready"
  /\ Cardinality(Running) < Workers
  /\ \E s \in Saves(r) :
       LET mine == UNION {{items[s[k].item].milestone, s[k].row.milestone} : k \in DOMAIN s}
       IN /\ todo' = [todo EXCEPT ![r] = s]
          /\ touched' = [touched EXCEPT ![r] = mine]
          /\ shared' = [q \in Requests |->
               CASE q = r -> mine \cap UNION {touched[p] : p \in Running}
                 [] q \in Running -> shared[q] \cup (touched[q] \cap mine)
                 [] OTHER -> shared[q]]
  /\ pc' = [pc EXCEPT ![r] = "save"]
  /\ UNCHANGED <<db, written, flags, sprints, loaded, verdict, contended, wrong>>

\* A mistake to detect: the sprint the item was in is forgotten.
Save_NoPrev(r) ==
  /\ pc[r] = "save"
  /\ LET s == Head(todo[r])
     IN /\ written' = [written EXCEPT ![r][s.item] = s.row]
        /\ sprints' = [sprints EXCEPT ![r] = <<s.row.milestone>>]
  /\ todo' = [todo EXCEPT ![r] = Tail(@)]
  /\ pc' = [pc EXCEPT ![r] = "load"]
  /\ UNCHANGED <<db, flags, loaded, verdict, overlap>>

\* pre_save reads the old row (instance.prev), then the UPDATE.
Save(r) ==
  /\ pc[r] = "save"
  /\ LET s == Head(todo[r])
         prev == Row(r, s.item).milestone
     IN /\ written' = [written EXCEPT ![r][s.item] = s.row]
        /\ sprints' = [sprints EXCEPT ![r] =
             <<s.row.milestone>> \o IF prev = s.row.milestone THEN <<>> ELSE <<prev>>]
  /\ todo' = [todo EXCEPT ![r] = Tail(@)]
  /\ pc' = [pc EXCEPT ![r] = "load"]
  /\ UNCHANGED <<db, flags, loaded, verdict, overlap>>

\* instance.milestone or instance.prev.milestone is fetched, with its closed flag.
LoadSprint(r) ==
  /\ pc[r] = "load"
  /\ loaded' = [loaded EXCEPT ![r] = Closed(r, Head(sprints[r]))]
  /\ verdict' = [verdict EXCEPT ![r] = TRUE]
  /\ pc' = [pc EXCEPT ![r] = "stories"]
  /\ UNCHANGED <<db, todo, written, flags, sprints, overlap>>

\* calculate_milestone_is_closed: one query for each kind of item, then the counts.
Read(r, from, to, fact) ==
  /\ pc[r] = from
  /\ verdict' = [verdict EXCEPT ![r] = @ /\ fact]
  /\ pc' = [pc EXCEPT ![r] = to]
  /\ UNCHANGED <<db, todo, written, flags, sprints, loaded, overlap>>

ReadStories(r) == Read(r, "stories", "tasks", AllDone(r, Stories))
ReadTasks(r) == Read(r, "tasks", "issues", AllDone(r, LooseTasks))
ReadIssues(r) == Read(r, "issues", "count", AllDone(r, Issues))
Count(r) ==
  Read(r, "count", "write", \E i \in Items : Row(r, i).milestone = Head(sprints[r]))

\* A mistake to detect: the handlers of a save start again.
SprintDone_Again(r) ==
  /\ pc' = [pc EXCEPT ![r] = "load"]
  /\ UNCHANGED sprints

\* On to the next sprint, the next item or the end of the transaction.
SprintDone(r) ==
  /\ sprints' = [sprints EXCEPT ![r] = Tail(@)]
  /\ pc' = [pc EXCEPT ![r] = CASE Len(sprints[r]) > 1 -> "load"
                               [] Len(sprints[r]) = 1 /\ todo[r] # <<>> -> "save"
                               [] OTHER -> "commit"]

\* A mistake to detect: the sprint is saved whether its flag changes or not.
Changes_Always(r) == TRUE

\* close_milestone and open_milestone compare with the flag loaded before.
Changes(r) == loaded[r] # verdict[r]

KeepClosed(r) ==
  /\ pc[r] = "write"
  /\ ~ Changes(r)
  /\ SprintDone(r)
  /\ UNCHANGED <<db, todo, written, flags, loaded, verdict, overlap>>

\* The UPDATE of the sprint waits for a transaction that holds its row.
WriteClosed(r) ==
  /\ pc[r] = "write"
  /\ Changes(r)
  /\ LET m == Head(sprints[r])
     IN /\ holder[m] \in {NoOne, r}
        /\ holder' = [holder EXCEPT ![m] = r]
        /\ flags' = [flags EXCEPT ![r][m] = verdict[r]]
  /\ SprintDone(r)
  /\ UNCHANGED <<items, closed, todo, written, loaded, verdict, overlap>>

Released(r) == [m \in Milestones |-> IF holder[m] = r THEN NoOne ELSE holder[m]]

Commit(r) ==
  /\ pc[r] = "commit"
  /\ items' = [i \in Items |-> Row(r, i)]
  /\ closed' = [m \in Milestones |-> Closed(r, m)]
  /\ holder' = Released(r)
  /\ pc' = [pc EXCEPT ![r] = "answered"]
  /\ contended' = (contended \ touched[r]) \cup shared[r]
  /\ UNCHANGED <<memory, written, flags, touched, shared, wrong>>

-----------------------------------------------------------------------------
(* PostgreSQL breaks a circle of waiting transactions by failing one.      *)

WaitsFor(p, q) ==
  /\ pc[p] = "write"
  /\ Changes(p)
  /\ q # p
  /\ holder[Head(sprints[p])] = q

Deadlocked(r) ==
  \E S \in SUBSET Requests :
    /\ r \in S
    /\ \A p \in S : (\E q \in S : WaitsFor(p, q)) /\ (\E q \in S : WaitsFor(q, p))

\* The transaction is rolled back and the client gets an error.
Fail(r) ==
  /\ Deadlocked(r)
  /\ holder' = Released(r)
  /\ pc' = [pc EXCEPT ![r] = "failed"]
  /\ UNCHANGED <<items, closed, memory, written, flags, overlap>>

-----------------------------------------------------------------------------
Step(r) ==
  \/ Start(r) \/ Save(r) \/ LoadSprint(r)
  \/ ReadStories(r) \/ ReadTasks(r) \/ ReadIssues(r) \/ Count(r)
  \/ KeepClosed(r) \/ WriteClosed(r) \/ Commit(r) \/ Fail(r)

Next == \E r \in Requests : Step(r)

Spec == Init /\ [][Next]_vars

\* A worker runs its request on, a free worker takes the next one from the
\* socket's queue, and a lock goes to those that wait for it.
FairSpec == Spec /\ \A r \in Requests : WF_vars(Step(r))

-----------------------------------------------------------------------------
(* Properties.                                                             *)

\* A sprint's flag is right unless the last requests that committed changes of its
\* items ran at the same time as others on that sprint: one request alone, or one
\* after the other, get it right, and put right what overlaps and bulk endpoints left
\* wrong before.
LoneRequestsGetItRight == \A m \in Milestones \ contended : closed[m] = Complete(m)

\* Every request is answered in the end, though requests wait for each other's
\* sprint rows and lock them in the order of their moves.
EveryRequestAnswered == \A r \in Requests : <>(pc[r] \in {"answered", "failed"})

\* A request that saves one item is never part of a deadlock unless flags may be wrong already:
\* a sprint's row is locked only when its flag changes, and what one such move changes, a
\* request in the opposite direction leaves alone.  Requests that move several items may
\* deadlock, as each may close one sprint and open the other.
OnlyBatchesDeadlock ==
  contended = {} => \A r \in Requests : Deadlocked(r) => Len(Batch[r]) > 1
=============================================================================

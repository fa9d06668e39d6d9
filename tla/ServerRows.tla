------------------------------- MODULE ServerRows -------------------------------
(***************************************************************************)
(* Parts of the server that keep rows consistent between requests, one of  *)
(* them in each behaviour: the project row, signal handlers, swimlanes,    *)
(* taskboard and mails.                                                    *)
(***************************************************************************)
EXTENDS Integers, Sequences, FiniteSets

CONSTANTS
  Users, ProjectRequests, None,                            \* the project row
  Processes, HandledTasks, MaxFailures,                    \* signal handlers
  Stories, LastLane, Deletions, MaxRequests, NoLane,       \* swimlanes
  Tasks, Cells, Tabs, Starts, MaxEvents,                   \* taskboard
  Authors, Values, Missed, Day, Interval, PageSize, MaxChanges, MaxInterruptions  \* mails

ASSUME NoneAssumption == None \notin Users \cup ProjectRequests

ASSUME HandlersAssumption == MaxFailures \in Nat

ASSUME LanesAssumption == LastLane \in Nat /\ NoLane \notin 1 .. LastLane

ASSUME StoriesAssumption == Stories \subseteq Nat /\ IsFiniteSet(Stories)

ASSUME TaskboardAssumption ==
  /\ Tasks \subseteq Nat /\ IsFiniteSet(Tasks) /\ MaxEvents \in Nat
  /\ \A start \in Starts : start \in [Tasks -> [cell : Cells, order : Nat]]

ASSUME MailsAssumption == MaxChanges \in Nat /\ Day \in Nat \ {0} /\ Missed \notin Values

VARIABLES
  what,  \* the part that runs; the others stay at zero
  row, members, likes, writers, pairs, decisions, settled,
  on, work, tasks, causes, doubtful, failures,
  lanes, default, lane, places, creation, deletions, drags, saves, home, moved, skewed, crossed,
  unset,
  rows, drops, informed, loads, cards, order, list, suspect, faults,
  value, pending, change, changes, batch, told, mailed, lost, interruptions, mixed

Project == INSTANCE ProjectRow WITH
  Requests <- ProjectRequests, requests <- writers, crossed <- pairs

Handlers == INSTANCE SignalHandlers WITH Tasks <- HandledTasks

Lanes == INSTANCE Swimlanes WITH order <- places

Taskboard == INSTANCE TaskboardOrder WITH requests <- drops, told <- informed

Mails == INSTANCE Notifications

-----------------------------------------------------------------------------
NoProject == row = 0 /\ members = 0 /\ likes = 0 /\ writers = 0 /\ pairs = 0 /\ decisions = 0
             /\ settled = 0
NoHandlers == on = 0 /\ work = 0 /\ tasks = 0 /\ causes = 0 /\ doubtful = 0 /\ failures = 0
NoLanes == lanes = 0 /\ default = 0 /\ lane = 0 /\ places = 0 /\ creation = 0 /\ deletions = 0
           /\ drags = 0 /\ saves = 0 /\ home = 0 /\ moved = 0 /\ skewed = 0 /\ crossed = 0 /\ unset = 0
NoTaskboard == rows = 0 /\ drops = 0 /\ informed = 0 /\ loads = 0 /\ cards = 0 /\ order = 0
               /\ list = 0 /\ suspect = 0 /\ faults = 0
NoMails == value = 0 /\ pending = 0 /\ change = 0 /\ changes = 0 /\ batch = 0 /\ told = 0
           /\ mailed = 0 /\ lost = 0 /\ interruptions = 0 /\ mixed = 0

Init ==
  \/ what = "project" /\ Project!Init /\ NoHandlers /\ NoLanes /\ NoTaskboard /\ NoMails
  \/ what = "handlers" /\ Handlers!Init /\ NoProject /\ NoLanes /\ NoTaskboard /\ NoMails
  \/ what = "lanes" /\ Lanes!Init /\ NoProject /\ NoHandlers /\ NoTaskboard /\ NoMails
  \/ what = "taskboard" /\ Taskboard!Init /\ NoProject /\ NoHandlers /\ NoLanes /\ NoMails
  \/ what = "mails" /\ Mails!Init /\ NoProject /\ NoHandlers /\ NoLanes /\ NoTaskboard

projectVars == <<row, members, likes, writers, pairs, decisions, settled>>
handlerVars == <<on, work, tasks, causes, doubtful, failures>>
laneVars == <<lanes, default, lane, places, creation, deletions, drags, saves, home, moved, skewed,
              crossed, unset>>
taskboardVars == <<rows, drops, informed, loads, cards, order, list, suspect, faults>>
mailVars == <<value, pending, change, changes, batch, told, mailed, lost, interruptions, mixed>>

Next ==
  \/ what = "project" /\ Project!Next
     /\ UNCHANGED <<what, handlerVars, laneVars, taskboardVars, mailVars>>
  \/ what = "handlers" /\ Handlers!Next
     /\ UNCHANGED <<what, projectVars, laneVars, taskboardVars, mailVars>>
  \/ what = "lanes" /\ Lanes!Next
     /\ UNCHANGED <<what, projectVars, handlerVars, taskboardVars, mailVars>>
  \/ what = "taskboard" /\ Taskboard!Next
     /\ UNCHANGED <<what, projectVars, handlerVars, laneVars, mailVars>>
  \/ what = "mails" /\ Mails!Next
     /\ UNCHANGED <<what, projectVars, handlerVars, laneVars, taskboardVars>>

Spec == Init /\ [][Next]_<<what, projectVars, handlerVars, laneVars, taskboardVars, mailVars>>

-----------------------------------------------------------------------------
(* The properties of the modules, for the part that runs.                  *)

\* The type invariants of the five modules.
TypesOK ==
  CASE what = "project" -> Project!TypeOK
    [] what = "handlers" -> Handlers!TypeOK
    [] what = "lanes" -> Lanes!TypeOK
    [] what = "taskboard" -> Taskboard!TypeOK
    [] what = "mails" -> Mails!TypeOK

\* The owner of a project stays one of its administrators.
OwnerIsAdmin == what = "project" => Project!OwnerIsAdmin

\* A transfer of a project is answered once.
DecidedOnce == what = "project" => Project!DecidedOnce

\* Totals that overlapping likes left wrong are right after the next request that runs alone.
LoneRecountHeals == what = "project" => Project!LoneRecountHeals

\* Handlers that a request disconnected are connected again when it is over.
HandlersComeBack == what = "handlers" => Handlers!HandlersComeBack

\* What handlers keep of a task is right wherever they were all connected.
TasksAreHandled == what = "handlers" => Handlers!TasksAreHandled

\* Deletions of lanes and drags between them leave every story in the lane it should be in.
StoriesKeepLane == what = "lanes" => Lanes!StoriesKeepLane

\* A project that has lanes has a default lane, unless a save of the project left it without.
DefaultLane == what = "lanes" => Lanes!DefaultLane

\* A tab shows the taskboard as it is in the database.
TabShowsOrder == what = "taskboard" => Taskboard!TabShowsOrder

\* Watchers know the last value from the mails they got, unless the last one failed.
WatchersKnow == what = "mails" => Mails!WatchersKnow

\* Every comment is mailed, and once, unless its mail failed.
CommentsAreMailed == what = "mails" => Mails!CommentsAreMailed

=============================================================================

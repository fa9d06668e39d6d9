---------------------------- MODULE SignalHandlers ----------------------------
(***************************************************************************)
(* The signal handlers of the server processes.  They are connected when a *)
(* process starts and belong to the whole of it; some requests disconnect  *)
(* those they want to do without, and connect them again.  A process       *)
(* handles one request at a time.  The tasks show what a missing handler   *)
(* does to the rows.                                                       *)
(***************************************************************************)
EXTENDS Naturals, FiniteSets

CONSTANTS
  Processes,
  Tasks,
  MaxFailures   \* bound: requests that fail, and processes killed

VARIABLES
  on,         \* process -> the handlers connected in it
  work,       \* process -> the kind of request it is at, and how far
  tasks,      \* task -> its row, Gone when there is none
  causes,     \* process -> history: what may have left handlers disconnected since it started
  doubtful,   \* history: the tasks last saved or made where a handler might be missing
  failures

vars == <<on, work, tasks, causes, doubtful, failures>>

-----------------------------------------------------------------------------
(* The groups that are connected together, named for what they do.         *)

TaskHandlers == {"finish task", "close story of task", "values of task"}
StoryHandlers == {"close story", "values of story"}
IssueHandlers == {"finish issue", "close sprint of issue", "values of issue"}

Handlers == TaskHandlers \cup StoryHandlers \cup IssueHandlers
            \cup {"tags of epic", "values of epic", "members", "events", "project"}

\* The tags of epics are disconnected by a name that they were not connected with.
Off(kind) ==
  CASE kind = "bulk tasks" -> {"finish task"}
    [] kind = "bulk stories" -> {"close story"}
    [] kind = "bulk issues" -> {"finish issue", "close sprint of issue"}
    [] kind = "bulk epics" -> {}
    [] kind = "delete story" -> TaskHandlers
    [] kind = "duplicate" -> {"project"}
    [] kind = "delete project" -> Handlers \ {"project", "tags of epic"}
    [] kind = "admin delete" -> Handlers \ {"project", "tags of epic", "values of epic"}

Kinds == {"bulk tasks", "bulk stories", "bulk issues", "bulk epics", "delete story", "duplicate",
          "delete project", "admin delete"}

On(kind) == IF kind = "delete project" THEN Handlers \ {"project"} ELSE Off(kind)

\* The kinds whose handlers come back in a finally.
Guarded_NotBulkTasks == Kinds \ {"delete story", "duplicate", "bulk tasks"}

Guarded == Kinds \ {"delete story", "duplicate"}

\* What a cause leaves disconnected.
Lost(cause) ==
  CASE cause = "import task" -> {"finish task"}
    [] cause = "import issue" -> {"finish issue"}
    [] cause = "delete story" -> TaskHandlers
    [] cause = "duplicate" -> {"project"}

Causes == {"import task", "import issue", "delete story", "duplicate"}

-----------------------------------------------------------------------------
Idle == [kind |-> "none", step |-> "idle"]
Gone == [closed |-> FALSE, finished |-> FALSE, values |-> FALSE, told |-> TRUE, exists |-> FALSE]

\* finished: it has a finished date; values: it has a row of custom values; told: its story and
\* sprint have been closed or opened for it.
TaskRows == [closed : BOOLEAN, finished : BOOLEAN, values : BOOLEAN, told : BOOLEAN,
             exists : BOOLEAN]

TypeOK ==
  /\ on \in [Processes -> SUBSET Handlers]
  /\ work \in [Processes -> [kind : Kinds \cup {"none"}, step : {"idle", "off", "stories gone"}]]
  /\ tasks \in [Tasks -> TaskRows]
  /\ causes \in [Processes -> SUBSET Causes]
  /\ doubtful \subseteq Tasks
  /\ failures \in 0 .. MaxFailures

Init ==
  /\ on = [p \in Processes |-> Handlers]
  /\ work = [p \in Processes |-> Idle]
  /\ tasks = [t \in Tasks |-> Gone]
  /\ causes = [p \in Processes |-> {}]
  /\ doubtful = {}
  /\ failures = 0

Free(p) == work[p] = Idle

Doing(p, kind) == work[p].kind = kind

-----------------------------------------------------------------------------
(* Tasks saved by the code that every process runs.                        *)

\* The row as the handlers of p leave it.
Saved_OnlyFinishes(p, t, closed) ==
  LET new == ~ tasks[t].exists
      finish == "finish task" \in on[p] /\ closed
  IN [closed |-> closed, exists |-> TRUE,
      finished |-> finish \/ tasks[t].finished,
      values |-> IF new THEN "values of task" \in on[p] ELSE tasks[t].values,
      told |-> "close story of task" \in on[p] \/ (tasks[t].told /\ ~ new /\ closed = tasks[t].closed)]

Saved(p, t, closed) ==
  LET new == ~ tasks[t].exists
      finish == "finish task" \in on[p]
  IN [closed |-> closed, exists |-> TRUE,
      finished |-> IF finish THEN closed ELSE tasks[t].finished,
      values |-> IF new THEN "values of task" \in on[p] ELSE tasks[t].values,
      told |-> "close story of task" \in on[p] \/ (tasks[t].told /\ ~ new /\ closed = tasks[t].closed)]

\* Without the row of its custom values a task stays doubtful, whoever saves it later.
Doubt(p, t) ==
  IF causes[p] # {} \/ Doing(p, "bulk tasks") THEN doubtful \cup {t}
  ELSE IF tasks[t].exists /\ ~ tasks[t].values THEN doubtful ELSE doubtful \ {t}

\* A task is created or edited.
SaveTask(p, t, closed) ==
  /\ Free(p)
  /\ tasks' = [tasks EXCEPT ![t] = Saved(p, t, closed)]
  /\ doubtful' = Doubt(p, t)
  /\ UNCHANGED <<on, work, causes, failures>>

\* The import of a task: the handler is disconnected, also when the data are refused, and the
\* task keeps the finished date that the data bring.
ImportTask(p, t, closed) ==
  /\ Free(p) /\ ~ tasks[t].exists
  /\ on' = [on EXCEPT ![p] = @ \ {"finish task"}]
  /\ causes' = [causes EXCEPT ![p] = @ \cup {"import task"}]
  /\ \/ UNCHANGED <<tasks, doubtful>>
     \/ \E finished \in BOOLEAN :
          /\ tasks' = [tasks EXCEPT ![t] = [Saved(p, t, closed) EXCEPT !.finished = finished]]
          /\ doubtful' = doubtful \cup {t}
  /\ UNCHANGED <<work, failures>>

ImportIssue(p) ==
  /\ Free(p)
  /\ on' = [on EXCEPT ![p] = @ \ {"finish issue"}]
  /\ causes' = [causes EXCEPT ![p] = @ \cup {"import issue"}]
  /\ UNCHANGED <<work, tasks, doubtful, failures>>

-----------------------------------------------------------------------------
(* Requests that do without some handlers.                                 *)

Disconnect(p, kind) ==
  /\ Free(p)
  /\ on' = [on EXCEPT ![p] = @ \ Off(kind)]
  /\ work' = [work EXCEPT ![p] = [kind |-> kind, step |-> "off"]]
  /\ UNCHANGED <<tasks, causes, doubtful, failures>>

\* Tasks are made in bulk in one status.
BulkTasks(p, new, closed) ==
  /\ Doing(p, "bulk tasks")
  /\ \A t \in new : ~ tasks[t].exists
  /\ tasks' = [t \in Tasks |-> IF t \in new THEN Saved(p, t, closed) ELSE tasks[t]]
  /\ doubtful' = doubtful \cup new

\* A story is deleted with its tasks.
DeleteTasks(old) ==
  /\ \A t \in old : tasks[t].exists
  /\ tasks' = [t \in Tasks |-> IF t \in old THEN Gone ELSE tasks[t]]
  /\ doubtful' = doubtful \ old

\* In the deletion of a project the deleted stories connect the handlers of tasks again.
DeleteStories(p) ==
  /\ Doing(p, "delete project") /\ work[p].step = "off"
  /\ on' = [on EXCEPT ![p] = @ \cup TaskHandlers]
  /\ work' = [work EXCEPT ![p].step = "stories gone"]
  /\ UNCHANGED <<tasks, causes, doubtful, failures>>

Finish(p) ==
  /\ ~ Free(p)
  /\ \/ \E new \in SUBSET Tasks, closed \in BOOLEAN : BulkTasks(p, new, closed)
     \/ work[p].kind \in {"delete story", "delete project", "admin delete"}
        /\ \E old \in SUBSET Tasks : DeleteTasks(old)
     \/ work[p].kind \in {"bulk stories", "bulk issues", "bulk epics", "duplicate"}
        /\ UNCHANGED <<tasks, doubtful>>
  /\ on' = [on EXCEPT ![p] = @ \cup On(work[p].kind)]
  /\ work' = [work EXCEPT ![p] = Idle]
  /\ UNCHANGED <<causes, failures>>

\* The database raises an error in between.
Fail(p) ==
  LET kind == work[p].kind IN
  /\ ~ Free(p)
  /\ failures < MaxFailures
  /\ failures' = failures + 1
  /\ on' = [on EXCEPT ![p] = IF kind \in Guarded THEN @ \cup On(kind) ELSE @]
  /\ causes' = [causes EXCEPT ![p] = @ \cup ({kind} \cap {"delete story", "duplicate"})]
  /\ work' = [work EXCEPT ![p] = Idle]
  /\ UNCHANGED <<tasks, doubtful>>

\* Killed, whatever it was at, and started again: every application connects its handlers.
Restart(p) ==
  /\ failures < MaxFailures
  /\ failures' = failures + 1
  /\ on' = [on EXCEPT ![p] = Handlers]
  /\ causes' = [causes EXCEPT ![p] = {}]
  /\ work' = [work EXCEPT ![p] = Idle]
  /\ UNCHANGED <<tasks, doubtful>>

Next == \E p \in Processes :
  \/ \E t \in Tasks, closed \in BOOLEAN : SaveTask(p, t, closed) \/ ImportTask(p, t, closed)
  \/ ImportIssue(p)
  \/ \E kind \in Kinds : Disconnect(p, kind)
  \/ DeleteStories(p) \/ Finish(p) \/ Fail(p) \/ Restart(p)

Spec == Init /\ [][Next]_vars

-----------------------------------------------------------------------------
\* Between two requests a process has all its handlers, whatever it served, deleted in a row,
\* failed at or was killed in, but for those that the import of an item, a failed deletion of a
\* story or a failed duplication left disconnected in this very process.
HandlersComeBack ==
  \A p \in Processes : Free(p) =>
    Handlers \ on[p] \subseteq UNION {Lost(cause) : cause \in causes[p]}

\* A task has a finished date if and only if it is closed, its custom values, and a story and a
\* sprint that know of it, whichever processes made and saved it, unless the last of them, or
\* the one that made it, was such a process or made it in bulk.
TasksAreHandled ==
  \A t \in Tasks \ doubtful : tasks[t].exists =>
    tasks[t].finished = tasks[t].closed /\ tasks[t].values /\ tasks[t].told

=============================================================================

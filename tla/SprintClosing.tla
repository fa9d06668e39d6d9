----------------------------- MODULE SprintClosing -----------------------------
(***************************************************************************)
(* Opening and closing of user stories and sprints (milestones).           *)
(*                                                                         *)
(* UserStory.is_closed and Milestone.closed are stored, not computed: the  *)
(* signal handlers of stories, tasks, issues and statuses recalculate them *)
(* after a save or a delete.  Bulk endpoints write rows directly, without  *)
(* signals, and leave the recalculation to a Celery job or do none.        *)
(*                                                                         *)
(* Requests are atomic here: a handler runs with all its signals before    *)
(* the next one (SprintRace takes them apart).  Jobs run later, one story  *)
(* or milestone at a time.                                                 *)
(***************************************************************************)
EXTENDS FiniteSets

CONSTANTS
  UserStories, Tasks, Issues, Milestones,
  UserStoryStatuses, TaskStatuses, IssueStatuses,
  ClosedStatuses,  \* the statuses with is_closed when the project starts
  Null,            \* NULL in a foreign key
  Absent,          \* no such row
  Paths            \* the ways of changing items that clients use

Statuses == UserStoryStatuses \cup TaskStatuses \cup IssueStatuses

UserStoryRows == [status : UserStoryStatuses, milestone : Milestones \cup {Null},
                  is_closed : BOOLEAN]
TaskRows == [status : TaskStatuses, user_story : UserStories \cup {Null},
             milestone : Milestones \cup {Null}]
IssueRows == [status : IssueStatuses, milestone : Milestones \cup {Null}]
MilestoneRows == [closed : BOOLEAN]

AllPaths == {"items",           \* create, edit, delete stories, tasks, issues, sprints
             "moves",           \* edit the sprint of a story; move stories and tasks to one
             "moves_and_edits", \* edit sprint and status of a story at once
             "kanban",          \* bulk_update_kanban_order
             "backlog",         \* bulk_update_backlog_order
             "bulk_milestone",  \* bulk_update_milestone of stories, tasks and issues
             "bulk_create",     \* bulk_create of stories and issues
             "us_status",       \* edit is_closed of a story status
             "task_status",     \* edit is_closed of a task status
             "issue_status",    \* edit is_closed of an issue status
             "status_delete"}   \* delete a status, moving its items

ASSUME PathsAssumption == Paths \subseteq AllPaths

ASSUME NullAssumption == Null \notin Milestones \cup UserStories

ASSUME AbsentAssumption ==
  Absent \notin UserStoryRows \cup TaskRows \cup IssueRows \cup MilestoneRows

ASSUME StatusesAssumption ==
  /\ UserStoryStatuses \cap TaskStatuses = {}
  /\ UserStoryStatuses \cap IssueStatuses = {}
  /\ TaskStatuses \cap IssueStatuses = {}

ASSUME ClosedStatusesAssumption == ClosedStatuses \subseteq Statuses

VARIABLES
  db,    \* the rows of the project
  jobs   \* the items each pending Celery job still has to handle

vars == <<db, jobs>>

-----------------------------------------------------------------------------
(* Reading the rows.                                                       *)

Live(table) == {i \in DOMAIN table : table[i] # Absent}

UserStoriesOf(d, m) == {s \in Live(d.us) : d.us[s].milestone = m}
TasksOf(d, s) == {t \in Live(d.task) : d.task[t].user_story = s}
LooseTasksOf(d, m) == {t \in TasksOf(d, Null) : d.task[t].milestone = m}
IssuesOf(d, m) == {i \in Live(d.issue) : d.issue[i].milestone = m}

\* A story is closed when all its tasks are, and by its own status without tasks.
CalculateUserstoryIsClosed(d, s) ==
  /\ TasksOf(d, s) = {} => d.us[s].status \in d.closed_statuses
  /\ \A t \in TasksOf(d, s) : d.task[t].status \in d.closed_statuses

AllClosed(d, m) ==
  /\ \A s \in UserStoriesOf(d, m) : d.us[s].is_closed
  /\ \A t \in LooseTasksOf(d, m) : d.task[t].status \in d.closed_statuses
  /\ \A i \in IssuesOf(d, m) : d.issue[i].status \in d.closed_statuses

HasItems(d, m) ==
  UserStoriesOf(d, m) # {} \/ LooseTasksOf(d, m) # {} \/ IssuesOf(d, m) # {}

CalculateMilestoneIsClosed(d, m) == HasItems(d, m) /\ AllClosed(d, m)

-----------------------------------------------------------------------------
(* The signal handlers, as functions from rows to rows.                    *)

\* close_milestone or open_milestone, whichever the calculation says.
RecalculateMilestone(d, m) ==
  IF m \in Live(d.milestone)
  THEN [d EXCEPT !.milestone[m].closed = CalculateMilestoneIsClosed(d, m)]
  ELSE d

\* After a delete the milestone is closed if complete, and never opened.
CloseMilestoneIfComplete(d, m) ==
  IF m \in Live(d.milestone) /\ CalculateMilestoneIsClosed(d, m)
  THEN [d EXCEPT !.milestone[m].closed = TRUE]
  ELSE d

\* close_userstory or open_userstory, without the handlers of its save.
RecalculateIsClosed(d, s) ==
  [d EXCEPT !.us[s].is_closed = CalculateUserstoryIsClosed(d, s)]

\* A mistake to detect: the tasks stay in the old milestone.
UpdateMilestoneOfTasks_Skipped(d, s) == d

\* The tasks of a story follow it to its milestone.
UpdateMilestoneOfTasks(d, s) ==
  [d EXCEPT !.task = [t \in DOMAIN d.task |->
     IF t \in TasksOf(d, s) THEN [d.task[t] EXCEPT !.milestone = d.us[s].milestone]
     ELSE d.task[t]]]

\* close_userstory or open_userstory of some stories: each one that changes is
\* saved, and the handlers of that save recalculate its milestone.
RecalculateUserstories(d, S) ==
  LET C == {s \in S : d.us[s].is_closed # CalculateUserstoryIsClosed(d, s)}
      M == {d.us[s].milestone : s \in C}
      e == [d EXCEPT
             !.us = [s \in DOMAIN d.us |->
               IF s \in C
               THEN [d.us[s] EXCEPT !.is_closed = CalculateUserstoryIsClosed(d, s)]
               ELSE d.us[s]],
             !.task = [t \in DOMAIN d.task |->
               IF t \in UNION {TasksOf(d, s) : s \in C}
               THEN [d.task[t] EXCEPT !.milestone = d.us[d.task[t].user_story].milestone]
               ELSE d.task[t]]]
  IN [e EXCEPT !.milestone = [m \in DOMAIN d.milestone |->
        IF m \in M \cap Live(d.milestone) THEN [closed |-> CalculateMilestoneIsClosed(e, m)]
        ELSE d.milestone[m]]]

RecalculateUserstory(d, s) ==
  IF s \in Live(d.us) THEN RecalculateUserstories(d, {s}) ELSE d

\* A mistake to detect: the milestone is calculated before the story.
AfterSaveUserstory_MilestoneFirst(d, s, prev) ==
  LET d1 == RecalculateMilestone(UpdateMilestoneOfTasks(d, s), d.us[s].milestone)
  IN RecalculateIsClosed(RecalculateMilestone(d1, prev), s)

\* post_save of a story whose row was in milestone prev before.  When is_closed
\* changes, the nested save replaces instance.prev by the row already saved, and
\* the milestone the story came from is not recalculated.
AfterSaveUserstory(d, s, prev) ==
  LET d1 == UpdateMilestoneOfTasks(d, s)
      d2 == RecalculateIsClosed(d1, s)
      d3 == RecalculateMilestone(d2, d.us[s].milestone)
  IN IF d2.us[s].is_closed # d.us[s].is_closed THEN d3
     ELSE RecalculateMilestone(d3, prev)

\* post_delete of a story: its tasks are gone with it, without their handlers.
AfterDeleteUserstory(d, row) == CloseMilestoneIfComplete(d, row.milestone)

\* A mistake to detect: the story the task was moved out of is forgotten.
AfterSaveTask_NoPrev(d, t, us, m) ==
  LET d1 == RecalculateUserstory(d, d.task[t].user_story)
  IN RecalculateMilestone(RecalculateMilestone(d1, d.task[t].milestone), m)

\* post_save of a task that was in story us and milestone m before.
AfterSaveTask(d, t, us, m) ==
  LET d1 == RecalculateUserstory(d, d.task[t].user_story)
      d2 == RecalculateUserstory(d1, us)
      d3 == RecalculateMilestone(d2, d.task[t].milestone)
  IN RecalculateMilestone(d3, m)

AfterDeleteTask(d, row) ==
  CloseMilestoneIfComplete(RecalculateUserstory(d, row.user_story), row.milestone)

\* post_save of an issue that was in milestone m before.
AfterSaveIssue(d, i, m) ==
  RecalculateMilestone(RecalculateMilestone(d, d.issue[i].milestone), m)

AfterDeleteIssue(d, row) == CloseMilestoneIfComplete(d, row.milestone)

-----------------------------------------------------------------------------
Init ==
  /\ db = [us |-> [s \in UserStories |-> Absent],
           task |-> [t \in Tasks |-> Absent],
           issue |-> [i \in Issues |-> Absent],
           milestone |-> [m \in Milestones |-> Absent],
           closed_statuses |-> ClosedStatuses]
  /\ jobs = [kanban |-> {}, backlog |-> {}]

\* A foreign key to a milestone of the project, or NULL.
MilestoneKeys == Live(db.milestone) \cup {Null}

CreateMilestone(m) ==
  /\ "items" \in Paths
  /\ db.milestone[m] = Absent
  /\ db' = [db EXCEPT !.milestone[m] = [closed |-> FALSE]]
  /\ UNCHANGED jobs

\* A mistake to detect: issues keep the key of the deleted milestone.
DeleteMilestone_IssuesKept(m) ==
  /\ "items" \in Paths
  /\ m \in Live(db.milestone)
  /\ db' = [db EXCEPT
       !.milestone[m] = Absent,
       !.us = [s \in UserStories |->
         IF s \in UserStoriesOf(db, m) THEN [db.us[s] EXCEPT !.milestone = Null]
         ELSE db.us[s]],
       !.task = [t \in Tasks |->
         IF t \in Live(db.task) /\ db.task[t].milestone = m
         THEN [db.task[t] EXCEPT !.milestone = Null] ELSE db.task[t]]]
  /\ UNCHANGED jobs

\* The rows of the milestone stay, with NULL in their foreign keys.
DeleteMilestone(m) ==
  /\ "items" \in Paths
  /\ m \in Live(db.milestone)
  /\ db' = [db EXCEPT
       !.milestone[m] = Absent,
       !.us = [s \in UserStories |->
         IF s \in UserStoriesOf(db, m) THEN [db.us[s] EXCEPT !.milestone = Null]
         ELSE db.us[s]],
       !.task = [t \in Tasks |->
         IF t \in Live(db.task) /\ db.task[t].milestone = m
         THEN [db.task[t] EXCEPT !.milestone = Null] ELSE db.task[t]],
       !.issue = [i \in Issues |->
         IF i \in IssuesOf(db, m) THEN [db.issue[i] EXCEPT !.milestone = Null]
         ELSE db.issue[i]]]
  /\ UNCHANGED jobs

CreateUserstory(s) ==
  /\ "items" \in Paths
  /\ db.us[s] = Absent
  /\ \E st \in UserStoryStatuses, m \in MilestoneKeys :
       LET d == [db EXCEPT !.us[s] = [status |-> st, milestone |-> m, is_closed |-> FALSE]]
       IN db' = AfterSaveUserstory(d, s, Null)
  /\ UNCHANGED jobs

\* PATCH of a story: the whole row is saved, then its handlers run.
SaveUserstory(s, st, m) ==
  LET d == [db EXCEPT !.us[s] = [@ EXCEPT !.status = st, !.milestone = m]]
  IN /\ db' = AfterSaveUserstory(d, s, db.us[s].milestone)
     /\ UNCHANGED jobs

EditUserstory(s) ==
  /\ "items" \in Paths
  /\ s \in Live(db.us)
  /\ \E st \in UserStoryStatuses : SaveUserstory(s, st, db.us[s].milestone)

\* PATCH of a story's milestone, or one of the stories of
\* move_userstories_to_sprint, which are saved one after the other.
MoveUserstory(s) ==
  /\ "moves" \in Paths
  /\ s \in Live(db.us)
  /\ \E m \in MilestoneKeys : SaveUserstory(s, db.us[s].status, m)

MoveAndEditUserstory(s) ==
  /\ "moves_and_edits" \in Paths
  /\ s \in Live(db.us)
  /\ \E st \in UserStoryStatuses, m \in MilestoneKeys : SaveUserstory(s, st, m)

DeleteUserstory(s) ==
  /\ "items" \in Paths
  /\ s \in Live(db.us)
  /\ LET d == [db EXCEPT
                !.us[s] = Absent,
                !.task = [t \in Tasks |-> IF t \in TasksOf(db, s) THEN Absent ELSE db.task[t]]]
     IN db' = AfterDeleteUserstory(d, db.us[s])
  /\ UNCHANGED jobs

-----------------------------------------------------------------------------
\* A task created or edited by itself is saved in the milestone of its story, if it
\* has one (pre_save).
TaskMilestone(us, m) == IF us = Null THEN m ELSE db.us[us].milestone

CreateTask(t) ==
  /\ "items" \in Paths
  /\ db.task[t] = Absent
  /\ \E st \in TaskStatuses, us \in Live(db.us) \cup {Null}, m \in MilestoneKeys :
       LET d == [db EXCEPT !.task[t] = [status |-> st, user_story |-> us,
                                        milestone |-> TaskMilestone(us, m)]]
       IN db' = AfterSaveTask(d, t, Null, Null)
  /\ UNCHANGED jobs

EditTask(t) ==
  /\ "items" \in Paths
  /\ t \in Live(db.task)
  /\ \E st \in TaskStatuses, us \in Live(db.us) \cup {Null}, m \in MilestoneKeys :
       LET d == [db EXCEPT !.task[t] = [status |-> st, user_story |-> us,
                                        milestone |-> TaskMilestone(us, m)]]
       IN db' = AfterSaveTask(d, t, db.task[t].user_story, db.task[t].milestone)
  /\ UNCHANGED jobs

\* One of the tasks of move_tasks_to_sprint, which are saved one after the other in
\* the sprint of the request, whatever sprint their stories are in.
MoveTaskToSprint(t) ==
  /\ "moves" \in Paths
  /\ t \in Live(db.task)
  /\ \E m \in Live(db.milestone) :
       LET d == [db EXCEPT !.task[t].milestone = m]
       IN db' = AfterSaveTask(d, t, db.task[t].user_story, db.task[t].milestone)
  /\ UNCHANGED jobs

DeleteTask(t) ==
  /\ "items" \in Paths
  /\ t \in Live(db.task)
  /\ db' = AfterDeleteTask([db EXCEPT !.task[t] = Absent], db.task[t])
  /\ UNCHANGED jobs

CreateIssue(i) ==
  /\ "items" \in Paths
  /\ db.issue[i] = Absent
  /\ \E st \in IssueStatuses, m \in MilestoneKeys :
       db' = AfterSaveIssue([db EXCEPT !.issue[i] = [status |-> st, milestone |-> m]], i, Null)
  /\ UNCHANGED jobs

EditIssue(i) ==
  /\ "items" \in Paths
  /\ i \in Live(db.issue)
  /\ \E st \in IssueStatuses, m \in MilestoneKeys :
       db' = AfterSaveIssue([db EXCEPT !.issue[i] = [status |-> st, milestone |-> m]],
                            i, db.issue[i].milestone)
  /\ UNCHANGED jobs

DeleteIssue(i) ==
  /\ "items" \in Paths
  /\ i \in Live(db.issue)
  /\ db' = AfterDeleteIssue([db EXCEPT !.issue[i] = Absent], db.issue[i])
  /\ UNCHANGED jobs

-----------------------------------------------------------------------------
(* Statuses.                                                               *)

\* The closed statuses after an edit of status st, which may change is_closed or not.
ClosedStatusesAfterEdit(st) == {db.closed_statuses \cup {st}, db.closed_statuses \ {st}}

EditUserStoryStatus(st) ==
  /\ "us_status" \in Paths
  /\ \E closed \in ClosedStatusesAfterEdit(st) :
       LET d == [db EXCEPT !.closed_statuses = closed]
       IN db' = RecalculateUserstories(d, {s \in Live(d.us) : d.us[s].status = st})
  /\ UNCHANGED jobs

\* Only stories with tasks in the status are recalculated.
EditTaskStatus(st) ==
  /\ "task_status" \in Paths
  /\ \E closed \in ClosedStatusesAfterEdit(st) :
       LET d == [db EXCEPT !.closed_statuses = closed]
       IN db' = RecalculateUserstories(d,
                  {s \in Live(d.us) : \E t \in TasksOf(d, s) : d.task[t].status = st})
  /\ UNCHANGED jobs

\* No handler is connected to issue statuses.
EditIssueStatus(st) ==
  /\ "issue_status" \in Paths
  /\ \E closed \in ClosedStatusesAfterEdit(st) : db' = [db EXCEPT !.closed_statuses = closed]
  /\ UNCHANGED jobs

\* MoveOnDestroyMixin.destroy: the rows are moved with a direct update.
Moved(table, st, to) ==
  [i \in DOMAIN table |-> IF i \in Live(table) /\ table[i].status = st
                          THEN [table[i] EXCEPT !.status = to] ELSE table[i]]

DestroyStatus(st, to) ==
  /\ "status_delete" \in Paths
  /\ st # to
  /\ \/ /\ {st, to} \subseteq UserStoryStatuses
        /\ db' = [db EXCEPT !.us = Moved(db.us, st, to)]
     \/ /\ {st, to} \subseteq TaskStatuses
        /\ db' = [db EXCEPT !.task = Moved(db.task, st, to)]
     \/ /\ {st, to} \subseteq IssueStatuses
        /\ db' = [db EXCEPT !.issue = Moved(db.issue, st, to)]
  /\ UNCHANGED jobs

-----------------------------------------------------------------------------
(* Bulk endpoints: direct updates, without signal handlers.                *)

\* A story created in bulk: the handlers are disconnected meanwhile.
BulkCreateUserstory(s) ==
  /\ "bulk_create" \in Paths
  /\ db.us[s] = Absent
  /\ \E st \in UserStoryStatuses :
       db' = [db EXCEPT !.us[s] = [status |-> st, milestone |-> Null, is_closed |-> FALSE]]
  /\ UNCHANGED jobs

\* Issues too, and those may be created in a milestone.
BulkCreateIssue(i) ==
  /\ "bulk_create" \in Paths
  /\ db.issue[i] = Absent
  /\ \E st \in IssueStatuses, m \in MilestoneKeys :
       db' = [db EXCEPT !.issue[i] = [status |-> st, milestone |-> m]]
  /\ UNCHANGED jobs

BulkUpdateKanbanOrder(S) ==
  /\ "kanban" \in Paths
  /\ S # {}
  /\ \E st \in UserStoryStatuses :
       db' = [db EXCEPT !.us = [s \in UserStories |->
                IF s \in S THEN [db.us[s] EXCEPT !.status = st] ELSE db.us[s]]]
  /\ jobs' = [jobs EXCEPT !.kanban = @ \cup S]

\* Stories and their tasks put in milestone m by direct updates.
WithMilestone(d, S, m) ==
  [d EXCEPT
    !.us = [s \in DOMAIN d.us |->
      IF s \in S THEN [d.us[s] EXCEPT !.milestone = m] ELSE d.us[s]],
    !.task = [t \in DOMAIN d.task |->
      IF t \in UNION {TasksOf(d, s) : s \in S}
      THEN [d.task[t] EXCEPT !.milestone = m] ELSE d.task[t]]]

\* Mistakes to detect: the milestones are those of the rows after the update;
\* the backlog counts as a milestone.
BulkUpdateBacklogOrder_NewOnly(S) ==
  /\ "backlog" \in Paths
  /\ S # {}
  /\ \E m \in MilestoneKeys :
       /\ db' = WithMilestone(db, S, m)
       /\ jobs' = [jobs EXCEPT !.backlog = @ \cup ({m} \ {Null})]

BulkUpdateBacklogOrder_NullSent(S) ==
  /\ "backlog" \in Paths
  /\ S # {}
  /\ \E m \in MilestoneKeys :
       /\ db' = WithMilestone(db, S, m)
       /\ jobs' = [jobs EXCEPT !.backlog = @ \cup {db.us[s].milestone : s \in S} \cup {m}]

\* The milestones to recalculate are found before the rows change.
BulkUpdateBacklogOrder(S) ==
  /\ "backlog" \in Paths
  /\ S # {}
  /\ \E m \in MilestoneKeys :
       /\ db' = WithMilestone(db, S, m)
       /\ jobs' = [jobs EXCEPT !.backlog =
                     @ \cup (({db.us[s].milestone : s \in S} \cup {m}) \ {Null})]

BulkUpdateMilestone(S) ==
  /\ "bulk_milestone" \in Paths
  /\ S # {}
  /\ \E m \in Live(db.milestone) : db' = WithMilestone(db, S, m)
  /\ UNCHANGED jobs

BulkUpdateMilestoneOfTask(t) ==
  /\ "bulk_milestone" \in Paths
  /\ t \in Live(db.task)
  /\ \E m \in Live(db.milestone) : db' = [db EXCEPT !.task[t].milestone = m]
  /\ UNCHANGED jobs

BulkUpdateMilestoneOfIssue(i) ==
  /\ "bulk_milestone" \in Paths
  /\ i \in Live(db.issue)
  /\ \E m \in Live(db.milestone) : db' = [db EXCEPT !.issue[i].milestone = m]
  /\ UNCHANGED jobs

\* A mistake to detect: a job is lost.
RunKanbanJob_Lost(s) ==
  /\ s \in jobs.kanban
  /\ jobs' = [jobs EXCEPT !.kanban = @ \ {s}]
  /\ UNCHANGED db

\* _async_tasks_after_kanban_order_change, for one of its stories.
RunKanbanJob(s) ==
  /\ s \in jobs.kanban
  /\ db' = RecalculateUserstory(db, s)
  /\ jobs' = [jobs EXCEPT !.kanban = @ \ {s}]

\* _async_tasks_after_backlog_or_sprint_order_change, for one of its milestones.
RunBacklogJob(m) ==
  /\ m \in jobs.backlog
  /\ db' = RecalculateMilestone(db, m)
  /\ jobs' = [jobs EXCEPT !.backlog = @ \ {m}]

-----------------------------------------------------------------------------
Request ==
  \/ \E m \in Milestones : CreateMilestone(m) \/ DeleteMilestone(m)
  \/ \E s \in UserStories :
       \/ CreateUserstory(s) \/ EditUserstory(s) \/ DeleteUserstory(s)
       \/ MoveUserstory(s) \/ MoveAndEditUserstory(s) \/ BulkCreateUserstory(s)
  \/ \E t \in Tasks :
       \/ CreateTask(t) \/ EditTask(t) \/ DeleteTask(t)
       \/ MoveTaskToSprint(t) \/ BulkUpdateMilestoneOfTask(t)
  \/ \E i \in Issues :
       \/ CreateIssue(i) \/ EditIssue(i) \/ DeleteIssue(i)
       \/ BulkCreateIssue(i) \/ BulkUpdateMilestoneOfIssue(i)
  \/ \E st \in UserStoryStatuses : EditUserStoryStatus(st)
  \/ \E st \in TaskStatuses : EditTaskStatus(st)
  \/ \E st \in IssueStatuses : EditIssueStatus(st)
  \/ \E st, to \in Statuses : DestroyStatus(st, to)
  \/ \E S \in SUBSET Live(db.us) :
       \/ BulkUpdateKanbanOrder(S) \/ BulkUpdateBacklogOrder(S) \/ BulkUpdateMilestone(S)

Next ==
  \/ Request
  \/ \E s \in UserStories : RunKanbanJob(s)
  \/ \E m \in Milestones : RunBacklogJob(m)

Spec == Init /\ [][Next]_vars

\* The Celery worker runs every job it is sent.
FairSpec ==
  /\ Spec
  /\ \A s \in UserStories : WF_vars(RunKanbanJob(s))
  /\ \A m \in Milestones : WF_vars(RunBacklogJob(m))

-----------------------------------------------------------------------------
(* Properties.                                                             *)

DbType ==
  [us : [UserStories -> UserStoryRows \cup {Absent}],
   task : [Tasks -> TaskRows \cup {Absent}],
   issue : [Issues -> IssueRows \cup {Absent}],
   milestone : [Milestones -> MilestoneRows \cup {Absent}],
   closed_statuses : SUBSET Statuses]

JobsType == [kanban : SUBSET UserStories, backlog : SUBSET Milestones]

\* The types of the rows and of the pending jobs: a job names stories or sprints,
\* never the backlog.
TypeOK == db \in DbType /\ jobs \in JobsType

\* Whatever endpoint moved, deleted or bulk-updated them, no story, task or issue
\* refers to a sprint or a story that is gone.
NoDanglingReferences ==
  /\ \A s \in Live(db.us) : db.us[s].milestone \in MilestoneKeys
  /\ \A i \in Live(db.issue) : db.issue[i].milestone \in MilestoneKeys
  /\ \A t \in Live(db.task) : /\ db.task[t].milestone \in MilestoneKeys
                             /\ db.task[t].user_story \in Live(db.us) \cup {Null}

\* The tasks outside the sprint of their story.
Apart(d) ==
  {t \in Live(d.task) : /\ d.task[t].user_story \in Live(d.us)
                        /\ d.task[t].milestone # d.us[d.task[t].user_story].milestone}

\* No move, drag, edit or deletion of a story or a sprint leaves a task behind: a
\* task comes to be outside the sprint of its story only by a request that moves
\* this task, no other one and no story to another sprint.
TaskFollowsStory ==
  [][\A t \in Apart(db') \ Apart(db) :
       /\ db'.us = db.us
       /\ db'.task = [db.task EXCEPT ![t].milestone = db'.task[t].milestone]]_vars

\* The stored is_closed of a story is what its tasks and statuses say, unless a
\* job that will recalculate it is pending.
StoryTruthful ==
  \A s \in Live(db.us) :
    db.us[s].is_closed = CalculateUserstoryIsClosed(db, s) \/ s \in jobs.kanban

\* A sprint stays open as long as it contains unfinished items: none that is
\* closed holds one, unless a job that will recalculate it is pending.
ClosedSprintIsDone ==
  \A m \in Live(db.milestone) :
    db.milestone[m].closed => AllClosed(db, m) \/ m \in jobs.backlog

\* A sprint with items, all of them closed, is closed, unless a job that will
\* recalculate it is pending.
DoneSprintIsClosed ==
  \A m \in Live(db.milestone) :
    CalculateMilestoneIsClosed(db, m) => db.milestone[m].closed \/ m \in jobs.backlog

StoryStale(s) ==
  s \in Live(db.us) /\ db.us[s].is_closed # CalculateUserstoryIsClosed(db, s)
SprintStale(m) ==
  m \in Live(db.milestone) /\ HasItems(db, m) /\ db.milestone[m].closed # AllClosed(db, m)

\* Every stale story and every stale sprint is put right in the end, however many
\* requests come in meanwhile, if the worker runs the jobs it is sent.
CatchUp ==
  /\ \A s \in UserStories : StoryStale(s) ~> ~ StoryStale(s)
  /\ \A m \in Milestones : SprintStale(m) ~> ~ SprintStale(m)
=============================================================================

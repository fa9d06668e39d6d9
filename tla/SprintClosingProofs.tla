-------------------------- MODULE SprintClosingProofs --------------------------
(* Theorems about SprintClosing.                                            *)
EXTENDS SprintClosing, TLAPS

(***************************************************************************)
(* What each handler does to the tables.                                   *)
(***************************************************************************)
\* Rows that are not Absent have the type of the table.
LEMMA LiveRows ==
  ASSUME NEW d \in DbType
  PROVE  /\ Live(d.us) \subseteq UserStories
         /\ \A s \in Live(d.us) : d.us[s] \in UserStoryRows
         /\ Live(d.task) \subseteq Tasks
         /\ \A t \in Live(d.task) : d.task[t] \in TaskRows
         /\ Live(d.issue) \subseteq Issues
         /\ \A i \in Live(d.issue) : d.issue[i] \in IssueRows
         /\ Live(d.milestone) \subseteq Milestones
         /\ \A m \in Live(d.milestone) : d.milestone[m] \in MilestoneRows
  BY DEF DbType, Live

LEMMA VerdictIsBoolean ==
  ASSUME NEW d, NEW x
  PROVE  CalculateUserstoryIsClosed(d, x) \in BOOLEAN /\ CalculateMilestoneIsClosed(d, x) \in BOOLEAN
BY DEF CalculateUserstoryIsClosed, CalculateMilestoneIsClosed

LEMMA RecalculateMilestoneType ==
  ASSUME NEW d \in DbType, NEW m
  PROVE  RecalculateMilestone(d, m) \in DbType
<1>1. ASSUME m \in Live(d.milestone)
      PROVE  [d.milestone[m] EXCEPT !.closed = CalculateMilestoneIsClosed(d, m)] \in MilestoneRows
  BY <1>1, LiveRows, VerdictIsBoolean DEF MilestoneRows
<1> QED BY <1>1 DEF RecalculateMilestone, DbType

LEMMA RecalculateIsClosedType ==
  ASSUME NEW d \in DbType, NEW s \in Live(d.us)
  PROVE  RecalculateIsClosed(d, s) \in DbType
<1>1. [d.us[s] EXCEPT !.is_closed = CalculateUserstoryIsClosed(d, s)] \in UserStoryRows
  BY LiveRows, VerdictIsBoolean DEF UserStoryRows
<1> QED BY <1>1 DEF RecalculateIsClosed, DbType

LEMMA CloseMilestoneIfCompleteType ==
  ASSUME NEW d \in DbType, NEW m
  PROVE  CloseMilestoneIfComplete(d, m) \in DbType
BY LiveRows DEF CloseMilestoneIfComplete, DbType, MilestoneRows

LEMMA UpdateMilestoneOfTasksType ==
  ASSUME NEW d \in DbType, NEW s \in Live(d.us)
  PROVE  UpdateMilestoneOfTasks(d, s) \in DbType
<1>1. d.us[s].milestone \in Milestones \cup {Null}
  BY LiveRows DEF UserStoryRows
<1>2. ASSUME NEW t \in Tasks, t \in TasksOf(d, s)
      PROVE  [d.task[t] EXCEPT !.milestone = d.us[s].milestone] \in TaskRows
  BY <1>1, <1>2, LiveRows DEF TasksOf, TaskRows
<1>3. [t \in DOMAIN d.task |->
         IF t \in TasksOf(d, s) THEN [d.task[t] EXCEPT !.milestone = d.us[s].milestone]
         ELSE d.task[t]] \in [Tasks -> TaskRows \cup {Absent}]
  BY <1>2 DEF DbType
<1> QED BY <1>3 DEF UpdateMilestoneOfTasks, DbType

LEMMA RecalculateUserstoriesType ==
  ASSUME NEW d \in DbType, NEW S \in SUBSET Live(d.us)
  PROVE  RecalculateUserstories(d, S) \in DbType
<1> DEFINE C == {s \in S : d.us[s].is_closed # CalculateUserstoryIsClosed(d, s)}
           M == {d.us[s].milestone : s \in C}
           us1 == [s \in DOMAIN d.us |->
             IF s \in C THEN [d.us[s] EXCEPT !.is_closed = CalculateUserstoryIsClosed(d, s)]
             ELSE d.us[s]]
           task1 == [t \in DOMAIN d.task |->
             IF t \in UNION {TasksOf(d, s) : s \in C}
             THEN [d.task[t] EXCEPT !.milestone = d.us[d.task[t].user_story].milestone]
             ELSE d.task[t]]
           e == [d EXCEPT !.us = us1, !.task = task1]
           milestone1 == [m \in DOMAIN e.milestone |->
             IF m \in M \cap Live(e.milestone) THEN [closed |-> CalculateMilestoneIsClosed(e, m)]
             ELSE e.milestone[m]]
<1>1. us1 \in [UserStories -> UserStoryRows \cup {Absent}]
  <2>1. ASSUME NEW s \in C
        PROVE  [d.us[s] EXCEPT !.is_closed = CalculateUserstoryIsClosed(d, s)] \in UserStoryRows
    <3>1. CalculateUserstoryIsClosed(d, s) \in BOOLEAN
      BY VerdictIsBoolean
    <3> QED BY <3>1, LiveRows DEF UserStoryRows
  <2> HIDE DEF C
  <2> QED BY <2>1 DEF DbType
<1>2. task1 \in [Tasks -> TaskRows \cup {Absent}]
  <2>1. ASSUME NEW s \in C, NEW t \in TasksOf(d, s)
        PROVE  [d.task[t] EXCEPT !.milestone = d.us[d.task[t].user_story].milestone]
                 \in TaskRows
    BY LiveRows DEF UserStoryRows, TaskRows, TasksOf
  <2> QED BY <2>1 DEF DbType
<1>3. e \in DbType
  BY <1>1, <1>2 DEF DbType
<1>4. milestone1 \in [Milestones -> MilestoneRows \cup {Absent}]
  <2>1. ASSUME NEW m PROVE [closed |-> CalculateMilestoneIsClosed(e, m)] \in MilestoneRows
    BY VerdictIsBoolean DEF MilestoneRows
  <2>2. e.milestone \in [Milestones -> MilestoneRows \cup {Absent}]
    BY <1>3 DEF DbType
  <2> HIDE DEF e, M
  <2> QED BY <2>1, <2>2
<1>5. [e EXCEPT !.milestone = milestone1] \in DbType
  BY <1>3, <1>4 DEF DbType
<1> QED BY <1>5 DEF RecalculateUserstories

LEMMA RecalculateUserstoryType ==
  ASSUME NEW d \in DbType, NEW s
  PROVE  RecalculateUserstory(d, s) \in DbType
BY RecalculateUserstoriesType DEF RecalculateUserstory

LEMMA AfterSaveUserstoryType ==
  ASSUME NEW d \in DbType, NEW s \in Live(d.us), NEW prev
  PROVE  AfterSaveUserstory(d, s, prev) \in DbType
<1> DEFINE d1 == UpdateMilestoneOfTasks(d, s)
           d2 == RecalculateIsClosed(d1, s)
           d3 == RecalculateMilestone(d2, d.us[s].milestone)
<1>1. d1 \in DbType /\ s \in Live(d1.us)
  BY UpdateMilestoneOfTasksType DEF UpdateMilestoneOfTasks, DbType
<1>2. d2 \in DbType
  <2> HIDE DEF d1
  <2> QED BY <1>1, RecalculateIsClosedType
<1>3. d3 \in DbType /\ RecalculateMilestone(d3, prev) \in DbType
  <2> HIDE DEF d2
  <2> QED BY <1>2, RecalculateMilestoneType
<1> QED
  <2> HIDE DEF d3
  <2> QED BY <1>3 DEF AfterSaveUserstory, d3

LEMMA AfterSaveTaskType ==
  ASSUME NEW d \in DbType, NEW t, NEW us, NEW m
  PROVE  AfterSaveTask(d, t, us, m) \in DbType
BY RecalculateUserstoryType, RecalculateMilestoneType DEF AfterSaveTask

LEMMA AfterSaveIssueType ==
  ASSUME NEW d \in DbType, NEW i, NEW m
  PROVE  AfterSaveIssue(d, i, m) \in DbType
BY RecalculateMilestoneType DEF AfterSaveIssue

LEMMA AfterDeleteType ==
  ASSUME NEW d \in DbType, NEW row
  PROVE  /\ AfterDeleteUserstory(d, row) \in DbType
         /\ AfterDeleteTask(d, row) \in DbType
         /\ AfterDeleteIssue(d, row) \in DbType
BY CloseMilestoneIfCompleteType, RecalculateUserstoryType
   DEF AfterDeleteUserstory, AfterDeleteTask, AfterDeleteIssue

LEMMA WithMilestoneType ==
  ASSUME NEW d \in DbType, NEW S \in SUBSET Live(d.us), NEW m \in Milestones \cup {Null}
  PROVE  WithMilestone(d, S, m) \in DbType
<1>1. ASSUME NEW s \in S PROVE [d.us[s] EXCEPT !.milestone = m] \in UserStoryRows
  BY LiveRows DEF UserStoryRows
<1>2. ASSUME NEW s \in S, NEW t \in TasksOf(d, s)
      PROVE  [d.task[t] EXCEPT !.milestone = m] \in TaskRows
  BY LiveRows DEF TaskRows, TasksOf
<1>3. [s \in DOMAIN d.us |->
        IF s \in S THEN [d.us[s] EXCEPT !.milestone = m] ELSE d.us[s]]
        \in [UserStories -> UserStoryRows \cup {Absent}]
  BY <1>1 DEF DbType
<1>4. [t \in DOMAIN d.task |->
        IF t \in UNION {TasksOf(d, s) : s \in S}
        THEN [d.task[t] EXCEPT !.milestone = m] ELSE d.task[t]]
        \in [Tasks -> TaskRows \cup {Absent}]
  BY <1>2 DEF DbType
<1> QED BY <1>3, <1>4 DEF WithMilestone, DbType

-----------------------------------------------------------------------------
(***************************************************************************)
(* TypeOK.                                                                 *)
(***************************************************************************)
LEMMA MilestoneKeysType == ASSUME TypeOK PROVE MilestoneKeys \subseteq Milestones \cup {Null}
BY LiveRows DEF TypeOK, MilestoneKeys

LEMMA InitType == Init => TypeOK
BY ClosedStatusesAssumption DEF Init, TypeOK, DbType, JobsType

LEMMA MilestoneActionsType ==
  ASSUME TypeOK, NEW m \in Milestones, CreateMilestone(m) \/ DeleteMilestone(m)
  PROVE  TypeOK'
<1>1. CASE CreateMilestone(m)
  BY <1>1 DEF CreateMilestone, TypeOK, DbType, MilestoneRows
<1>2. CASE DeleteMilestone(m)
  <2>1. ASSUME NEW s \in UserStoriesOf(db, m)
        PROVE  [db.us[s] EXCEPT !.milestone = Null] \in UserStoryRows
    BY LiveRows DEF TypeOK, UserStoryRows, UserStoriesOf
  <2>2. ASSUME NEW t \in Live(db.task)
        PROVE  [db.task[t] EXCEPT !.milestone = Null] \in TaskRows
    BY LiveRows DEF TypeOK, TaskRows
  <2>3. ASSUME NEW i \in IssuesOf(db, m)
        PROVE  [db.issue[i] EXCEPT !.milestone = Null] \in IssueRows
    BY LiveRows DEF TypeOK, IssueRows, IssuesOf
  <2> QED BY <1>2, <2>1, <2>2, <2>3 DEF DeleteMilestone, TypeOK, DbType
<1> QED BY <1>1, <1>2

LEMMA SaveUserstoryType ==
  ASSUME TypeOK, NEW s \in Live(db.us), NEW st \in UserStoryStatuses,
         NEW m \in Milestones \cup {Null}, SaveUserstory(s, st, m)
  PROVE  TypeOK'
<1> DEFINE row == [db.us[s] EXCEPT !.status = st, !.milestone = m]
           d == [db EXCEPT !.us[s] = row]
<1>1. row \in UserStoryRows /\ s \in UserStories
  BY LiveRows DEF TypeOK, UserStoryRows
<1>2. d \in DbType /\ s \in Live(d.us)
  <2> HIDE DEF row
  <2> QED BY <1>1, AbsentAssumption DEF TypeOK, DbType, Live
<1>3. db' = AfterSaveUserstory(d, s, db.us[s].milestone)
  BY DEF SaveUserstory
<1> HIDE DEF d
<1> QED BY <1>2, <1>3, AfterSaveUserstoryType DEF SaveUserstory, TypeOK

LEMMA UserstoryActionsType ==
  ASSUME TypeOK, NEW s \in UserStories,
         \/ CreateUserstory(s) \/ EditUserstory(s) \/ DeleteUserstory(s)
         \/ MoveUserstory(s) \/ MoveAndEditUserstory(s) \/ BulkCreateUserstory(s)
  PROVE  TypeOK'
<1>1. ASSUME NEW st \in UserStoryStatuses, NEW m \in Milestones \cup {Null}
      PROVE  [status |-> st, milestone |-> m, is_closed |-> FALSE] \in UserStoryRows
  BY DEF UserStoryRows
<1>2. CASE CreateUserstory(s)
  <2>1. PICK st \in UserStoryStatuses, m \in MilestoneKeys :
          db' = AfterSaveUserstory(
                  [db EXCEPT !.us[s] = [status |-> st, milestone |-> m, is_closed |-> FALSE]],
                  s, Null)
    BY <1>2 DEF CreateUserstory
  <2> DEFINE row == [status |-> st, milestone |-> m, is_closed |-> FALSE]
             d == [db EXCEPT !.us[s] = row]
  <2>2. row \in UserStoryRows
    BY <1>1, MilestoneKeysType
  <2>3. d \in DbType /\ s \in Live(d.us)
    <3> HIDE DEF row
    <3> QED BY <2>2, AbsentAssumption DEF TypeOK, DbType, Live
  <2>4. db' = AfterSaveUserstory(d, s, Null)
    BY <2>1
  <2> HIDE DEF d
  <2> QED BY <1>2, <2>3, <2>4, AfterSaveUserstoryType DEF CreateUserstory, TypeOK
<1>3. CASE EditUserstory(s)
  <2>1. s \in Live(db.us) /\ db.us[s].milestone \in Milestones \cup {Null}
    BY <1>3, LiveRows DEF EditUserstory, TypeOK, UserStoryRows
  <2>2. PICK st \in UserStoryStatuses : SaveUserstory(s, st, db.us[s].milestone)
    BY <1>3 DEF EditUserstory
  <2> QED BY <2>1, <2>2, SaveUserstoryType
<1>4. CASE DeleteUserstory(s)
  <2> DEFINE d == [db EXCEPT
                    !.us[s] = Absent,
                    !.task = [t \in Tasks |-> IF t \in TasksOf(db, s) THEN Absent ELSE db.task[t]]]
  <2>1. d \in DbType
    BY DEF TypeOK, DbType
  <2>2. db' = AfterDeleteUserstory(d, db.us[s]) /\ UNCHANGED jobs
    BY <1>4 DEF DeleteUserstory
  <2> HIDE DEF d
  <2> QED BY <2>1, <2>2, AfterDeleteType DEF TypeOK
<1>5. CASE MoveUserstory(s)
  <2>1. s \in Live(db.us) /\ db.us[s].status \in UserStoryStatuses
    BY <1>5, LiveRows DEF MoveUserstory, TypeOK, UserStoryRows
  <2>2. PICK m \in MilestoneKeys : SaveUserstory(s, db.us[s].status, m)
    BY <1>5 DEF MoveUserstory
  <2> QED BY <2>1, <2>2, SaveUserstoryType, MilestoneKeysType
<1>6. CASE MoveAndEditUserstory(s)
  BY <1>6, SaveUserstoryType, MilestoneKeysType DEF MoveAndEditUserstory
<1>7. CASE BulkCreateUserstory(s)
  <2>1. PICK st \in UserStoryStatuses :
          db' = [db EXCEPT !.us[s] = [status |-> st, milestone |-> Null, is_closed |-> FALSE]]
    BY <1>7 DEF BulkCreateUserstory
  <2>2. [status |-> st, milestone |-> Null, is_closed |-> FALSE] \in UserStoryRows
    BY <1>1
  <2> QED BY <1>7, <2>1, <2>2 DEF BulkCreateUserstory, TypeOK, DbType
<1> QED BY <1>2, <1>3, <1>4, <1>5, <1>6, <1>7

LEMMA TaskActionsType ==
  ASSUME TypeOK, NEW t \in Tasks,
         \/ CreateTask(t) \/ EditTask(t) \/ DeleteTask(t)
         \/ MoveTaskToSprint(t) \/ BulkUpdateMilestoneOfTask(t)
  PROVE  TypeOK'
<1>1. ASSUME NEW st \in TaskStatuses, NEW us \in Live(db.us) \cup {Null}, NEW m \in MilestoneKeys
      PROVE  [db EXCEPT !.task[t] = [status |-> st, user_story |-> us,
                                     milestone |-> TaskMilestone(us, m)]] \in DbType
  <2>1. TaskMilestone(us, m) \in Milestones \cup {Null}
    BY LiveRows, MilestoneKeysType DEF TaskMilestone, TypeOK, UserStoryRows
  <2>2. [status |-> st, user_story |-> us, milestone |-> TaskMilestone(us, m)] \in TaskRows
    BY <2>1, LiveRows DEF TaskRows, TypeOK
  <2> QED BY <2>2 DEF TypeOK, DbType
<1>2. CASE CreateTask(t)
  BY <1>1, <1>2, AfterSaveTaskType DEF CreateTask, TypeOK
<1>3. CASE EditTask(t)
  BY <1>1, <1>3, AfterSaveTaskType DEF EditTask, TypeOK
<1>4. CASE DeleteTask(t)
  <2>1. [db EXCEPT !.task[t] = Absent] \in DbType
    BY DEF TypeOK, DbType
  <2> QED BY <1>4, <2>1, AfterDeleteType DEF DeleteTask, TypeOK
<1>5. ASSUME NEW m \in Milestones, t \in Live(db.task)
      PROVE  [db EXCEPT !.task[t].milestone = m] \in DbType
  <2>1. [db.task[t] EXCEPT !.milestone = m] \in TaskRows
    BY <1>5, LiveRows DEF TypeOK, TaskRows
  <2> QED BY <2>1 DEF TypeOK, DbType
<1>6. CASE MoveTaskToSprint(t)
  <2>1. PICK m \in Milestones :
          LET d == [db EXCEPT !.task[t].milestone = m]
          IN db' = AfterSaveTask(d, t, db.task[t].user_story, db.task[t].milestone)
    BY <1>6, LiveRows DEF MoveTaskToSprint, TypeOK
  <2> QED BY <1>5, <1>6, <2>1, AfterSaveTaskType DEF MoveTaskToSprint, TypeOK
<1>7. CASE BulkUpdateMilestoneOfTask(t)
  <2>1. PICK m \in Milestones : db' = [db EXCEPT !.task[t].milestone = m]
    BY <1>7, LiveRows DEF BulkUpdateMilestoneOfTask, TypeOK
  <2> QED BY <1>5, <1>7, <2>1 DEF BulkUpdateMilestoneOfTask, TypeOK
<1> QED BY <1>2, <1>3, <1>4, <1>6, <1>7

LEMMA IssueActionsType ==
  ASSUME TypeOK, NEW i \in Issues,
         \/ CreateIssue(i) \/ EditIssue(i) \/ DeleteIssue(i)
         \/ BulkCreateIssue(i) \/ BulkUpdateMilestoneOfIssue(i)
  PROVE  TypeOK'
<1>1. ASSUME NEW st \in IssueStatuses, NEW m \in MilestoneKeys
      PROVE  [db EXCEPT !.issue[i] = [status |-> st, milestone |-> m]] \in DbType
  <2>1. [status |-> st, milestone |-> m] \in IssueRows
    BY MilestoneKeysType DEF IssueRows
  <2> QED BY <2>1 DEF TypeOK, DbType
<1>2. CASE CreateIssue(i) \/ EditIssue(i) \/ BulkCreateIssue(i)
  <2>1. PICK st \in IssueStatuses, m \in MilestoneKeys :
          LET d == [db EXCEPT !.issue[i] = [status |-> st, milestone |-> m]]
          IN \/ db' = AfterSaveIssue(d, i, Null)
             \/ db' = AfterSaveIssue(d, i, db.issue[i].milestone)
             \/ db' = d
    <3>1. CASE CreateIssue(i) BY <3>1 DEF CreateIssue
    <3>2. CASE EditIssue(i) BY <3>2 DEF EditIssue
    <3>3. CASE BulkCreateIssue(i) BY <3>3 DEF BulkCreateIssue
    <3> QED BY <1>2, <3>1, <3>2, <3>3
  <2>2. db' \in DbType
    <3> DEFINE d == [db EXCEPT !.issue[i] = [status |-> st, milestone |-> m]]
    <3>1. d \in DbType BY <1>1
    <3>2. \/ db' = AfterSaveIssue(d, i, Null)
          \/ db' = AfterSaveIssue(d, i, db.issue[i].milestone)
          \/ db' = d
      BY <2>1
    <3> HIDE DEF d
    <3> QED BY <3>1, <3>2, AfterSaveIssueType
  <2> QED BY <1>2, <2>2 DEF CreateIssue, EditIssue, BulkCreateIssue, TypeOK
<1>3. CASE DeleteIssue(i)
  <2>1. [db EXCEPT !.issue[i] = Absent] \in DbType
    BY DEF TypeOK, DbType
  <2> QED BY <1>3, <2>1, AfterDeleteType DEF DeleteIssue, TypeOK
<1>4. CASE BulkUpdateMilestoneOfIssue(i)
  <2>1. PICK m \in Milestones : db' = [db EXCEPT !.issue[i].milestone = m]
    BY <1>4, LiveRows DEF BulkUpdateMilestoneOfIssue, TypeOK
  <2>2. [db.issue[i] EXCEPT !.milestone = m] \in IssueRows
    BY <1>4, LiveRows DEF BulkUpdateMilestoneOfIssue, TypeOK, IssueRows
  <2> QED BY <1>4, <2>1, <2>2 DEF BulkUpdateMilestoneOfIssue, TypeOK, DbType
<1> QED BY <1>2, <1>3, <1>4

LEMMA StatusActionsType ==
  ASSUME TypeOK,
         \/ \E st \in UserStoryStatuses : EditUserStoryStatus(st)
         \/ \E st \in TaskStatuses : EditTaskStatus(st)
         \/ \E st \in IssueStatuses : EditIssueStatus(st)
         \/ \E st, to \in Statuses : DestroyStatus(st, to)
  PROVE  TypeOK'
<1>1. ASSUME NEW st \in Statuses, NEW closed \in ClosedStatusesAfterEdit(st)
      PROVE  [db EXCEPT !.closed_statuses = closed] \in DbType
  BY DEF ClosedStatusesAfterEdit, TypeOK, DbType
<1>3. CASE \E st \in UserStoryStatuses : EditUserStoryStatus(st)
  <2>1. PICK st \in UserStoryStatuses : EditUserStoryStatus(st) BY <1>3
  <2>2. PICK closed \in ClosedStatusesAfterEdit(st) :
          LET d == [db EXCEPT !.closed_statuses = closed]
          IN db' = RecalculateUserstories(d, {s \in Live(d.us) : d.us[s].status = st})
    BY <2>1 DEF EditUserStoryStatus
  <2> DEFINE d == [db EXCEPT !.closed_statuses = closed]
             S == {s \in Live(d.us) : d.us[s].status = st}
  <2>3. d \in DbType BY <1>1 DEF Statuses
  <2>4. db' = RecalculateUserstories(d, S) BY <2>2
  <2> HIDE DEF d
  <2> QED BY <2>1, <2>3, <2>4, RecalculateUserstoriesType DEF EditUserStoryStatus, TypeOK
<1>4. CASE \E st \in TaskStatuses : EditTaskStatus(st)
  <2>1. PICK st \in TaskStatuses : EditTaskStatus(st) BY <1>4
  <2>2. PICK closed \in ClosedStatusesAfterEdit(st) :
          LET d == [db EXCEPT !.closed_statuses = closed]
          IN db' = RecalculateUserstories(d,
               {s \in Live(d.us) : \E t \in TasksOf(d, s) : d.task[t].status = st})
    BY <2>1 DEF EditTaskStatus
  <2> DEFINE d == [db EXCEPT !.closed_statuses = closed]
             S == {s \in Live(d.us) : \E t \in TasksOf(d, s) : d.task[t].status = st}
  <2>3. d \in DbType BY <1>1 DEF Statuses
  <2>4. db' = RecalculateUserstories(d, S) BY <2>2
  <2> HIDE DEF d
  <2> QED BY <2>1, <2>3, <2>4, RecalculateUserstoriesType DEF EditTaskStatus, TypeOK
<1>5. CASE \E st \in IssueStatuses : EditIssueStatus(st)
  BY <1>1, <1>5 DEF EditIssueStatus, TypeOK, Statuses
<1>6. CASE \E st, to \in Statuses : DestroyStatus(st, to)
  <2>1. PICK st \in Statuses, to \in Statuses : DestroyStatus(st, to) BY <1>6
  <2>2. to \in UserStoryStatuses => Moved(db.us, st, to) \in [UserStories -> UserStoryRows \cup {Absent}]
    BY LiveRows DEF Moved, TypeOK, DbType, UserStoryRows
  <2>3. to \in TaskStatuses => Moved(db.task, st, to) \in [Tasks -> TaskRows \cup {Absent}]
    BY LiveRows DEF Moved, TypeOK, DbType, TaskRows
  <2>4. to \in IssueStatuses => Moved(db.issue, st, to) \in [Issues -> IssueRows \cup {Absent}]
    BY LiveRows DEF Moved, TypeOK, DbType, IssueRows
  <2> HIDE DEF Moved
  <2> QED BY <2>1, <2>2, <2>3, <2>4 DEF DestroyStatus, TypeOK, DbType
<1> QED BY <1>3, <1>4, <1>5, <1>6

LEMMA BulkActionsType ==
  ASSUME TypeOK, NEW S \in SUBSET Live(db.us),
         BulkUpdateKanbanOrder(S) \/ BulkUpdateBacklogOrder(S) \/ BulkUpdateMilestone(S)
  PROVE  TypeOK'
<1>1. S \subseteq UserStories
  BY LiveRows DEF TypeOK
<1>2. CASE BulkUpdateKanbanOrder(S)
  <2>1. PICK st \in UserStoryStatuses :
          db' = [db EXCEPT !.us = [s \in UserStories |->
                  IF s \in S THEN [db.us[s] EXCEPT !.status = st] ELSE db.us[s]]]
    BY <1>2 DEF BulkUpdateKanbanOrder
  <2>2. ASSUME NEW s \in S PROVE [db.us[s] EXCEPT !.status = st] \in UserStoryRows
    BY LiveRows DEF TypeOK, UserStoryRows
  <2>3. db' \in DbType
    BY <2>1, <2>2 DEF TypeOK, DbType
  <2> QED BY <1>1, <1>2, <2>3 DEF BulkUpdateKanbanOrder, TypeOK, JobsType
<1>3. CASE BulkUpdateBacklogOrder(S)
  <2>1. PICK m \in MilestoneKeys :
          /\ db' = WithMilestone(db, S, m)
          /\ jobs' = [jobs EXCEPT !.backlog =
                        @ \cup (({db.us[s].milestone : s \in S} \cup {m}) \ {Null})]
    BY <1>3 DEF BulkUpdateBacklogOrder
  <2>2. \A s \in S : db.us[s].milestone \in Milestones \cup {Null}
    BY LiveRows DEF TypeOK, UserStoryRows
  <2>3. db' \in DbType
    BY <2>1, WithMilestoneType, MilestoneKeysType DEF TypeOK
  <2> QED BY <2>1, <2>2, <2>3, MilestoneKeysType DEF TypeOK, JobsType
<1>4. CASE BulkUpdateMilestone(S)
  BY <1>4, WithMilestoneType, LiveRows DEF BulkUpdateMilestone, TypeOK
<1> QED BY <1>2, <1>3, <1>4

LEMMA JobActionsType ==
  ASSUME TypeOK,
         \/ \E s \in UserStories : RunKanbanJob(s)
         \/ \E m \in Milestones : RunBacklogJob(m)
  PROVE  TypeOK'
BY RecalculateUserstoryType, RecalculateMilestoneType
   DEF RunKanbanJob, RunBacklogJob, TypeOK, JobsType

LEMMA NextType == TypeOK /\ [Next]_vars => TypeOK'
<1> SUFFICES ASSUME TypeOK, [Next]_vars PROVE TypeOK'
  OBVIOUS
<1>1. CASE UNCHANGED vars
  BY <1>1 DEF vars, TypeOK
<1>2. CASE Next
  BY <1>2, MilestoneActionsType, UserstoryActionsType, TaskActionsType, IssueActionsType,
     StatusActionsType, BulkActionsType, JobActionsType DEF Next, Request
<1> QED BY <1>1, <1>2

\* Rows and jobs have their types in every reachable state, for any number of items
\* and whichever endpoints are used.
THEOREM TypeCorrect == Spec => []TypeOK
<1>1. Init => TypeOK BY InitType
<1>2. TypeOK /\ [Next]_vars => TypeOK' BY NextType
<1> QED BY <1>1, <1>2, PTL DEF Spec

-----------------------------------------------------------------------------
(***************************************************************************)
(* StoryTruthful, when no endpoint is used that forgets to recalculate.    *)
(***************************************************************************)
Truthful(d, s) == d.us[s].is_closed = CalculateUserstoryIsClosed(d, s)

\* What the calculation of a story reads is the same in d and e.
SameBasis(d, e, s) ==
  /\ TasksOf(e, s) = TasksOf(d, s)
  /\ \A t \in TasksOf(d, s) :
       e.task[t].status \in e.closed_statuses <=> d.task[t].status \in d.closed_statuses
  /\ e.us[s].status \in e.closed_statuses <=> d.us[s].status \in d.closed_statuses

LEMMA SameVerdict ==
  ASSUME NEW d, NEW e, NEW s, SameBasis(d, e, s)
  PROVE  CalculateUserstoryIsClosed(e, s) <=> CalculateUserstoryIsClosed(d, s)
BY DEF SameBasis, CalculateUserstoryIsClosed

\* e comes from d by recalculating at least the stories in S.
Recalculated(d, e, S) ==
  /\ Live(e.us) = Live(d.us)
  /\ \A s \in Live(d.us) :
       /\ SameBasis(d, e, s)
       /\ \/ e.us[s].is_closed = d.us[s].is_closed
          \/ Truthful(e, s)
       /\ s \in S => Truthful(e, s)

LEMMA RecalculatedTwice ==
  ASSUME NEW d \in DbType, NEW e \in DbType, NEW f \in DbType, NEW S, NEW T,
         Recalculated(d, e, S), Recalculated(e, f, T)
  PROVE  Recalculated(d, f, S \cup T)
<1>1. Live(f.us) = Live(d.us)
  BY DEF Recalculated
<1>2. ASSUME NEW s \in Live(d.us)
      PROVE  /\ SameBasis(d, f, s)
             /\ f.us[s].is_closed = d.us[s].is_closed \/ Truthful(f, s)
             /\ s \in S \cup T => Truthful(f, s)
  <2>1. SameBasis(d, e, s) /\ SameBasis(e, f, s)
    BY DEF Recalculated
  <2>2. SameBasis(d, f, s)
    BY <2>1 DEF SameBasis
  <2>3. Truthful(e, s) /\ f.us[s].is_closed = e.us[s].is_closed => Truthful(f, s)
    <3>1. CalculateUserstoryIsClosed(f, s) <=> CalculateUserstoryIsClosed(e, s)
      BY <2>1, SameVerdict
    <3>2. CalculateUserstoryIsClosed(f, s) \in BOOLEAN /\ CalculateUserstoryIsClosed(e, s) \in BOOLEAN
      BY VerdictIsBoolean
    <3> QED BY <3>1, <3>2, Zenon DEF Truthful
  <2> QED BY <2>2, <2>3 DEF Recalculated
<1> QED BY <1>1, <1>2 DEF Recalculated

LEMMA MilestoneUpdateRecalculated ==
  ASSUME NEW d \in DbType, NEW m
  PROVE  /\ Recalculated(d, RecalculateMilestone(d, m), {})
         /\ Recalculated(d, CloseMilestoneIfComplete(d, m), {})
<1>1. ASSUME NEW e, e.us = d.us, e.task = d.task, e.closed_statuses = d.closed_statuses
      PROVE  Recalculated(d, e, {})
  BY <1>1 DEF Recalculated, SameBasis, TasksOf
<1>2. /\ RecalculateMilestone(d, m).us = d.us
      /\ RecalculateMilestone(d, m).task = d.task
      /\ RecalculateMilestone(d, m).closed_statuses = d.closed_statuses
  BY DEF RecalculateMilestone, DbType
<1>3. /\ CloseMilestoneIfComplete(d, m).us = d.us
      /\ CloseMilestoneIfComplete(d, m).task = d.task
      /\ CloseMilestoneIfComplete(d, m).closed_statuses = d.closed_statuses
  BY DEF CloseMilestoneIfComplete, DbType
<1> QED BY <1>1, <1>2, <1>3

LEMMA TasksUpdateRecalculated ==
  ASSUME NEW d \in DbType, NEW s \in Live(d.us)
  PROVE  Recalculated(d, UpdateMilestoneOfTasks(d, s), {})
<1> DEFINE e == UpdateMilestoneOfTasks(d, s)
<1>1. e.us = d.us /\ e.closed_statuses = d.closed_statuses
  BY DEF UpdateMilestoneOfTasks, DbType
<1>2. e.task = [t \in DOMAIN d.task |->
         IF t \in TasksOf(d, s) THEN [d.task[t] EXCEPT !.milestone = d.us[s].milestone]
         ELSE d.task[t]]
  BY DEF UpdateMilestoneOfTasks, DbType
<1>3. e \in DbType
  BY UpdateMilestoneOfTasksType
<1>4. ASSUME NEW t \in DOMAIN d.task
      PROVE  /\ e.task[t] = Absent <=> d.task[t] = Absent
             /\ d.task[t] # Absent => /\ e.task[t].status = d.task[t].status
                                      /\ e.task[t].user_story = d.task[t].user_story
  <2>1. CASE t \in TasksOf(d, s)
    <3>1. d.task[t] \in TaskRows /\ t \in Tasks
      BY <2>1, LiveRows DEF TasksOf
    <3>2. e.task[t] = [d.task[t] EXCEPT !.milestone = d.us[s].milestone]
      BY <1>2, <2>1
    <3>3. e.task[t] \in TaskRows
      BY <3>1, <3>2, LiveRows DEF TaskRows, UserStoryRows
    <3> QED BY <3>1, <3>2, <3>3, AbsentAssumption DEF TaskRows
  <2>2. CASE t \notin TasksOf(d, s)
    <3> HIDE DEF e
    <3> QED BY <1>2, <2>2
  <2> QED BY <2>1, <2>2
<1>5. DOMAIN e.task = DOMAIN d.task
  BY <1>2
<1>6. \A x \in Live(d.us) : TasksOf(e, x) = TasksOf(d, x)
  <2> HIDE DEF e
  <2> QED BY <1>4, <1>5 DEF TasksOf, Live
<1> HIDE DEF e
<1>7. ASSUME NEW x \in Live(d.us) PROVE SameBasis(d, e, x)
  <2>1. \A t \in TasksOf(d, x) : e.task[t].status = d.task[t].status
    BY <1>4 DEF TasksOf, Live
  <2> QED BY <1>1, <1>6, <2>1 DEF SameBasis
<1> QED BY <1>1, <1>7 DEF Recalculated, e

LEMMA StoryRecalculated ==
  ASSUME NEW d \in DbType, NEW s \in Live(d.us)
  PROVE  Recalculated(d, RecalculateIsClosed(d, s), {s})
<1> DEFINE row == [d.us[s] EXCEPT !.is_closed = CalculateUserstoryIsClosed(d, s)]
           e == [d EXCEPT !.us[s] = row]
<1>1. RecalculateIsClosed(d, s) = e
  BY DEF RecalculateIsClosed, DbType
<1>2. d.us[s] \in UserStoryRows /\ s \in UserStories
  BY LiveRows
<1>3. CalculateUserstoryIsClosed(d, s) \in BOOLEAN
  BY VerdictIsBoolean
<1>4. /\ row \in UserStoryRows
      /\ row.status = d.us[s].status
      /\ row.is_closed = CalculateUserstoryIsClosed(d, s)
  <2> QED BY <1>2, <1>3 DEF UserStoryRows
<1> HIDE DEF row
<1>5. /\ e.task = d.task
      /\ e.closed_statuses = d.closed_statuses
      /\ e.us = [d.us EXCEPT ![s] = row]
  BY DEF DbType
<1>6. /\ DOMAIN e.us = DOMAIN d.us
      /\ e.us[s] = row
      /\ \A x \in DOMAIN d.us : x # s => e.us[x] = d.us[x]
  BY <1>2, <1>5 DEF DbType
<1> HIDE DEF e
<1>7. Live(e.us) = Live(d.us)
  BY <1>4, <1>6, AbsentAssumption DEF Live
<1>8. ASSUME NEW x \in Live(d.us) PROVE SameBasis(d, e, x)
  BY <1>4, <1>5, <1>6 DEF SameBasis, TasksOf, Live
<1>9. Truthful(e, s)
  <2>1. CalculateUserstoryIsClosed(e, s) <=> CalculateUserstoryIsClosed(d, s)
    BY <1>8, SameVerdict
  <2>2. CalculateUserstoryIsClosed(e, s) \in BOOLEAN /\ CalculateUserstoryIsClosed(d, s) \in BOOLEAN
    BY VerdictIsBoolean
  <2> QED BY <1>4, <1>6, <2>1, <2>2, Zenon DEF Truthful
<1>10. ASSUME NEW x \in Live(d.us) PROVE e.us[x].is_closed = d.us[x].is_closed \/ Truthful(e, x)
  BY <1>6, <1>9 DEF Live
<1> QED BY <1>1, <1>7, <1>8, <1>9, <1>10 DEF Recalculated

LEMMA StoriesRecalculated ==
  ASSUME NEW d \in DbType, NEW S \in SUBSET Live(d.us)
  PROVE  Recalculated(d, RecalculateUserstories(d, S), S)
<1> DEFINE C == {s \in S : d.us[s].is_closed # CalculateUserstoryIsClosed(d, s)}
           f == RecalculateUserstories(d, S)
<1>1. /\ f.us = [s \in DOMAIN d.us |->
           IF s \in C THEN [d.us[s] EXCEPT !.is_closed = CalculateUserstoryIsClosed(d, s)]
           ELSE d.us[s]]
      /\ f.task = [t \in DOMAIN d.task |->
           IF t \in UNION {TasksOf(d, s) : s \in C}
           THEN [d.task[t] EXCEPT !.milestone = d.us[d.task[t].user_story].milestone]
           ELSE d.task[t]]
      /\ f.closed_statuses = d.closed_statuses
  BY DEF RecalculateUserstories, DbType
<1>2. f \in DbType
  BY RecalculateUserstoriesType
<1>3. C \subseteq Live(d.us) /\ \A s \in S \ C : d.us[s].is_closed = CalculateUserstoryIsClosed(d, s)
  OBVIOUS
<1> HIDE DEF C, f
<1>4. ASSUME NEW s \in DOMAIN d.us
      PROVE  /\ f.us[s] = Absent <=> d.us[s] = Absent
             /\ d.us[s] # Absent => f.us[s].status = d.us[s].status
             /\ s \in C => f.us[s].is_closed = CalculateUserstoryIsClosed(d, s)
             /\ s \notin C => f.us[s] = d.us[s]
  <2>1. CASE s \in C
    <3>1. d.us[s] \in UserStoryRows
      BY <1>3, <2>1, LiveRows
    <3>2. f.us[s] = [d.us[s] EXCEPT !.is_closed = CalculateUserstoryIsClosed(d, s)]
      BY <1>1, <2>1
    <3>3. CalculateUserstoryIsClosed(d, s) \in BOOLEAN
      BY VerdictIsBoolean
    <3>4. f.us[s] \in UserStoryRows /\ d.us[s] # Absent /\ f.us[s] # Absent
      <4> QED BY <3>1, <3>2, <3>3, AbsentAssumption DEF UserStoryRows
    <3>5. /\ f.us[s].status = d.us[s].status
          /\ f.us[s].is_closed = CalculateUserstoryIsClosed(d, s)
      <4> QED BY <3>1, <3>2, <3>3 DEF UserStoryRows
    <3> QED BY <2>1, <3>4, <3>5
  <2>2. CASE s \notin C
    BY <1>1, <2>2
  <2> QED BY <2>1, <2>2
<1>5. ASSUME NEW t \in DOMAIN d.task
      PROVE  /\ f.task[t] = Absent <=> d.task[t] = Absent
             /\ d.task[t] # Absent => /\ f.task[t].status = d.task[t].status
                                      /\ f.task[t].user_story = d.task[t].user_story
  <2>1. CASE t \in UNION {TasksOf(d, s) : s \in C}
    <3>1. d.task[t] \in TaskRows
      BY <2>1, LiveRows DEF TasksOf
    <3>2. f.task[t] = [d.task[t] EXCEPT !.milestone = d.us[d.task[t].user_story].milestone]
      BY <1>1, <2>1
    <3>3. f.task[t] # Absent
      <4>1. d.us[d.task[t].user_story] \in UserStoryRows
        BY <1>3, <2>1, LiveRows DEF TasksOf
      <4> QED BY <3>1, <3>2, <4>1, AbsentAssumption DEF TaskRows, UserStoryRows
    <3> QED BY <3>1, <3>2, <3>3, AbsentAssumption DEF TaskRows
  <2>2. CASE t \notin UNION {TasksOf(d, s) : s \in C}
    BY <1>1, <2>2
  <2> QED BY <2>1, <2>2
<1>6. DOMAIN f.us = DOMAIN d.us /\ DOMAIN f.task = DOMAIN d.task
  BY <1>1
<1>7. Live(f.us) = Live(d.us)
  BY <1>4, <1>6 DEF Live
<1>8. ASSUME NEW x \in Live(d.us) PROVE SameBasis(d, f, x)
  <2>1. TasksOf(f, x) = TasksOf(d, x)
    BY <1>5, <1>6 DEF TasksOf, Live
  <2>2. \A t \in TasksOf(d, x) : f.task[t].status = d.task[t].status
    BY <1>5 DEF TasksOf, Live
  <2>3. f.us[x].status = d.us[x].status
    BY <1>4 DEF Live
  <2> QED BY <1>1, <2>1, <2>2, <2>3 DEF SameBasis
<1>9. ASSUME NEW x \in Live(d.us)
      PROVE  /\ f.us[x].is_closed = d.us[x].is_closed \/ Truthful(f, x)
             /\ x \in S => Truthful(f, x)
  <2>1. CalculateUserstoryIsClosed(f, x) <=> CalculateUserstoryIsClosed(d, x)
    BY <1>8, SameVerdict
  <2>2. CalculateUserstoryIsClosed(f, x) \in BOOLEAN /\ CalculateUserstoryIsClosed(d, x) \in BOOLEAN
    BY VerdictIsBoolean
  <2>3. CalculateUserstoryIsClosed(f, x) = CalculateUserstoryIsClosed(d, x)
    BY <2>1, <2>2
  <2>4. x \in C \/ x \notin S \/ d.us[x].is_closed = CalculateUserstoryIsClosed(d, x)
    BY <1>3
  <2> QED BY <1>4, <2>3, <2>4 DEF Truthful, Live
<1> QED BY <1>7, <1>8, <1>9 DEF Recalculated, f

LEMMA StoryOrNothingRecalculated ==
  ASSUME NEW d \in DbType, NEW s
  PROVE  Recalculated(d, RecalculateUserstory(d, s), {s} \cap Live(d.us))
<1>1. CASE s \in Live(d.us)
  BY <1>1, StoriesRecalculated DEF RecalculateUserstory
<1>2. CASE s \notin Live(d.us)
  BY <1>2 DEF RecalculateUserstory, Recalculated, SameBasis
<1> QED BY <1>1, <1>2

LEMMA SavedUserstoryRecalculated ==
  ASSUME NEW d \in DbType, NEW s \in Live(d.us), NEW prev
  PROVE  Recalculated(d, AfterSaveUserstory(d, s, prev), {s})
<1> DEFINE d1 == UpdateMilestoneOfTasks(d, s)
           d2 == RecalculateIsClosed(d1, s)
           d3 == RecalculateMilestone(d2, d.us[s].milestone)
           d4 == RecalculateMilestone(d3, prev)
<1>1. d1 \in DbType /\ Recalculated(d, d1, {})
  BY UpdateMilestoneOfTasksType, TasksUpdateRecalculated
<1>2. s \in Live(d1.us)
  BY <1>1 DEF Recalculated
<1>3. d2 \in DbType /\ Recalculated(d1, d2, {s})
  <2> HIDE DEF d1
  <2> QED BY <1>1, <1>2, RecalculateIsClosedType, StoryRecalculated
<1>4. d3 \in DbType /\ Recalculated(d2, d3, {})
  <2> HIDE DEF d2
  <2> QED BY <1>3, RecalculateMilestoneType, MilestoneUpdateRecalculated
<1>5. d4 \in DbType /\ Recalculated(d3, d4, {})
  <2> HIDE DEF d3
  <2> QED BY <1>4, RecalculateMilestoneType, MilestoneUpdateRecalculated
<1>6. AfterSaveUserstory(d, s, prev) \in {d3, d4}
  BY DEF AfterSaveUserstory
<1> HIDE DEF d1, d2, d3, d4
<1>7. Recalculated(d, d2, {} \cup {s})
  BY <1>1, <1>3, RecalculatedTwice
<1>8. Recalculated(d, d3, ({} \cup {s}) \cup {})
  BY <1>1, <1>3, <1>4, <1>7, RecalculatedTwice
<1>9. Recalculated(d, d4, (({} \cup {s}) \cup {}) \cup {})
  BY <1>1, <1>4, <1>5, <1>8, RecalculatedTwice
<1> QED BY <1>6, <1>8, <1>9 DEF Recalculated

LEMMA SavedTaskRecalculated ==
  ASSUME NEW d \in DbType, NEW t, NEW us, NEW m
  PROVE  Recalculated(d, AfterSaveTask(d, t, us, m), {d.task[t].user_story, us} \cap Live(d.us))
<1> DEFINE d1 == RecalculateUserstory(d, d.task[t].user_story)
           d2 == RecalculateUserstory(d1, us)
           d3 == RecalculateMilestone(d2, d.task[t].milestone)
           d4 == RecalculateMilestone(d3, m)
           S1 == {d.task[t].user_story} \cap Live(d.us)
           S2 == {us} \cap Live(d1.us)
<1>1. d1 \in DbType /\ Recalculated(d, d1, S1)
  BY RecalculateUserstoryType, StoryOrNothingRecalculated
<1>2. d2 \in DbType /\ Recalculated(d1, d2, S2)
  <2> HIDE DEF d1
  <2> QED BY <1>1, RecalculateUserstoryType, StoryOrNothingRecalculated
<1>3. d3 \in DbType /\ Recalculated(d2, d3, {})
  <2> HIDE DEF d2
  <2> QED BY <1>2, RecalculateMilestoneType, MilestoneUpdateRecalculated
<1>4. d4 \in DbType /\ Recalculated(d3, d4, {})
  <2> HIDE DEF d3
  <2> QED BY <1>3, RecalculateMilestoneType, MilestoneUpdateRecalculated
<1>5. AfterSaveTask(d, t, us, m) = d4
  BY DEF AfterSaveTask
<1>6. S1 \cup S2 = {d.task[t].user_story, us} \cap Live(d.us)
  <2> HIDE DEF d1
  <2> QED BY <1>1 DEF Recalculated
<1> HIDE DEF d1, d2, d3, d4, S1, S2
<1>7. Recalculated(d, d2, S1 \cup S2)
  BY <1>1, <1>2, RecalculatedTwice
<1>8. Recalculated(d, d3, (S1 \cup S2) \cup {})
  BY <1>1, <1>2, <1>3, <1>7, RecalculatedTwice
<1>9. Recalculated(d, d4, ((S1 \cup S2) \cup {}) \cup {})
  BY <1>1, <1>3, <1>4, <1>8, RecalculatedTwice
<1> QED BY <1>5, <1>6, <1>9 DEF Recalculated

LEMMA SavedIssueRecalculated ==
  ASSUME NEW d \in DbType, NEW i, NEW m
  PROVE  Recalculated(d, AfterSaveIssue(d, i, m), {})
<1> DEFINE d1 == RecalculateMilestone(d, d.issue[i].milestone)
<1>1. d1 \in DbType /\ Recalculated(d, d1, {})
  BY RecalculateMilestoneType, MilestoneUpdateRecalculated
<1>2. RecalculateMilestone(d1, m) \in DbType /\ Recalculated(d1, RecalculateMilestone(d1, m), {})
  <2> HIDE DEF d1
  <2> QED BY <1>1, RecalculateMilestoneType, MilestoneUpdateRecalculated
<1>3. Recalculated(d, RecalculateMilestone(d1, m), {} \cup {})
  <2> HIDE DEF d1
  <2> QED BY <1>1, <1>2, RecalculatedTwice
<1> QED BY <1>3 DEF AfterSaveIssue, Recalculated

LEMMA DeletedRecalculated ==
  ASSUME NEW d \in DbType, NEW row
  PROVE  /\ Recalculated(d, AfterDeleteUserstory(d, row), {})
         /\ Recalculated(d, AfterDeleteIssue(d, row), {})
         /\ Recalculated(d, AfterDeleteTask(d, row), {row.user_story} \cap Live(d.us))
<1> DEFINE d1 == RecalculateUserstory(d, row.user_story)
           S1 == {row.user_story} \cap Live(d.us)
           d2 == CloseMilestoneIfComplete(d1, row.milestone)
<1>1. d1 \in DbType /\ Recalculated(d, d1, S1)
  BY RecalculateUserstoryType, StoryOrNothingRecalculated
<1>2. d2 \in DbType /\ Recalculated(d1, d2, {})
  <2> HIDE DEF d1
  <2> QED BY <1>1, CloseMilestoneIfCompleteType, MilestoneUpdateRecalculated
<1>3. AfterDeleteTask(d, row) = d2
  BY DEF AfterDeleteTask
<1>4. Recalculated(d, d2, S1 \cup {})
  <2> HIDE DEF d1, d2, S1
  <2> QED BY <1>1, <1>2, RecalculatedTwice
<1>5. Recalculated(d, AfterDeleteTask(d, row), S1)
  <2> HIDE DEF d2, S1
  <2> QED BY <1>3, <1>4 DEF Recalculated
<1> QED BY <1>5, MilestoneUpdateRecalculated DEF AfterDeleteUserstory, AfterDeleteIssue

\* A step is harmless when it edits rows to d and recalculates every story whose
\* verdict or flag the edit touched, or leaves it to a job.
LEMMA HarmlessStep ==
  ASSUME TypeOK, StoryTruthful, db' \in DbType, NEW d \in DbType, NEW S,
         Recalculated(d, db', S),
         \A s \in Live(d.us) :
           \/ s \in S
           \/ s \in jobs'.kanban
           \/ /\ s \in Live(db.us)
              /\ SameBasis(db, d, s)
              /\ d.us[s].is_closed = db.us[s].is_closed
              /\ s \in jobs.kanban => s \in jobs'.kanban
  PROVE  StoryTruthful'
<1> SUFFICES ASSUME NEW s \in Live(db'.us), s \notin jobs'.kanban
             PROVE  Truthful(db', s)
  BY DEF StoryTruthful, Truthful
<1>1. s \in Live(d.us) /\ SameBasis(d, db', s)
  BY DEF Recalculated
<1>2. CASE s \in S
  BY <1>1, <1>2 DEF Recalculated
<1>3. CASE s \notin S
  <2>1. s \in Live(db.us) /\ SameBasis(db, d, s) /\ d.us[s].is_closed = db.us[s].is_closed
    BY <1>1, <1>3
  <2>2. s \notin jobs.kanban
    BY <1>1, <1>3
  <2>3. Truthful(db, s)
    BY <2>1, <2>2 DEF StoryTruthful, Truthful
  <2>4. SameBasis(db, db', s)
    BY <1>1, <2>1 DEF SameBasis
  <2>5. db'.us[s].is_closed = d.us[s].is_closed \/ Truthful(db', s)
    BY <1>1 DEF Recalculated
  <2>6. CalculateUserstoryIsClosed(db', s) <=> CalculateUserstoryIsClosed(db, s)
    BY <2>4, SameVerdict
  <2>7. CalculateUserstoryIsClosed(db', s) \in BOOLEAN /\ CalculateUserstoryIsClosed(db, s) \in BOOLEAN
    BY VerdictIsBoolean
  <2> QED BY <2>1, <2>3, <2>5, <2>6, <2>7 DEF Truthful
<1> QED BY <1>2, <1>3

LEMMA NothingRecalculated == ASSUME NEW d PROVE Recalculated(d, d, {})
BY DEF Recalculated, SameBasis

\* An edit of one story row leaves the other stories as they are.
LEMMA EditedUserstory ==
  ASSUME TypeOK, StoryTruthful, TypeOK', NEW s \in UserStories, NEW row \in UserStoryRows,
         NEW d, d = [db EXCEPT !.us[s] = row], Recalculated(d, db', {s}), UNCHANGED jobs
  PROVE  StoryTruthful'
<1>1. d \in DbType
  BY DEF TypeOK, DbType
<1>2. /\ d.task = db.task
      /\ d.closed_statuses = db.closed_statuses
      /\ DOMAIN d.us = DOMAIN db.us
      /\ \A x \in DOMAIN db.us : x # s => d.us[x] = db.us[x]
  BY DEF TypeOK, DbType
<1>3. \A x \in Live(d.us) :
        \/ x \in {s}
        \/ x \in Live(db.us) /\ SameBasis(db, d, x) /\ d.us[x].is_closed = db.us[x].is_closed
  BY <1>2 DEF Live, SameBasis, TasksOf
<1> QED BY <1>1, <1>3, HarmlessStep DEF TypeOK

LEMMA SaveUserstoryTruthful ==
  ASSUME TypeOK, StoryTruthful, TypeOK', NEW s \in Live(db.us), NEW st \in UserStoryStatuses,
         NEW m \in Milestones \cup {Null}, SaveUserstory(s, st, m)
  PROVE  StoryTruthful'
<1> DEFINE row == [db.us[s] EXCEPT !.status = st, !.milestone = m]
           d == [db EXCEPT !.us[s] = row]
<1>1. row \in UserStoryRows /\ s \in UserStories
  BY LiveRows DEF TypeOK, UserStoryRows
<1>2. d \in DbType /\ s \in Live(d.us)
  <2> HIDE DEF row
  <2> QED BY <1>1, AbsentAssumption DEF TypeOK, DbType, Live
<1>3. db' = AfterSaveUserstory(d, s, db.us[s].milestone) /\ UNCHANGED jobs
  BY DEF SaveUserstory
<1>4. Recalculated(d, db', {s})
  <2> HIDE DEF d
  <2> QED BY <1>2, <1>3, SavedUserstoryRecalculated
<1> HIDE DEF row
<1> QED BY <1>1, <1>3, <1>4, EditedUserstory

LEMMA UserstoryActionsTruthful ==
  ASSUME TypeOK, StoryTruthful, TypeOK', NEW s \in UserStories,
         \/ CreateUserstory(s) \/ EditUserstory(s) \/ DeleteUserstory(s)
         \/ MoveUserstory(s) \/ MoveAndEditUserstory(s)
  PROVE  StoryTruthful'
<1>1. CASE CreateUserstory(s)
  <2>1. PICK st \in UserStoryStatuses, m \in MilestoneKeys :
          db' = AfterSaveUserstory(
                  [db EXCEPT !.us[s] = [status |-> st, milestone |-> m, is_closed |-> FALSE]],
                  s, Null)
    BY <1>1 DEF CreateUserstory
  <2> DEFINE row == [status |-> st, milestone |-> m, is_closed |-> FALSE]
             d == [db EXCEPT !.us[s] = row]
  <2>2. row \in UserStoryRows
    BY MilestoneKeysType DEF UserStoryRows
  <2>3. d \in DbType /\ s \in Live(d.us)
    <3> HIDE DEF row
    <3> QED BY <2>2, AbsentAssumption DEF TypeOK, DbType, Live
  <2>4. db' = AfterSaveUserstory(d, s, Null) /\ UNCHANGED jobs
    BY <1>1, <2>1 DEF CreateUserstory
  <2>5. Recalculated(d, db', {s})
    <3> HIDE DEF d
    <3> QED BY <2>3, <2>4, SavedUserstoryRecalculated
  <2> HIDE DEF row
  <2> QED BY <2>2, <2>4, <2>5, EditedUserstory
<1>2. CASE EditUserstory(s)
  <2>1. s \in Live(db.us) /\ db.us[s].milestone \in Milestones \cup {Null}
    BY <1>2, LiveRows DEF EditUserstory, TypeOK, UserStoryRows
  <2>2. PICK st \in UserStoryStatuses : SaveUserstory(s, st, db.us[s].milestone)
    BY <1>2 DEF EditUserstory
  <2> QED BY <2>1, <2>2, SaveUserstoryTruthful
<1>3. CASE DeleteUserstory(s)
  <2> DEFINE task1 == [t \in Tasks |-> IF t \in TasksOf(db, s) THEN Absent ELSE db.task[t]]
             d == [db EXCEPT !.us[s] = Absent, !.task = task1]
  <2>1. d \in DbType
    BY DEF TypeOK, DbType
  <2>2. db' = AfterDeleteUserstory(d, db.us[s]) /\ UNCHANGED jobs
    BY <1>3 DEF DeleteUserstory
  <2>3. /\ d.task = task1
        /\ d.closed_statuses = db.closed_statuses
        /\ DOMAIN d.us = DOMAIN db.us
        /\ d.us[s] = Absent
        /\ \A x \in DOMAIN db.us : x # s => d.us[x] = db.us[x]
    BY DEF TypeOK, DbType
  <2>4. DOMAIN db.task = Tasks
    BY DEF TypeOK, DbType
  <2> HIDE DEF d
  <2>5. Recalculated(d, db', {})
    BY <2>1, <2>2, DeletedRecalculated
  <2>6. ASSUME NEW x \in Live(d.us)
        PROVE  x \in Live(db.us) /\ SameBasis(db, d, x) /\ d.us[x].is_closed = db.us[x].is_closed
    <3>1. x # s /\ x \in Live(db.us) /\ d.us[x] = db.us[x]
      BY <2>3 DEF Live
    <3>2. TasksOf(d, x) = TasksOf(db, x) /\ \A t \in TasksOf(db, x) : d.task[t] = db.task[t]
      BY <2>3, <2>4, <3>1 DEF TasksOf, Live
    <3> QED BY <2>3, <3>1, <3>2 DEF SameBasis
  <2> QED BY <2>1, <2>2, <2>5, <2>6, HarmlessStep DEF TypeOK
<1>4. CASE MoveUserstory(s)
  <2>1. s \in Live(db.us) /\ db.us[s].status \in UserStoryStatuses
    BY <1>4, LiveRows DEF MoveUserstory, TypeOK, UserStoryRows
  <2>2. PICK m \in MilestoneKeys : SaveUserstory(s, db.us[s].status, m)
    BY <1>4 DEF MoveUserstory
  <2> QED BY <2>1, <2>2, SaveUserstoryTruthful, MilestoneKeysType
<1>5. CASE MoveAndEditUserstory(s)
  BY <1>5, SaveUserstoryTruthful, MilestoneKeysType DEF MoveAndEditUserstory
<1> QED BY <1>1, <1>2, <1>3, <1>4, <1>5

\* An edit of one task row leaves the stories alone that it belonged to neither
\* before nor after.
LEMMA EditedTask ==
  ASSUME TypeOK, StoryTruthful, TypeOK', NEW t \in Tasks, NEW row \in TaskRows \cup {Absent},
         NEW d, d = [db EXCEPT !.task[t] = row], NEW S, Recalculated(d, db', S), UNCHANGED jobs,
         \A x \in Live(db.us) : t \in TasksOf(db, x) \/ t \in TasksOf(d, x) => x \in S
  PROVE  StoryTruthful'
<1>1. d \in DbType
  BY DEF TypeOK, DbType
<1>2. /\ d.us = db.us
      /\ d.closed_statuses = db.closed_statuses
      /\ DOMAIN d.task = DOMAIN db.task
      /\ \A x \in DOMAIN db.task : x # t => d.task[x] = db.task[x]
  BY DEF TypeOK, DbType
<1>3. ASSUME NEW x \in Live(d.us), x \notin S
      PROVE  x \in Live(db.us) /\ SameBasis(db, d, x) /\ d.us[x].is_closed = db.us[x].is_closed
  <2>1. t \notin TasksOf(db, x) /\ t \notin TasksOf(d, x)
    BY <1>2, <1>3
  <2>2. TasksOf(d, x) = TasksOf(db, x) /\ \A y \in TasksOf(db, x) : d.task[y] = db.task[y]
    BY <1>2, <2>1 DEF TasksOf, Live
  <2> QED BY <1>2, <2>2 DEF SameBasis
<1> QED BY <1>1, <1>3, HarmlessStep DEF TypeOK

LEMMA TaskRow ==
  ASSUME TypeOK, NEW st \in TaskStatuses, NEW us \in Live(db.us) \cup {Null}, NEW m \in MilestoneKeys
  PROVE  [status |-> st, user_story |-> us, milestone |-> TaskMilestone(us, m)] \in TaskRows
<1>1. TaskMilestone(us, m) \in Milestones \cup {Null}
  BY LiveRows, MilestoneKeysType DEF TaskMilestone, TypeOK, UserStoryRows
<1> QED BY <1>1, LiveRows DEF TaskRows, TypeOK

LEMMA TaskActionsTruthful ==
  ASSUME TypeOK, StoryTruthful, TypeOK', NEW t \in Tasks,
         \/ CreateTask(t) \/ EditTask(t) \/ DeleteTask(t)
         \/ MoveTaskToSprint(t) \/ BulkUpdateMilestoneOfTask(t)
  PROVE  StoryTruthful'
<1>1. ASSUME NEW row \in TaskRows, NEW us, NEW m, UNCHANGED jobs,
             db' = AfterSaveTask([db EXCEPT !.task[t] = row], t, us, m),
             t \in Live(db.task) => us = db.task[t].user_story
      PROVE  StoryTruthful'
  <2> DEFINE d == [db EXCEPT !.task[t] = row]
             S == {d.task[t].user_story, us} \cap Live(d.us)
  <2>1. d \in DbType /\ d.us = db.us
    BY DEF TypeOK, DbType
  <2>2. Recalculated(d, db', S)
    <3> HIDE DEF d
    <3>1. db' = AfterSaveTask(d, t, us, m) BY <1>1 DEF d
    <3> QED BY <2>1, <3>1, SavedTaskRecalculated
  <2>3. \A x \in Live(db.us) : t \in TasksOf(db, x) \/ t \in TasksOf(d, x) => x \in S
    <3> HIDE DEF d
    <3> QED BY <1>1, <2>1 DEF TasksOf
  <2> HIDE DEF S
  <2> QED BY <1>1, <2>2, <2>3, EditedTask
<1>2. CASE CreateTask(t)
  <2>1. PICK st \in TaskStatuses, us \in Live(db.us) \cup {Null}, m \in MilestoneKeys :
          db' = AfterSaveTask([db EXCEPT !.task[t] = [status |-> st, user_story |-> us,
                                 milestone |-> TaskMilestone(us, m)]], t, Null, Null)
    BY <1>2 DEF CreateTask
  <2>2. t \notin Live(db.task) /\ UNCHANGED jobs
    BY <1>2 DEF CreateTask, Live
  <2> QED BY <1>1, <2>1, <2>2, TaskRow
<1>3. CASE EditTask(t)
  <2>1. PICK st \in TaskStatuses, us \in Live(db.us) \cup {Null}, m \in MilestoneKeys :
          db' = AfterSaveTask([db EXCEPT !.task[t] = [status |-> st, user_story |-> us,
                                 milestone |-> TaskMilestone(us, m)]],
                              t, db.task[t].user_story, db.task[t].milestone)
    BY <1>3 DEF EditTask
  <2>2. UNCHANGED jobs
    BY <1>3 DEF EditTask
  <2> QED BY <1>1, <2>1, <2>2, TaskRow
<1>4. CASE DeleteTask(t)
  <2> DEFINE d == [db EXCEPT !.task[t] = Absent]
             S == {db.task[t].user_story} \cap Live(d.us)
  <2>1. d \in DbType /\ d.us = db.us /\ d.task[t] = Absent
    BY DEF TypeOK, DbType
  <2>2. Recalculated(d, db', S) /\ UNCHANGED jobs
    <3> HIDE DEF d
    <3>1. db' = AfterDeleteTask(d, db.task[t]) /\ UNCHANGED jobs BY <1>4 DEF DeleteTask, d
    <3> QED BY <2>1, <3>1, DeletedRecalculated
  <2>3. \A x \in Live(db.us) : t \in TasksOf(db, x) \/ t \in TasksOf(d, x) => x \in S
    <3> HIDE DEF d
    <3> QED BY <2>1 DEF TasksOf, Live
  <2> HIDE DEF S
  <2> QED BY <2>2, <2>3, EditedTask
<1>5. CASE BulkUpdateMilestoneOfTask(t)
  <2>1. PICK m \in Milestones : db' = [db EXCEPT !.task[t].milestone = m]
    BY <1>5, LiveRows DEF BulkUpdateMilestoneOfTask, TypeOK
  <2> DEFINE row == [db.task[t] EXCEPT !.milestone = m]
  <2>2. /\ row \in TaskRows
        /\ row.status = db.task[t].status
        /\ row.user_story = db.task[t].user_story
        /\ db.task[t] # Absent
        /\ UNCHANGED jobs
    BY <1>5, LiveRows DEF BulkUpdateMilestoneOfTask, TypeOK, TaskRows, Live
  <2>3. db' = [db EXCEPT !.task[t] = row]
    BY <2>1
  <2> HIDE DEF row
  <2>4. /\ db'.us = db.us
        /\ db'.closed_statuses = db.closed_statuses
        /\ DOMAIN db'.task = DOMAIN db.task
        /\ db'.task[t] = row
        /\ \A x \in DOMAIN db.task : x # t => db'.task[x] = db.task[x]
    BY <2>3 DEF TypeOK, DbType
  <2>5. ASSUME NEW x \in Live(db'.us)
        PROVE  x \in Live(db.us) /\ SameBasis(db, db', x) /\ db'.us[x].is_closed = db.us[x].is_closed
    <3>1. TasksOf(db', x) = TasksOf(db, x)
      BY <2>2, <2>4, AbsentAssumption DEF TasksOf, Live
    <3>2. \A y \in TasksOf(db, x) : db'.task[y].status = db.task[y].status
      BY <2>2, <2>4 DEF TasksOf, Live
    <3> QED BY <2>4, <3>1, <3>2 DEF SameBasis
  <2> QED BY <2>2, <2>5, NothingRecalculated, HarmlessStep DEF TypeOK
<1>6. CASE MoveTaskToSprint(t)
  <2>1. PICK m \in Milestones :
          db' = AfterSaveTask([db EXCEPT !.task[t].milestone = m],
                              t, db.task[t].user_story, db.task[t].milestone)
    BY <1>6, LiveRows DEF MoveTaskToSprint, TypeOK
  <2> DEFINE row == [db.task[t] EXCEPT !.milestone = m]
  <2>2. row \in TaskRows /\ UNCHANGED jobs
    BY <1>6, LiveRows DEF MoveTaskToSprint, TypeOK, TaskRows
  <2>3. [db EXCEPT !.task[t].milestone = m] = [db EXCEPT !.task[t] = row]
    OBVIOUS
  <2> QED BY <1>1, <2>1, <2>2, <2>3
<1> QED BY <1>2, <1>3, <1>4, <1>5, <1>6

\* Issues and sprints do not enter into the calculation of a story.
LEMMA StoriesUntouched ==
  ASSUME TypeOK, StoryTruthful, TypeOK', NEW d \in DbType, Recalculated(d, db', {}),
         d.us = db.us, d.task = db.task, jobs.kanban \subseteq jobs'.kanban,
         \A st \in UserStoryStatuses \cup TaskStatuses :
           st \in d.closed_statuses <=> st \in db.closed_statuses
  PROVE  StoryTruthful'
<1>1. ASSUME NEW x \in Live(d.us)
      PROVE  x \in Live(db.us) /\ SameBasis(db, d, x) /\ d.us[x].is_closed = db.us[x].is_closed
  <2>1. TasksOf(d, x) = TasksOf(db, x)
    BY DEF TasksOf
  <2>2. \A t \in TasksOf(db, x) : db.task[t].status \in TaskStatuses
    BY LiveRows DEF TypeOK, TasksOf, TaskRows
  <2>3. db.us[x].status \in UserStoryStatuses
    BY LiveRows DEF TypeOK, UserStoryRows
  <2> QED BY <2>1, <2>2, <2>3 DEF SameBasis
<1> QED BY <1>1, HarmlessStep DEF TypeOK

LEMMA IssueActionsTruthful ==
  ASSUME TypeOK, StoryTruthful, TypeOK', NEW i \in Issues,
         \/ CreateIssue(i) \/ EditIssue(i) \/ DeleteIssue(i)
         \/ BulkCreateIssue(i) \/ BulkUpdateMilestoneOfIssue(i)
  PROVE  StoryTruthful'
<1>1. ASSUME NEW row \in IssueRows \cup {Absent}, NEW m, UNCHANGED jobs,
             LET d == [db EXCEPT !.issue[i] = row]
             IN db' = AfterSaveIssue(d, i, m) \/ db' = AfterDeleteIssue(d, m) \/ db' = d
      PROVE  StoryTruthful'
  <2> DEFINE d == [db EXCEPT !.issue[i] = row]
  <2>1. /\ d \in DbType
        /\ d.us = db.us
        /\ d.task = db.task
        /\ d.closed_statuses = db.closed_statuses
    BY DEF TypeOK, DbType
  <2>2. db' = AfterSaveIssue(d, i, m) \/ db' = AfterDeleteIssue(d, m) \/ db' = d
    BY <1>1
  <2> HIDE DEF d
  <2>3. Recalculated(d, db', {})
    BY <2>1, <2>2, SavedIssueRecalculated, DeletedRecalculated, NothingRecalculated
  <2> QED BY <1>1, <2>1, <2>3, StoriesUntouched
<1>2. \A st \in IssueStatuses, m \in MilestoneKeys : [status |-> st, milestone |-> m] \in IssueRows
  BY MilestoneKeysType DEF IssueRows
<1>3. CASE CreateIssue(i)
  BY <1>1, <1>2, <1>3 DEF CreateIssue
<1>4. CASE EditIssue(i)
  BY <1>1, <1>2, <1>4 DEF EditIssue
<1>5. CASE DeleteIssue(i)
  BY <1>1, <1>5 DEF DeleteIssue
<1>6. CASE BulkCreateIssue(i)
  BY <1>1, <1>2, <1>6 DEF BulkCreateIssue
<1>7. CASE BulkUpdateMilestoneOfIssue(i)
  <2>1. PICK m \in Live(db.milestone) : db' = [db EXCEPT !.issue[i].milestone = m]
    BY <1>7 DEF BulkUpdateMilestoneOfIssue
  <2>2. [db.issue[i] EXCEPT !.milestone = m] \in IssueRows
    BY <1>7, LiveRows DEF BulkUpdateMilestoneOfIssue, TypeOK, IssueRows
  <2> QED BY <1>1, <1>7, <2>1, <2>2 DEF BulkUpdateMilestoneOfIssue
<1> QED BY <1>3, <1>4, <1>5, <1>6, <1>7

\* A direct update of rows that keeps the status of every story and the story and
\* the status of every task touches no verdict.
LEMMA KeepsVerdicts ==
  ASSUME TypeOK, StoryTruthful, TypeOK', jobs.kanban \subseteq jobs'.kanban,
         db'.closed_statuses = db.closed_statuses,
         \A x \in UserStories :
           /\ db'.us[x] = Absent <=> db.us[x] = Absent
           /\ db.us[x] # Absent => /\ db'.us[x].status = db.us[x].status
                                   /\ db'.us[x].is_closed = db.us[x].is_closed,
         \A t \in Tasks :
           /\ db'.task[t] = Absent <=> db.task[t] = Absent
           /\ db.task[t] # Absent => /\ db'.task[t].status = db.task[t].status
                                     /\ db'.task[t].user_story = db.task[t].user_story
  PROVE  StoryTruthful'
<1>1. /\ DOMAIN db.us = UserStories /\ DOMAIN db'.us = UserStories
      /\ DOMAIN db.task = Tasks /\ DOMAIN db'.task = Tasks
  BY DEF TypeOK, DbType
<1>2. ASSUME NEW x \in Live(db'.us)
      PROVE  /\ x \in Live(db.us)
             /\ SameBasis(db, db', x)
             /\ db'.us[x].is_closed = db.us[x].is_closed
  <2>1. x \in Live(db.us)
    BY <1>1 DEF Live
  <2>2. TasksOf(db', x) = TasksOf(db, x)
    BY <1>1 DEF TasksOf, Live
  <2>3. \A t \in TasksOf(db, x) : db'.task[t].status = db.task[t].status
    BY <1>1 DEF TasksOf, Live
  <2> QED BY <1>1, <2>1, <2>2, <2>3 DEF SameBasis, Live
<1> QED BY <1>2, NothingRecalculated, HarmlessStep DEF TypeOK

LEMMA MilestoneActionsTruthful ==
  ASSUME TypeOK, StoryTruthful, TypeOK', NEW m \in Milestones,
         CreateMilestone(m) \/ DeleteMilestone(m)
  PROVE  StoryTruthful'
<1>1. CASE CreateMilestone(m)
  <2>1. db' = [db EXCEPT !.milestone[m] = [closed |-> FALSE]] /\ UNCHANGED jobs
    BY <1>1 DEF CreateMilestone
  <2>2. db'.us = db.us /\ db'.task = db.task /\ db'.closed_statuses = db.closed_statuses
    BY <2>1 DEF TypeOK, DbType
  <2> QED BY <2>1, <2>2, KeepsVerdicts
<1>2. CASE DeleteMilestone(m)
  <2>1. /\ db'.us = [s \in UserStories |->
             IF s \in UserStoriesOf(db, m) THEN [db.us[s] EXCEPT !.milestone = Null]
             ELSE db.us[s]]
        /\ db'.task = [t \in Tasks |->
             IF t \in Live(db.task) /\ db.task[t].milestone = m
             THEN [db.task[t] EXCEPT !.milestone = Null] ELSE db.task[t]]
        /\ db'.closed_statuses = db.closed_statuses
        /\ UNCHANGED jobs
    BY <1>2 DEF DeleteMilestone, TypeOK, DbType
  <2>2. ASSUME NEW x \in UserStoriesOf(db, m)
        PROVE  LET row == [db.us[x] EXCEPT !.milestone = Null]
               IN /\ row # Absent /\ db.us[x] # Absent
                  /\ row.status = db.us[x].status /\ row.is_closed = db.us[x].is_closed
    <3>1. db.us[x] \in UserStoryRows /\ [db.us[x] EXCEPT !.milestone = Null] \in UserStoryRows
      BY LiveRows DEF UserStoriesOf, TypeOK, UserStoryRows
    <3> QED BY <3>1, AbsentAssumption DEF UserStoryRows
  <2>3. ASSUME NEW t \in Live(db.task)
        PROVE  LET row == [db.task[t] EXCEPT !.milestone = Null]
               IN /\ row # Absent /\ db.task[t] # Absent
                  /\ row.status = db.task[t].status /\ row.user_story = db.task[t].user_story
    <3>1. db.task[t] \in TaskRows /\ [db.task[t] EXCEPT !.milestone = Null] \in TaskRows
      BY LiveRows DEF TypeOK, TaskRows
    <3> QED BY <3>1, AbsentAssumption DEF TaskRows
  <2> QED BY <2>1, <2>2, <2>3, KeepsVerdicts
<1> QED BY <1>1, <1>2

LEMMA MovedInBulk ==
  ASSUME TypeOK, StoryTruthful, TypeOK', jobs.kanban \subseteq jobs'.kanban,
         NEW S \in SUBSET Live(db.us), NEW m \in Milestones \cup {Null},
         db' = WithMilestone(db, S, m)
  PROVE  StoryTruthful'
<1>1. /\ db'.us = [s \in UserStories |->
           IF s \in S THEN [db.us[s] EXCEPT !.milestone = m] ELSE db.us[s]]
      /\ db'.task = [t \in Tasks |->
           IF t \in UNION {TasksOf(db, s) : s \in S}
           THEN [db.task[t] EXCEPT !.milestone = m] ELSE db.task[t]]
      /\ db'.closed_statuses = db.closed_statuses
  BY DEF WithMilestone, TypeOK, DbType
<1>2. ASSUME NEW x \in S
      PROVE  LET row == [db.us[x] EXCEPT !.milestone = m]
             IN /\ row # Absent /\ db.us[x] # Absent
                /\ row.status = db.us[x].status /\ row.is_closed = db.us[x].is_closed
  <2>1. db.us[x] \in UserStoryRows /\ [db.us[x] EXCEPT !.milestone = m] \in UserStoryRows
    BY LiveRows DEF TypeOK, UserStoryRows
  <2> QED BY <2>1, AbsentAssumption DEF UserStoryRows
<1>3. ASSUME NEW s \in S, NEW t \in TasksOf(db, s)
      PROVE  LET row == [db.task[t] EXCEPT !.milestone = m]
             IN /\ row # Absent /\ db.task[t] # Absent
                /\ row.status = db.task[t].status /\ row.user_story = db.task[t].user_story
  <2>1. db.task[t] \in TaskRows /\ [db.task[t] EXCEPT !.milestone = m] \in TaskRows
    BY LiveRows DEF TypeOK, TaskRows, TasksOf
  <2> QED BY <2>1, AbsentAssumption DEF TaskRows
<1> QED BY <1>1, <1>2, <1>3, KeepsVerdicts

LEMMA BulkActionsTruthful ==
  ASSUME TypeOK, StoryTruthful, TypeOK', NEW S \in SUBSET Live(db.us),
         BulkUpdateKanbanOrder(S) \/ BulkUpdateBacklogOrder(S) \/ BulkUpdateMilestone(S)
  PROVE  StoryTruthful'
<1>1. CASE BulkUpdateKanbanOrder(S)
  <2>1. PICK st \in UserStoryStatuses :
          db' = [db EXCEPT !.us = [s \in UserStories |->
                  IF s \in S THEN [db.us[s] EXCEPT !.status = st] ELSE db.us[s]]]
    BY <1>1 DEF BulkUpdateKanbanOrder
  <2>2. /\ db'.us = [s \in UserStories |->
             IF s \in S THEN [db.us[s] EXCEPT !.status = st] ELSE db.us[s]]
        /\ db'.task = db.task
        /\ db'.closed_statuses = db.closed_statuses
        /\ DOMAIN db.us = UserStories
    BY <2>1 DEF TypeOK, DbType
  <2>3. jobs'.kanban = jobs.kanban \cup S
    BY <1>1 DEF BulkUpdateKanbanOrder, TypeOK, JobsType
  <2>4. ASSUME NEW x \in Live(db'.us), x \notin S
        PROVE  x \in Live(db.us) /\ SameBasis(db, db', x) /\ db'.us[x].is_closed = db.us[x].is_closed
    <3>1. db'.us[x] = db.us[x] /\ x \in Live(db.us)
      BY <2>2, <2>4 DEF Live
    <3>2. TasksOf(db', x) = TasksOf(db, x)
      BY <2>2 DEF TasksOf
    <3> QED BY <2>2, <3>1, <3>2 DEF SameBasis
  <2> QED BY <2>3, <2>4, NothingRecalculated, HarmlessStep DEF TypeOK
<1>2. CASE BulkUpdateBacklogOrder(S)
  <2>1. jobs'.kanban = jobs.kanban
    BY <1>2 DEF BulkUpdateBacklogOrder, TypeOK, JobsType
  <2> QED BY <1>2, <2>1, MovedInBulk, MilestoneKeysType DEF BulkUpdateBacklogOrder
<1>3. CASE BulkUpdateMilestone(S)
  BY <1>3, MovedInBulk, LiveRows DEF BulkUpdateMilestone, TypeOK
<1> QED BY <1>1, <1>2, <1>3

\* An edit of a status reaches the stories in it and those with a task in it.
LEMMA EditedStatus ==
  ASSUME TypeOK, StoryTruthful, TypeOK', UNCHANGED jobs, NEW st, NEW closed \in SUBSET Statuses,
         closed \in ClosedStatusesAfterEdit(st),
         NEW d, d = [db EXCEPT !.closed_statuses = closed],
         NEW S, Recalculated(d, db', S),
         \A x \in Live(db.us) :
           db.us[x].status = st \/ (\E t \in TasksOf(db, x) : db.task[t].status = st) => x \in S
  PROVE  StoryTruthful'
<1>1. d \in DbType /\ d.us = db.us /\ d.task = db.task /\ d.closed_statuses = closed
  BY DEF TypeOK, DbType
<1>2. \A other : other # st => (other \in closed <=> other \in db.closed_statuses)
  BY DEF ClosedStatusesAfterEdit
<1>3. ASSUME NEW x \in Live(d.us), x \notin S
      PROVE  x \in Live(db.us) /\ SameBasis(db, d, x) /\ d.us[x].is_closed = db.us[x].is_closed
  BY <1>1, <1>2, <1>3 DEF SameBasis, TasksOf
<1> QED BY <1>1, <1>3, HarmlessStep DEF TypeOK

LEMMA StatusActionsTruthful ==
  ASSUME TypeOK, StoryTruthful, TypeOK',
         \/ \E st \in UserStoryStatuses : EditUserStoryStatus(st)
         \/ \E st \in TaskStatuses : EditTaskStatus(st)
         \/ \E st \in IssueStatuses : EditIssueStatus(st)
  PROVE  StoryTruthful'
<1>1. ASSUME NEW st \in Statuses PROVE ClosedStatusesAfterEdit(st) \subseteq SUBSET Statuses
  BY DEF ClosedStatusesAfterEdit, TypeOK, DbType
<1>2. ASSUME NEW st \in UserStoryStatuses, EditUserStoryStatus(st)
      PROVE  StoryTruthful'
  <2>1. PICK closed \in ClosedStatusesAfterEdit(st) :
          LET d == [db EXCEPT !.closed_statuses = closed]
          IN db' = RecalculateUserstories(d, {s \in Live(d.us) : d.us[s].status = st})
    BY <1>2 DEF EditUserStoryStatus
  <2> DEFINE d == [db EXCEPT !.closed_statuses = closed]
             S == {s \in Live(d.us) : d.us[s].status = st}
  <2>2. closed \in SUBSET Statuses
    BY <1>1, <2>1 DEF Statuses
  <2>3. d \in DbType /\ d.us = db.us /\ d.task = db.task
    BY <2>2 DEF TypeOK, DbType
  <2>4. db' = RecalculateUserstories(d, S)
    BY <2>1
  <2>5. S \in SUBSET Live(d.us)
    OBVIOUS
  <2>6. \A x \in Live(db.us) : ~ \E t \in TasksOf(db, x) : db.task[t].status = st
    BY LiveRows, StatusesAssumption DEF TypeOK, TasksOf, TaskRows
  <2>7. \A x \in Live(db.us) :
          db.us[x].status = st \/ (\E t \in TasksOf(db, x) : db.task[t].status = st) => x \in S
    <3> HIDE DEF d
    <3> QED BY <2>3, <2>6
  <2>8. Recalculated(d, db', S)
    <3> HIDE DEF d, S
    <3> QED BY <2>3, <2>4, <2>5, StoriesRecalculated
  <2>9. UNCHANGED jobs
    BY <1>2 DEF EditUserStoryStatus
  <2> HIDE DEF S
  <2> QED BY <2>1, <2>2, <2>7, <2>8, <2>9, EditedStatus
<1>3. ASSUME NEW st \in TaskStatuses, EditTaskStatus(st)
      PROVE  StoryTruthful'
  <2>1. PICK closed \in ClosedStatusesAfterEdit(st) :
          LET d == [db EXCEPT !.closed_statuses = closed]
          IN db' = RecalculateUserstories(d,
                     {s \in Live(d.us) : \E t \in TasksOf(d, s) : d.task[t].status = st})
    BY <1>3 DEF EditTaskStatus
  <2> DEFINE d == [db EXCEPT !.closed_statuses = closed]
             S == {s \in Live(d.us) : \E t \in TasksOf(d, s) : d.task[t].status = st}
  <2>2. closed \in SUBSET Statuses
    BY <1>1, <2>1 DEF Statuses
  <2>3. d \in DbType /\ d.us = db.us /\ d.task = db.task
    BY <2>2 DEF TypeOK, DbType
  <2>4. db' = RecalculateUserstories(d, S)
    BY <2>1
  <2>5. S \in SUBSET Live(d.us)
    OBVIOUS
  <2>6. \A x \in Live(db.us) : db.us[x].status # st
    BY LiveRows, StatusesAssumption DEF TypeOK, UserStoryRows
  <2>7. \A x \in Live(db.us) :
          db.us[x].status = st \/ (\E t \in TasksOf(db, x) : db.task[t].status = st) => x \in S
    <3>1. \A x : TasksOf(d, x) = TasksOf(db, x)
      <4> HIDE DEF d
      <4> QED BY <2>3 DEF TasksOf
    <3> HIDE DEF d
    <3> QED BY <2>3, <2>6, <3>1
  <2>8. Recalculated(d, db', S)
    <3> HIDE DEF d, S
    <3> QED BY <2>3, <2>4, <2>5, StoriesRecalculated
  <2>9. UNCHANGED jobs
    BY <1>3 DEF EditTaskStatus
  <2> HIDE DEF S
  <2> QED BY <2>1, <2>2, <2>7, <2>8, <2>9, EditedStatus
<1>4. ASSUME NEW st \in IssueStatuses, EditIssueStatus(st)
      PROVE  StoryTruthful'
  <2>1. PICK closed \in ClosedStatusesAfterEdit(st) : db' = [db EXCEPT !.closed_statuses = closed]
    BY <1>4 DEF EditIssueStatus
  <2>2. db'.us = db.us /\ db'.task = db.task /\ db'.closed_statuses = closed /\ UNCHANGED jobs
    BY <1>4, <2>1 DEF EditIssueStatus, TypeOK, DbType
  <2>3. \A other \in UserStoryStatuses \cup TaskStatuses :
          other \in db'.closed_statuses <=> other \in db.closed_statuses
    BY <2>1, <2>2, StatusesAssumption DEF ClosedStatusesAfterEdit
  <2> QED BY <2>2, <2>3, NothingRecalculated, StoriesUntouched DEF TypeOK
<1> QED BY <1>2, <1>3, <1>4

LEMMA JobActionsTruthful ==
  ASSUME TypeOK, StoryTruthful, TypeOK',
         \/ \E s \in UserStories : RunKanbanJob(s)
         \/ \E m \in Milestones : RunBacklogJob(m)
  PROVE  StoryTruthful'
<1>1. ASSUME NEW s \in UserStories, RunKanbanJob(s)
      PROVE  StoryTruthful'
  <2>1. Recalculated(db, db', {s} \cap Live(db.us))
    BY <1>1, StoryOrNothingRecalculated DEF RunKanbanJob, TypeOK
  <2>2. jobs'.kanban = jobs.kanban \ {s}
    BY <1>1 DEF RunKanbanJob, TypeOK, JobsType
  <2>3. \A x \in Live(db.us) : SameBasis(db, db, x)
    BY DEF SameBasis
  <2> QED BY <2>1, <2>2, <2>3, HarmlessStep DEF TypeOK
<1>2. ASSUME NEW m \in Milestones, RunBacklogJob(m)
      PROVE  StoryTruthful'
  <2>1. Recalculated(db, db', {})
    BY <1>2, MilestoneUpdateRecalculated DEF RunBacklogJob, TypeOK
  <2>2. jobs'.kanban = jobs.kanban
    BY <1>2 DEF RunBacklogJob, TypeOK, JobsType
  <2> QED BY <2>1, <2>2, StoriesUntouched DEF TypeOK
<1> QED BY <1>1, <1>2

LEMMA NextTruthful ==
  ASSUME Paths \cap {"bulk_create", "status_delete"} = {}, TypeOK, StoryTruthful, [Next]_vars
  PROVE  StoryTruthful'
<1>1. TypeOK'
  BY NextType
<1>2. CASE UNCHANGED vars
  BY <1>1, <1>2 DEF vars, StoryTruthful, CalculateUserstoryIsClosed, TasksOf, Live
<1>3. CASE Next
  <2>1. \A s \in UserStories : ~ BulkCreateUserstory(s)
    BY DEF BulkCreateUserstory
  <2>2. \A st, to \in Statuses : ~ DestroyStatus(st, to)
    BY DEF DestroyStatus
  <2> QED BY <1>1, <1>3, <2>1, <2>2, MilestoneActionsTruthful, UserstoryActionsTruthful,
             TaskActionsTruthful, IssueActionsTruthful, StatusActionsTruthful,
             BulkActionsTruthful, JobActionsTruthful DEF Next, Request
<1> QED BY <1>2, <1>3

\* Without bulk creation and deletion of statuses, the stored is_closed of every
\* story is what its tasks and statuses say or a Celery job for it is pending,
\* whatever requests and jobs run in whatever order.
THEOREM StoriesTruthful ==
  ASSUME Paths \cap {"bulk_create", "status_delete"} = {}
  PROVE  Spec => []StoryTruthful
<1> DEFINE IInv == TypeOK /\ StoryTruthful
<1>1. Init => IInv
  BY InitType DEF Init, StoryTruthful, Live
<1>2. IInv /\ [Next]_vars => IInv'
  BY NextType, NextTruthful
<1>3. IInv => StoryTruthful
  OBVIOUS
<1> QED BY <1>1, <1>2, <1>3, PTL DEF Spec

-----------------------------------------------------------------------------
(***************************************************************************)
(* The foreign keys.  KeysOK says of tables d what NoDanglingReferences    *)
(* says of db.                                                             *)
(***************************************************************************)
KeysOf(d) == Live(d.milestone) \cup {Null}

KeysOK(d) ==
  /\ \A s \in Live(d.us) : d.us[s].milestone \in KeysOf(d)
  /\ \A i \in Live(d.issue) : d.issue[i].milestone \in KeysOf(d)
  /\ \A t \in Live(d.task) : /\ d.task[t].milestone \in KeysOf(d)
                             /\ d.task[t].user_story \in Live(d.us) \cup {Null}

\* The tasks outside the sprint of their story, those of the stories in S left out.
ApartBut(d, S) == {t \in Apart(d) : d.task[t].user_story \notin S}

LEMMA KeysOfDb == NoDanglingReferences <=> KeysOK(db)
BY DEF NoDanglingReferences, KeysOK, KeysOf, MilestoneKeys

\* Tables e have the rows and keys of d, but for tasks that were put into the sprint of their
\* story: all that recalculations do to them.
SameKeys(d, e) ==
  /\ Live(e.us) = Live(d.us) /\ Live(e.issue) = Live(d.issue)
  /\ Live(e.task) = Live(d.task) /\ Live(e.milestone) = Live(d.milestone)
  /\ \A s \in Live(d.us) : e.us[s].milestone = d.us[s].milestone
  /\ \A i \in Live(d.issue) : e.issue[i].milestone = d.issue[i].milestone
  /\ \A t \in Live(d.task) :
       /\ e.task[t].user_story = d.task[t].user_story
       /\ \/ e.task[t].milestone = d.task[t].milestone
          \/ /\ d.task[t].user_story \in Live(d.us)
             /\ e.task[t].milestone = d.us[d.task[t].user_story].milestone

LEMMA SameKeysTwice ==
  ASSUME NEW d, NEW e, NEW f, SameKeys(d, e), SameKeys(e, f)
  PROVE  SameKeys(d, f)
BY DEF SameKeys

LEMMA SameKeysKeep ==
  ASSUME NEW d, NEW e, SameKeys(d, e)
  PROVE  (KeysOK(d) => KeysOK(e)) /\ Apart(e) \subseteq Apart(d)
<1>1. KeysOK(d) => KeysOK(e)
  BY DEF SameKeys, KeysOK, KeysOf
<1>2. Apart(e) \subseteq Apart(d)
  BY DEF SameKeys, Apart
<1> QED BY <1>1, <1>2

(***************************************************************************)
(* Handlers keep the keys.                                                 *)
(***************************************************************************)
LEMMA RecalculateMilestoneKeys ==
  ASSUME NEW d \in DbType, NEW m
  PROVE  /\ SameKeys(d, RecalculateMilestone(d, m))
         /\ SameKeys(d, CloseMilestoneIfComplete(d, m))
<1>1. ASSUME NEW closed \in BOOLEAN, m \in Live(d.milestone)
      PROVE  SameKeys(d, [d EXCEPT !.milestone[m].closed = closed])
  <2>1. [d.milestone[m] EXCEPT !.closed = closed] \in MilestoneRows
    BY <1>1, LiveRows DEF MilestoneRows
  <2>2. Live([d.milestone EXCEPT ![m].closed = closed]) = Live(d.milestone)
    BY <1>1, <2>1, AbsentAssumption DEF Live
  <2> QED BY <2>2 DEF SameKeys, DbType
<1>2. SameKeys(d, d)
  BY DEF SameKeys
<1> QED BY <1>1, <1>2, VerdictIsBoolean DEF RecalculateMilestone, CloseMilestoneIfComplete

LEMMA RecalculateIsClosedKeys ==
  ASSUME NEW d \in DbType, NEW s \in Live(d.us)
  PROVE  SameKeys(d, RecalculateIsClosed(d, s))
<1> DEFINE closed == CalculateUserstoryIsClosed(d, s)
           us1 == [d.us EXCEPT ![s].is_closed = closed]
<1>1. closed \in BOOLEAN
  BY VerdictIsBoolean
<1>2. RecalculateIsClosed(d, s) = [d EXCEPT !.us = us1]
  BY DEF RecalculateIsClosed, DbType
<1> HIDE DEF closed
<1>3. [d.us[s] EXCEPT !.is_closed = closed] \in UserStoryRows
  BY <1>1, LiveRows DEF UserStoryRows
<1>4. Live(us1) = Live(d.us) /\ \A x \in Live(d.us) : us1[x].milestone = d.us[x].milestone
  BY <1>3, LiveRows, AbsentAssumption DEF Live, UserStoryRows
<1> HIDE DEF us1
<1> QED BY <1>2, <1>4 DEF SameKeys, DbType

\* Rows of tasks in which some are put into the sprints of their stories.
PutIn(d, T) ==
  [t \in DOMAIN d.task |->
     IF t \in T THEN [d.task[t] EXCEPT !.milestone = d.us[d.task[t].user_story].milestone]
     ELSE d.task[t]]

LEMMA PutInKeys ==
  ASSUME NEW d \in DbType, NEW T \in SUBSET Live(d.task),
         \A t \in T : d.task[t].user_story \in Live(d.us)
  PROVE  /\ Live(PutIn(d, T)) = Live(d.task)
         /\ \A t \in Live(d.task) :
              /\ PutIn(d, T)[t].user_story = d.task[t].user_story
              /\ t \in T => PutIn(d, T)[t].milestone = d.us[d.task[t].user_story].milestone
              /\ t \notin T => PutIn(d, T)[t] = d.task[t]
<1>1. ASSUME NEW t \in T
      PROVE  [d.task[t] EXCEPT !.milestone = d.us[d.task[t].user_story].milestone] \in TaskRows
  BY LiveRows DEF UserStoryRows, TaskRows
<1>2. \A t \in T : PutIn(d, T)[t] # Absent
  BY <1>1, AbsentAssumption DEF PutIn, Live
<1>3. Live(PutIn(d, T)) = Live(d.task)
  BY <1>2 DEF PutIn, Live
<1> QED BY <1>3, LiveRows DEF PutIn, Live, TaskRows

LEMMA UpdateMilestoneOfTasksKeys ==
  ASSUME NEW d \in DbType, NEW s \in Live(d.us)
  PROVE  /\ SameKeys(d, UpdateMilestoneOfTasks(d, s))
         /\ Apart(UpdateMilestoneOfTasks(d, s)) \subseteq ApartBut(d, {s})
<1> DEFINE task1 == PutIn(d, TasksOf(d, s))
           e == [d EXCEPT !.task = task1]
<1>1. TasksOf(d, s) \subseteq Live(d.task) /\ \A t \in TasksOf(d, s) : d.task[t].user_story = s
  BY DEF TasksOf
<1>2. UpdateMilestoneOfTasks(d, s) = e
  BY <1>1 DEF UpdateMilestoneOfTasks, PutIn
<1>3. /\ Live(task1) = Live(d.task)
      /\ \A t \in Live(d.task) :
           /\ task1[t].user_story = d.task[t].user_story
           /\ t \in TasksOf(d, s) => task1[t].milestone = d.us[d.task[t].user_story].milestone
           /\ t \notin TasksOf(d, s) => task1[t] = d.task[t]
  BY <1>1, PutInKeys
<1> HIDE DEF task1
<1>4. SameKeys(d, e)
  BY <1>1, <1>3 DEF SameKeys, DbType
<1>5. ASSUME NEW t \in Apart(e)
      PROVE  t \in ApartBut(d, {s})
  <2>1. e.us = d.us /\ e.task = task1
    BY DEF DbType
  <2>2. t \in Live(d.task) /\ t \notin TasksOf(d, s)
    BY <1>3, <1>5, <2>1 DEF Apart, TasksOf
  <2> QED BY <1>3, <1>5, <2>1, <2>2 DEF Apart, ApartBut, TasksOf
<1> QED BY <1>2, <1>4, <1>5

LEMMA RecalculateUserstoriesKeys ==
  ASSUME NEW d \in DbType, NEW S \in SUBSET Live(d.us)
  PROVE  SameKeys(d, RecalculateUserstories(d, S))
<1> DEFINE C == {s \in S : d.us[s].is_closed # CalculateUserstoryIsClosed(d, s)}
           M == {d.us[s].milestone : s \in C}
           T == UNION {TasksOf(d, s) : s \in C}
           us1 == [s \in DOMAIN d.us |->
             IF s \in C THEN [d.us[s] EXCEPT !.is_closed = CalculateUserstoryIsClosed(d, s)]
             ELSE d.us[s]]
           task1 == PutIn(d, T)
           e == [d EXCEPT !.us = us1, !.task = task1]
           milestone1 == [m \in DOMAIN d.milestone |->
             IF m \in M \cap Live(d.milestone) THEN [closed |-> CalculateMilestoneIsClosed(e, m)]
             ELSE d.milestone[m]]
<1>1. RecalculateUserstories(d, S) = [e EXCEPT !.milestone = milestone1]
  BY DEF RecalculateUserstories, PutIn
<1>2. T \subseteq Live(d.task) /\ \A t \in T : d.task[t].user_story \in Live(d.us)
  BY DEF TasksOf
<1>3. Live(us1) = Live(d.us) /\ \A s \in Live(d.us) : us1[s].milestone = d.us[s].milestone
  <2>1. ASSUME NEW s \in C
        PROVE  [d.us[s] EXCEPT !.is_closed = CalculateUserstoryIsClosed(d, s)] \in UserStoryRows
    <3>1. CalculateUserstoryIsClosed(d, s) \in BOOLEAN
      BY VerdictIsBoolean
    <3> QED BY <3>1, LiveRows DEF UserStoryRows
  <2>2. C \subseteq Live(d.us)
    OBVIOUS
  <2> HIDE DEF C
  <2>3. Live(us1) = Live(d.us)
    BY <2>1, <2>2, AbsentAssumption DEF Live
  <2> QED BY <2>3, LiveRows DEF Live, UserStoryRows
<1>4. Live(milestone1) = Live(d.milestone)
  <2>1. \A m : [closed |-> CalculateMilestoneIsClosed(e, m)] \in MilestoneRows
    BY VerdictIsBoolean DEF MilestoneRows
  <2> HIDE DEF e, M
  <2> QED BY <2>1, AbsentAssumption DEF Live
<1> HIDE DEF T
<1>5. /\ Live(task1) = Live(d.task)
      /\ \A t \in Live(d.task) :
           /\ task1[t].user_story = d.task[t].user_story
           /\ t \in T => task1[t].milestone = d.us[d.task[t].user_story].milestone
           /\ t \notin T => task1[t] = d.task[t]
  BY <1>2, PutInKeys
<1> HIDE DEF us1, task1, milestone1
<1>6. SameKeys(d, [e EXCEPT !.milestone = milestone1])
  BY <1>2, <1>3, <1>4, <1>5 DEF SameKeys, DbType
<1> QED BY <1>1, <1>6

LEMMA RecalculateUserstoryKeys ==
  ASSUME NEW d \in DbType, NEW s
  PROVE  SameKeys(d, RecalculateUserstory(d, s))
BY RecalculateUserstoriesKeys DEF RecalculateUserstory, SameKeys

\* After the save of a story its tasks are where it is, if all others were.
LEMMA AfterSaveUserstoryKeys ==
  ASSUME NEW d \in DbType, NEW s \in Live(d.us), NEW prev
  PROVE  /\ SameKeys(d, AfterSaveUserstory(d, s, prev))
         /\ Apart(AfterSaveUserstory(d, s, prev)) \subseteq ApartBut(d, {s})
<1> DEFINE d1 == UpdateMilestoneOfTasks(d, s)
           d2 == RecalculateIsClosed(d1, s)
           d3 == RecalculateMilestone(d2, d.us[s].milestone)
           e == AfterSaveUserstory(d, s, prev)
<1>1. /\ d1 \in DbType /\ s \in Live(d1.us)
      /\ SameKeys(d, d1) /\ Apart(d1) \subseteq ApartBut(d, {s})
  BY UpdateMilestoneOfTasksType, UpdateMilestoneOfTasksKeys DEF UpdateMilestoneOfTasks, DbType
<1>2. e = d3 \/ e = RecalculateMilestone(d3, prev)
  BY DEF AfterSaveUserstory
<1> HIDE DEF d1, e
<1>3. d2 \in DbType /\ SameKeys(d1, d2)
  BY <1>1, RecalculateIsClosedType, RecalculateIsClosedKeys
<1> HIDE DEF d2
<1>4. d3 \in DbType /\ SameKeys(d2, d3)
  BY <1>3, RecalculateMilestoneType, RecalculateMilestoneKeys
<1> HIDE DEF d3
<1>5. SameKeys(d3, RecalculateMilestone(d3, prev))
  BY <1>4, RecalculateMilestoneKeys
<1>6. SameKeys(d1, d3)
  BY <1>3, <1>4, SameKeysTwice
<1>7. SameKeys(d1, e)
  BY <1>2, <1>5, <1>6, SameKeysTwice
<1>8. SameKeys(d, e) /\ Apart(e) \subseteq ApartBut(d, {s})
  BY <1>1, <1>7, SameKeysTwice, SameKeysKeep
<1> QED BY <1>8 DEF e

LEMMA AfterSaveTaskKeys ==
  ASSUME NEW d \in DbType, NEW t, NEW us, NEW m
  PROVE  SameKeys(d, AfterSaveTask(d, t, us, m))
<1> DEFINE d1 == RecalculateUserstory(d, d.task[t].user_story)
           d2 == RecalculateUserstory(d1, us)
           d3 == RecalculateMilestone(d2, d.task[t].milestone)
           d4 == RecalculateMilestone(d3, m)
<1>1. AfterSaveTask(d, t, us, m) = d4
  BY DEF AfterSaveTask
<1>2. d1 \in DbType /\ SameKeys(d, d1)
  BY RecalculateUserstoryType, RecalculateUserstoryKeys
<1> HIDE DEF d1
<1>3. d2 \in DbType /\ SameKeys(d1, d2)
  BY <1>2, RecalculateUserstoryType, RecalculateUserstoryKeys
<1> HIDE DEF d2
<1>4. d3 \in DbType /\ SameKeys(d2, d3)
  BY <1>3, RecalculateMilestoneType, RecalculateMilestoneKeys
<1> HIDE DEF d3
<1>5. SameKeys(d3, d4)
  BY <1>4, RecalculateMilestoneKeys
<1>6. SameKeys(d, d2) /\ SameKeys(d2, d4)
  BY <1>2, <1>3, <1>4, <1>5, SameKeysTwice
<1> QED BY <1>1, <1>6, SameKeysTwice

LEMMA AfterSaveIssueKeys ==
  ASSUME NEW d \in DbType, NEW i, NEW m
  PROVE  SameKeys(d, AfterSaveIssue(d, i, m))
<1> DEFINE d1 == RecalculateMilestone(d, d.issue[i].milestone)
<1>1. d1 \in DbType /\ SameKeys(d, d1)
  BY RecalculateMilestoneType, RecalculateMilestoneKeys
<1> HIDE DEF d1
<1>2. SameKeys(d1, RecalculateMilestone(d1, m))
  BY <1>1, RecalculateMilestoneKeys
<1> QED BY <1>1, <1>2, SameKeysTwice DEF AfterSaveIssue, d1

LEMMA AfterDeleteKeys ==
  ASSUME NEW d \in DbType, NEW row
  PROVE  /\ SameKeys(d, AfterDeleteUserstory(d, row))
         /\ SameKeys(d, AfterDeleteTask(d, row))
         /\ SameKeys(d, AfterDeleteIssue(d, row))
<1> DEFINE d1 == RecalculateUserstory(d, row.user_story)
<1>1. d1 \in DbType /\ SameKeys(d, d1)
  BY RecalculateUserstoryType, RecalculateUserstoryKeys
<1> HIDE DEF d1
<1>2. SameKeys(d1, CloseMilestoneIfComplete(d1, row.milestone))
  BY <1>1, RecalculateMilestoneKeys
<1>3. SameKeys(d, AfterDeleteTask(d, row))
  BY <1>1, <1>2, SameKeysTwice DEF AfterDeleteTask, d1
<1> QED BY <1>3, RecalculateMilestoneKeys DEF AfterDeleteUserstory, AfterDeleteIssue

(***************************************************************************)
(* The actions: what each writes itself, before its handlers run.          *)
(***************************************************************************)
KeysInv == TypeOK /\ KeysOK(db)

KeysStay == KeysOK(db') /\ Apart(db') \subseteq Apart(db)

LEMMA MilestoneActionsKeys ==
  ASSUME KeysInv, NEW m \in Milestones, CreateMilestone(m) \/ DeleteMilestone(m)
  PROVE  KeysStay
<1>1. CASE CreateMilestone(m)
  <2>1. /\ db'.us = db.us /\ db'.task = db.task /\ db'.issue = db.issue
        /\ Live(db.milestone) \subseteq Live(db'.milestone)
    BY <1>1, AbsentAssumption DEF CreateMilestone, KeysInv, TypeOK, DbType, Live, MilestoneRows
  <2> QED BY <2>1 DEF KeysInv, KeysStay, KeysOK, KeysOf, Apart, ApartBut
<1>2. CASE DeleteMilestone(m)
  <2> DEFINE Key(k) == IF k = m THEN Null ELSE k
  <2>1. m # Null
    BY NullAssumption
  <2>2. Live(db'.milestone) = Live(db.milestone) \ {m}
    BY <1>2 DEF DeleteMilestone, KeysInv, TypeOK, DbType, Live
  <2>3. /\ Live(db'.us) = Live(db.us)
        /\ \A s \in Live(db.us) : db'.us[s].milestone = Key(db.us[s].milestone)
    <3>1. db'.us = [s \in UserStories |->
            IF s \in UserStoriesOf(db, m) THEN [db.us[s] EXCEPT !.milestone = Null] ELSE db.us[s]]
      BY <1>2 DEF DeleteMilestone, KeysInv, TypeOK, DbType
    <3>2. ASSUME NEW s \in Live(db.us) PROVE [db.us[s] EXCEPT !.milestone = Null] \in UserStoryRows
      BY LiveRows DEF KeysInv, TypeOK, UserStoryRows
    <3> QED BY <3>1, <3>2, LiveRows, AbsentAssumption
        DEF KeysInv, TypeOK, Live, UserStoriesOf, UserStoryRows, DbType
  <2>4. /\ Live(db'.issue) = Live(db.issue)
        /\ \A i \in Live(db.issue) : db'.issue[i].milestone = Key(db.issue[i].milestone)
    <3>1. db'.issue = [i \in Issues |->
            IF i \in IssuesOf(db, m) THEN [db.issue[i] EXCEPT !.milestone = Null] ELSE db.issue[i]]
      BY <1>2 DEF DeleteMilestone, KeysInv, TypeOK, DbType
    <3>2. ASSUME NEW i \in Live(db.issue) PROVE [db.issue[i] EXCEPT !.milestone = Null] \in IssueRows
      BY LiveRows DEF KeysInv, TypeOK, IssueRows
    <3> QED BY <3>1, <3>2, LiveRows, AbsentAssumption
        DEF KeysInv, TypeOK, Live, IssuesOf, IssueRows, DbType
  <2>5. /\ Live(db'.task) = Live(db.task)
        /\ \A t \in Live(db.task) : /\ db'.task[t].milestone = Key(db.task[t].milestone)
                                    /\ db'.task[t].user_story = db.task[t].user_story
    <3>1. db'.task = [t \in Tasks |->
            IF t \in Live(db.task) /\ db.task[t].milestone = m
            THEN [db.task[t] EXCEPT !.milestone = Null] ELSE db.task[t]]
      BY <1>2 DEF DeleteMilestone, KeysInv, TypeOK, DbType
    <3>2. ASSUME NEW t \in Live(db.task) PROVE [db.task[t] EXCEPT !.milestone = Null] \in TaskRows
      BY LiveRows DEF KeysInv, TypeOK, TaskRows
    <3> QED BY <3>1, <3>2, LiveRows, AbsentAssumption
        DEF KeysInv, TypeOK, Live, TaskRows, DbType
  <2>6. KeysOK(db')
    BY <2>2, <2>3, <2>4, <2>5 DEF KeysInv, KeysOK, KeysOf
  <2>7. Apart(db') \subseteq Apart(db)
    BY <2>3, <2>5 DEF Apart, ApartBut
  <2> QED BY <2>6, <2>7 DEF KeysStay
<1> QED BY <1>1, <1>2

\* A save is an edit of the tables followed by handlers that keep the keys.
LEMMA SavedKeys ==
  ASSUME NEW d, KeysOK(d), Apart(d) \subseteq Apart(db), SameKeys(d, db')
  PROVE  KeysStay
BY SameKeysKeep DEF KeysStay

\* A story whose row is written, with a sprint that exists.
LEMMA WrittenUserstoryKeys ==
  ASSUME KeysInv, NEW s \in UserStories, NEW row \in UserStoryRows, row.milestone \in MilestoneKeys
  PROVE  LET d == [db EXCEPT !.us[s] = row]
         IN /\ d \in DbType /\ s \in Live(d.us)
            /\ KeysOK(d) /\ ApartBut(d, {s}) \subseteq Apart(db)
<1> DEFINE d == [db EXCEPT !.us[s] = row]
<1>1. d \in DbType /\ d.us[s] = row
  BY DEF KeysInv, TypeOK, DbType
<1>2. /\ Live(d.us) = Live(db.us) \cup {s} /\ \A x \in Live(db.us) \ {s} : d.us[x] = db.us[x]
      /\ d.task = db.task /\ d.issue = db.issue /\ d.milestone = db.milestone
  BY AbsentAssumption DEF KeysInv, TypeOK, DbType, Live
<1> HIDE DEF d
<1>3. KeysOK(d)
  BY <1>1, <1>2 DEF KeysInv, KeysOK, KeysOf, MilestoneKeys
<1>4. ApartBut(d, {s}) \subseteq Apart(db)
  BY <1>2 DEF Apart, ApartBut
<1> QED BY <1>1, <1>2, <1>3, <1>4 DEF d

LEMMA SaveUserstoryKeys ==
  ASSUME KeysInv, NEW s \in Live(db.us), NEW st \in UserStoryStatuses, NEW m \in MilestoneKeys,
         SaveUserstory(s, st, m)
  PROVE  KeysStay
<1> DEFINE row == [db.us[s] EXCEPT !.status = st, !.milestone = m]
           d == [db EXCEPT !.us[s] = row]
<1>1. row \in UserStoryRows /\ row.milestone = m /\ s \in UserStories
  BY LiveRows, MilestoneKeysType DEF KeysInv, TypeOK, UserStoryRows
<1>2. db' = AfterSaveUserstory(d, s, db.us[s].milestone)
  BY DEF SaveUserstory
<1>3. d \in DbType /\ s \in Live(d.us) /\ KeysOK(d) /\ ApartBut(d, {s}) \subseteq Apart(db)
  <2> HIDE DEF row
  <2> QED BY <1>1, WrittenUserstoryKeys
<1> HIDE DEF d
<1>4. SameKeys(d, db') /\ Apart(db') \subseteq ApartBut(d, {s})
  BY <1>2, <1>3, AfterSaveUserstoryKeys
<1> QED BY <1>3, <1>4, SameKeysKeep DEF KeysStay

LEMMA UserstoryActionsKeys ==
  ASSUME KeysInv, NEW s \in UserStories,
         \/ CreateUserstory(s) \/ EditUserstory(s) \/ DeleteUserstory(s)
         \/ MoveUserstory(s) \/ MoveAndEditUserstory(s) \/ BulkCreateUserstory(s)
  PROVE  KeysStay
<1>1. ASSUME NEW st \in UserStoryStatuses, NEW m \in MilestoneKeys
      PROVE  [status |-> st, milestone |-> m, is_closed |-> FALSE] \in UserStoryRows
  BY MilestoneKeysType DEF UserStoryRows, KeysInv
<1>2. CASE CreateUserstory(s)
  <2>1. PICK st \in UserStoryStatuses, m \in MilestoneKeys :
          db' = AfterSaveUserstory(
                  [db EXCEPT !.us[s] = [status |-> st, milestone |-> m, is_closed |-> FALSE]],
                  s, Null)
    BY <1>2 DEF CreateUserstory
  <2> DEFINE row == [status |-> st, milestone |-> m, is_closed |-> FALSE]
             d == [db EXCEPT !.us[s] = row]
  <2>2. row \in UserStoryRows /\ row.milestone = m
    BY <1>1
  <2>3. d \in DbType /\ s \in Live(d.us) /\ KeysOK(d) /\ ApartBut(d, {s}) \subseteq Apart(db)
    <3> HIDE DEF row
    <3> QED BY <2>2, WrittenUserstoryKeys
  <2>4. db' = AfterSaveUserstory(d, s, Null)
    BY <2>1
  <2> HIDE DEF d
  <2> QED BY <2>3, <2>4, AfterSaveUserstoryKeys, SameKeysKeep DEF KeysStay
<1>3. CASE EditUserstory(s)
  BY <1>3, SaveUserstoryKeys DEF EditUserstory, KeysInv, KeysOK, KeysOf, MilestoneKeys
<1>4. CASE DeleteUserstory(s)
  <2> DEFINE d == [db EXCEPT
                    !.us[s] = Absent,
                    !.task = [t \in Tasks |-> IF t \in TasksOf(db, s) THEN Absent ELSE db.task[t]]]
  <2>1. d \in DbType
    BY DEF KeysInv, TypeOK, DbType
  <2>2. db' = AfterDeleteUserstory(d, db.us[s])
    BY <1>4 DEF DeleteUserstory
  <2>3. /\ Live(d.us) = Live(db.us) \ {s} /\ \A x \in Live(d.us) : d.us[x] = db.us[x]
        /\ Live(d.task) = Live(db.task) \ TasksOf(db, s)
        /\ \A t \in Live(d.task) : d.task[t] = db.task[t]
        /\ d.issue = db.issue /\ d.milestone = db.milestone
    BY DEF KeysInv, TypeOK, DbType, Live, TasksOf
  <2> HIDE DEF d
  <2>4. KeysOK(d)
    BY <2>3 DEF KeysInv, KeysOK, KeysOf, TasksOf
  <2>5. Apart(d) \subseteq Apart(db)
    BY <2>3 DEF Apart, ApartBut
  <2> QED BY <2>1, <2>2, <2>4, <2>5, AfterDeleteKeys, SavedKeys
<1>5. CASE MoveUserstory(s)
  <2>1. s \in Live(db.us) /\ db.us[s].status \in UserStoryStatuses
    BY <1>5, LiveRows DEF MoveUserstory, KeysInv, TypeOK, UserStoryRows
  <2> QED BY <1>5, <2>1, SaveUserstoryKeys DEF MoveUserstory
<1>6. CASE MoveAndEditUserstory(s)
  BY <1>6, SaveUserstoryKeys DEF MoveAndEditUserstory
<1>7. CASE BulkCreateUserstory(s)
  <2>1. PICK st \in UserStoryStatuses :
          db' = [db EXCEPT !.us[s] = [status |-> st, milestone |-> Null, is_closed |-> FALSE]]
    BY <1>7 DEF BulkCreateUserstory
  <2> DEFINE row == [status |-> st, milestone |-> Null, is_closed |-> FALSE]
  <2>2. row \in UserStoryRows /\ row.milestone = Null /\ Null \in MilestoneKeys
    BY <1>1 DEF MilestoneKeys
  <2>3. db' = [db EXCEPT !.us[s] = row]
    BY <2>1
  <2> HIDE DEF row
  <2>4. KeysOK(db') /\ ApartBut(db', {s}) \subseteq Apart(db)
    BY <2>2, <2>3, WrittenUserstoryKeys
  <2>5. TasksOf(db', s) = {}
    <3>1. s \notin Live(db.us) /\ s # Null /\ db'.task = db.task
      BY <1>7, <2>3, NullAssumption DEF BulkCreateUserstory, Live, KeysInv, TypeOK, DbType
    <3> QED BY <3>1 DEF TasksOf, KeysInv, KeysOK
  <2> QED BY <2>4, <2>5 DEF KeysStay, Apart, ApartBut, TasksOf
<1> QED BY <1>2, <1>3, <1>4, <1>5, <1>6, <1>7

LEMMA TaskActionsKeys ==
  ASSUME KeysInv, NEW t \in Tasks, CreateTask(t) \/ EditTask(t) \/ DeleteTask(t)
  PROVE  KeysStay
<1>1. ASSUME NEW st \in TaskStatuses, NEW us \in Live(db.us) \cup {Null}, NEW m \in MilestoneKeys,
             NEW was, NEW from,
             LET d == [db EXCEPT !.task[t] = [status |-> st, user_story |-> us,
                                              milestone |-> TaskMilestone(us, m)]]
             IN db' = AfterSaveTask(d, t, was, from)
      PROVE  KeysStay
  <2> DEFINE row == [status |-> st, user_story |-> us, milestone |-> TaskMilestone(us, m)]
             d == [db EXCEPT !.task[t] = row]
  <2>1. TaskMilestone(us, m) \in MilestoneKeys
    BY DEF TaskMilestone, KeysInv, KeysOK, KeysOf, MilestoneKeys
  <2>2. /\ row \in TaskRows /\ row.user_story = us /\ row.milestone \in MilestoneKeys
        /\ us # Null => row.milestone = db.us[us].milestone
    BY <2>1, LiveRows, MilestoneKeysType DEF TaskRows, KeysInv, TypeOK, TaskMilestone
  <2>3. db' = AfterSaveTask(d, t, was, from)
    BY <1>1
  <2> HIDE DEF row
  <2>4. d \in DbType
    BY <2>2 DEF KeysInv, TypeOK, DbType
  <2>5. /\ d.us = db.us /\ d.issue = db.issue /\ d.milestone = db.milestone
        /\ Live(d.task) = Live(db.task) \cup {t} /\ d.task[t] = row
        /\ \A x \in Live(db.task) \ {t} : d.task[x] = db.task[x]
    BY <2>2, AbsentAssumption DEF KeysInv, TypeOK, DbType, Live
  <2> HIDE DEF d
  <2>6. KeysOK(d)
    BY <2>2, <2>5 DEF KeysInv, KeysOK, KeysOf, MilestoneKeys
  <2>7. Apart(d) \subseteq Apart(db)
    <3>1. Null \notin Live(db.us)
      BY LiveRows, NullAssumption DEF KeysInv, TypeOK
    <3> QED BY <2>2, <2>5, <3>1 DEF Apart, ApartBut
  <2> QED BY <2>3, <2>4, <2>6, <2>7, AfterSaveTaskKeys, SavedKeys
<1>2. CASE CreateTask(t)
  BY <1>1, <1>2 DEF CreateTask
<1>3. CASE EditTask(t)
  BY <1>1, <1>3 DEF EditTask
<1>4. CASE DeleteTask(t)
  <2> DEFINE d == [db EXCEPT !.task[t] = Absent]
  <2>1. d \in DbType /\ db' = AfterDeleteTask(d, db.task[t])
    BY <1>4 DEF DeleteTask, KeysInv, TypeOK, DbType
  <2>2. /\ d.us = db.us /\ d.issue = db.issue /\ d.milestone = db.milestone
        /\ Live(d.task) \subseteq Live(db.task) /\ \A x \in Live(d.task) : d.task[x] = db.task[x]
    BY DEF KeysInv, TypeOK, DbType, Live
  <2> HIDE DEF d
  <2>3. KeysOK(d) /\ Apart(d) \subseteq Apart(db)
    BY <2>2 DEF KeysInv, KeysOK, KeysOf, Apart, ApartBut
  <2> QED BY <2>1, <2>3, AfterDeleteKeys, SavedKeys
<1> QED BY <1>2, <1>3, <1>4

\* A step that takes tasks out of the sprints of their stories does nothing else.
MovesAlone ==
  \A t \in Apart(db') \ Apart(db) :
    /\ db'.us = db.us
    /\ db'.task = [db.task EXCEPT ![t].milestone = db'.task[t].milestone]

LEMMA StayIsAlone == KeysStay => MovesAlone
BY DEF KeysStay, MovesAlone

\* A task whose sprint is written keeps its story, and that story its sprint.
LEMMA MovedTaskKeys ==
  ASSUME KeysInv, NEW t \in Live(db.task), NEW m \in Live(db.milestone)
  PROVE  LET d == [db EXCEPT !.task[t].milestone = m]
         IN /\ d \in DbType /\ KeysOK(d)
            /\ Apart(d) \subseteq Apart(db) \cup {t}
            /\ d.us = db.us /\ d.task = [db.task EXCEPT ![t].milestone = m]
            /\ t \in Live(d.task) /\ d.task[t].user_story = db.task[t].user_story
<1> DEFINE d == [db EXCEPT !.task[t].milestone = m]
<1>1. db.task[t] \in TaskRows /\ t \in Tasks /\ m \in Milestones
  BY LiveRows DEF KeysInv, TypeOK
<1>2. [db.task[t] EXCEPT !.milestone = m] \in TaskRows
  BY <1>1 DEF TaskRows
<1>3. d \in DbType /\ d.task = [db.task EXCEPT ![t].milestone = m]
  BY <1>1, <1>2 DEF KeysInv, TypeOK, DbType
<1>4. /\ d.us = db.us /\ d.issue = db.issue /\ d.milestone = db.milestone
      /\ Live(d.task) = Live(db.task)
      /\ \A x \in Live(db.task) \ {t} : d.task[x] = db.task[x]
      /\ d.task[t].milestone = m /\ d.task[t].user_story = db.task[t].user_story
  BY <1>1, <1>2, AbsentAssumption DEF KeysInv, TypeOK, DbType, Live, TaskRows
<1> HIDE DEF d
<1>5. KeysOK(d)
  BY <1>4 DEF KeysInv, KeysOK, KeysOf
<1>6. Apart(d) \subseteq Apart(db) \cup {t}
  BY <1>4 DEF Apart
<1> QED BY <1>3, <1>4, <1>5, <1>6 DEF d

\* A story is left as it is with its tasks, or it is saved and they are put in its sprint.
LEMMA RecalculatedOrTogether ==
  ASSUME NEW d \in DbType, NEW s, NEW t \in TasksOf(d, s)
  PROVE  \/ /\ RecalculateUserstory(d, s).us = d.us
            /\ RecalculateUserstory(d, s).task = d.task
         \/ t \notin Apart(RecalculateUserstory(d, s))
<1>1. CASE s \notin Live(d.us)
  BY <1>1 DEF RecalculateUserstory
<1>2. CASE s \in Live(d.us) /\ d.us[s].is_closed = CalculateUserstoryIsClosed(d, s)
  <2>1. {x \in {s} : d.us[x].is_closed # CalculateUserstoryIsClosed(d, x)} = {}
    BY <1>2
  <2>2. /\ [x \in DOMAIN d.us |-> d.us[x]] = d.us
        /\ [x \in DOMAIN d.task |-> d.task[x]] = d.task
    BY DEF DbType
  <2> DEFINE C == {x \in {s} : d.us[x].is_closed # CalculateUserstoryIsClosed(d, x)}
  <2>3. \A x : x \notin C /\ x \notin UNION {TasksOf(d, y) : y \in C}
    BY <2>1
  <2>4. /\ RecalculateUserstories(d, {s}).us = [x \in DOMAIN d.us |-> d.us[x]]
        /\ RecalculateUserstories(d, {s}).task = [x \in DOMAIN d.task |-> d.task[x]]
    <3> HIDE DEF C
    <3> QED BY <2>3 DEF RecalculateUserstories, C, DbType
  <2> QED BY <1>2, <2>2, <2>4 DEF RecalculateUserstory
<1>3. CASE s \in Live(d.us) /\ d.us[s].is_closed # CalculateUserstoryIsClosed(d, s)
  <2> DEFINE e == RecalculateUserstories(d, {s})
  <2>1. {x \in {s} : d.us[x].is_closed # CalculateUserstoryIsClosed(d, x)} = {s}
    BY <1>3
  <2>2. t \in DOMAIN d.task /\ d.task[t] \in TaskRows /\ d.task[t].user_story = s
    BY LiveRows DEF TasksOf, Live
  <2>3. e.task[t] = [d.task[t] EXCEPT !.milestone = d.us[s].milestone]
    BY <2>1, <2>2 DEF RecalculateUserstories, DbType
  <2>4. e.task[t].milestone = d.us[s].milestone /\ e.task[t].user_story = s
    BY <2>2, <2>3 DEF TaskRows
  <2>5. SameKeys(d, e)
    BY <1>3, RecalculateUserstoriesKeys
  <2> HIDE DEF e
  <2>6. t \notin Apart(e)
    BY <1>3, <2>4, <2>5 DEF Apart, SameKeys
  <2> QED BY <1>3, <2>6 DEF RecalculateUserstory, e
<1> QED BY <1>1, <1>2, <1>3

LEMMA MilestoneLeavesRows ==
  ASSUME NEW d \in DbType, NEW m
  PROVE  RecalculateMilestone(d, m).us = d.us /\ RecalculateMilestone(d, m).task = d.task
BY DEF RecalculateMilestone, DbType

\* The handlers of a task that is still apart after them had nothing to save.
LEMMA AfterSaveTaskApart ==
  ASSUME NEW d \in DbType, NEW t \in Live(d.task), NEW m,
         t \in Apart(AfterSaveTask(d, t, d.task[t].user_story, m))
  PROVE  LET e == AfterSaveTask(d, t, d.task[t].user_story, m)
         IN e.us = d.us /\ e.task = d.task
<1> DEFINE s == d.task[t].user_story
           d1 == RecalculateUserstory(d, s)
           d2 == RecalculateUserstory(d1, s)
           d3 == RecalculateMilestone(d2, d.task[t].milestone)
           d4 == RecalculateMilestone(d3, m)
<1>1. AfterSaveTask(d, t, s, m) = d4
  BY DEF AfterSaveTask
<1>2. t \in TasksOf(d, s)
  BY DEF TasksOf
<1> HIDE DEF s
<1>3. /\ d1 \in DbType /\ SameKeys(d, d1)
      /\ (d1.us = d.us /\ d1.task = d.task) \/ t \notin Apart(d1)
  BY <1>2, RecalculateUserstoryType, RecalculateUserstoryKeys, RecalculatedOrTogether
<1> HIDE DEF d1
<1>4. t \in TasksOf(d1, s)
  BY <1>2, <1>3 DEF TasksOf, SameKeys
<1>5. /\ d2 \in DbType /\ SameKeys(d1, d2)
      /\ (d2.us = d1.us /\ d2.task = d1.task) \/ t \notin Apart(d2)
  BY <1>3, <1>4, RecalculateUserstoryType, RecalculateUserstoryKeys, RecalculatedOrTogether
<1> HIDE DEF d2
<1>6. d3 \in DbType /\ d3.us = d2.us /\ d3.task = d2.task
  BY <1>5, RecalculateMilestoneType, MilestoneLeavesRows
<1> HIDE DEF d3
<1>7. d4.us = d2.us /\ d4.task = d2.task
  BY <1>6, MilestoneLeavesRows
<1> HIDE DEF d4
<1>8. t \in Apart(d2)
  BY <1>1, <1>7 DEF Apart, s
<1>9. t \in Apart(d1)
  BY <1>5, <1>8, SameKeysKeep
<1> QED BY <1>1, <1>3, <1>5, <1>7, <1>8, <1>9 DEF s

LEMMA MovedTaskActionsKeys ==
  ASSUME KeysInv, NEW t \in Tasks, MoveTaskToSprint(t) \/ BulkUpdateMilestoneOfTask(t)
  PROVE  KeysOK(db') /\ MovesAlone
<1>1. t \in Live(db.task)
  BY DEF MoveTaskToSprint, BulkUpdateMilestoneOfTask
<1>2. PICK m \in Live(db.milestone) :
        LET d == [db EXCEPT !.task[t].milestone = m]
        IN \/ db' = AfterSaveTask(d, t, db.task[t].user_story, db.task[t].milestone)
           \/ db' = d
  BY DEF MoveTaskToSprint, BulkUpdateMilestoneOfTask
<1> DEFINE d == [db EXCEPT !.task[t].milestone = m]
           row == db.task[t]
<1>3. /\ d \in DbType /\ KeysOK(d)
      /\ Apart(d) \subseteq Apart(db) \cup {t}
      /\ d.us = db.us /\ d.task = [db.task EXCEPT ![t].milestone = m]
      /\ t \in Live(d.task) /\ d.task[t].user_story = row.user_story
  BY <1>1, MovedTaskKeys
<1>4. db' = AfterSaveTask(d, t, row.user_story, row.milestone) \/ db' = d
  BY <1>2
<1>5. m = d.task[t].milestone
  BY <1>1, LiveRows DEF KeysInv, TypeOK, DbType, TaskRows
<1> HIDE DEF d, row
<1>6. SameKeys(d, db')
  <2>1. SameKeys(d, d)
    BY DEF SameKeys
  <2> QED BY <1>3, <1>4, <2>1, AfterSaveTaskKeys
<1>7. KeysOK(db') /\ Apart(db') \subseteq Apart(d)
  BY <1>3, <1>6, SameKeysKeep
<1>8. t \in Apart(db') => db'.us = d.us /\ db'.task = d.task
  <2>1. CASE db' = AfterSaveTask(d, t, d.task[t].user_story, row.milestone)
    BY <1>3, <2>1, AfterSaveTaskApart
  <2>2. CASE db' = d
    BY <2>2
  <2> QED BY <1>3, <1>4, <2>1, <2>2
<1>9. MovesAlone
  BY <1>3, <1>5, <1>7, <1>8 DEF MovesAlone
<1> QED BY <1>7, <1>9

LEMMA IssueActionsKeys ==
  ASSUME KeysInv, NEW i \in Issues,
         \/ CreateIssue(i) \/ EditIssue(i) \/ DeleteIssue(i)
         \/ BulkCreateIssue(i) \/ BulkUpdateMilestoneOfIssue(i)
  PROVE  KeysStay
<1>1. ASSUME NEW d \in DbType, d.us = db.us, d.task = db.task, d.milestone = db.milestone,
             \A x \in Live(d.issue) : d.issue[x].milestone \in MilestoneKeys,
             SameKeys(d, db')
      PROVE  KeysStay
  <2>1. KeysOK(d) /\ Apart(d) \subseteq Apart(db)
    BY <1>1 DEF KeysInv, KeysOK, KeysOf, MilestoneKeys, Apart, ApartBut
  <2> QED BY <1>1, <2>1, SavedKeys
<1>2. CASE CreateIssue(i) \/ EditIssue(i) \/ BulkCreateIssue(i)
  <2>1. PICK st \in IssueStatuses, m \in MilestoneKeys :
          LET d == [db EXCEPT !.issue[i] = [status |-> st, milestone |-> m]]
          IN \/ db' = AfterSaveIssue(d, i, Null)
             \/ db' = AfterSaveIssue(d, i, db.issue[i].milestone)
             \/ db' = d
    <3>1. CASE CreateIssue(i) BY <3>1 DEF CreateIssue
    <3>2. CASE EditIssue(i) BY <3>2 DEF EditIssue
    <3>3. CASE BulkCreateIssue(i) BY <3>3 DEF BulkCreateIssue
    <3> QED BY <1>2, <3>1, <3>2, <3>3
  <2> DEFINE d == [db EXCEPT !.issue[i] = [status |-> st, milestone |-> m]]
  <2>2. [status |-> st, milestone |-> m] \in IssueRows
    BY MilestoneKeysType DEF IssueRows, KeysInv
  <2>3. d \in DbType
    BY <2>2 DEF KeysInv, TypeOK, DbType
  <2>4. /\ d.us = db.us /\ d.task = db.task /\ d.milestone = db.milestone
        /\ \A x \in Live(d.issue) : d.issue[x].milestone \in MilestoneKeys
    BY DEF KeysInv, TypeOK, DbType, KeysOK, KeysOf, MilestoneKeys, Live
  <2>5. \/ db' = AfterSaveIssue(d, i, Null)
        \/ db' = AfterSaveIssue(d, i, db.issue[i].milestone)
        \/ db' = d
    BY <2>1
  <2> HIDE DEF d
  <2>6. SameKeys(d, db')
    BY <2>3, <2>5, AfterSaveIssueKeys DEF SameKeys
  <2> QED BY <1>1, <2>3, <2>4, <2>6
<1>3. CASE DeleteIssue(i)
  <2> DEFINE d == [db EXCEPT !.issue[i] = Absent]
  <2>1. d \in DbType /\ db' = AfterDeleteIssue(d, db.issue[i])
    BY <1>3 DEF DeleteIssue, KeysInv, TypeOK, DbType
  <2>2. /\ d.us = db.us /\ d.task = db.task /\ d.milestone = db.milestone
        /\ \A x \in Live(d.issue) : d.issue[x].milestone \in MilestoneKeys
    BY DEF KeysInv, TypeOK, DbType, KeysOK, KeysOf, MilestoneKeys, Live
  <2> HIDE DEF d
  <2> QED BY <1>1, <2>1, <2>2, AfterDeleteKeys
<1>4. CASE BulkUpdateMilestoneOfIssue(i)
  <2>1. PICK m \in Live(db.milestone) : db' = [db EXCEPT !.issue[i].milestone = m]
    BY <1>4 DEF BulkUpdateMilestoneOfIssue
  <2>2. db.issue[i] \in IssueRows /\ i \in Live(db.issue) /\ m \in Milestones
    BY <1>4, LiveRows DEF BulkUpdateMilestoneOfIssue, KeysInv, TypeOK
  <2>3. [db.issue[i] EXCEPT !.milestone = m] \in IssueRows
    BY <2>2 DEF IssueRows
  <2>4. /\ db' \in DbType /\ db'.us = db.us /\ db'.task = db.task /\ db'.milestone = db.milestone
    BY <2>1, <2>3 DEF KeysInv, TypeOK, DbType
  <2>5. /\ db'.issue[i].milestone = m
        /\ \A x \in Live(db'.issue) : x # i => x \in Live(db.issue) /\ db'.issue[x] = db.issue[x]
    BY <2>1, <2>2 DEF KeysInv, TypeOK, DbType, Live, IssueRows
  <2>6. \A x \in Live(db'.issue) : db'.issue[x].milestone \in MilestoneKeys
    BY <2>5 DEF KeysInv, KeysOK, KeysOf, MilestoneKeys
  <2> QED BY <1>1, <2>4, <2>6 DEF SameKeys
<1> QED BY <1>2, <1>3, <1>4

LEMMA MovedKeys ==
  ASSUME NEW d \in DbType, NEW st, NEW to
  PROVE  /\ to \in UserStoryStatuses => SameKeys(d, [d EXCEPT !.us = Moved(d.us, st, to)])
         /\ to \in TaskStatuses => SameKeys(d, [d EXCEPT !.task = Moved(d.task, st, to)])
         /\ to \in IssueStatuses => SameKeys(d, [d EXCEPT !.issue = Moved(d.issue, st, to)])
<1>1. ASSUME to \in UserStoryStatuses
      PROVE  /\ Live(Moved(d.us, st, to)) = Live(d.us)
             /\ \A s \in Live(d.us) : Moved(d.us, st, to)[s].milestone = d.us[s].milestone
  <2>1. ASSUME NEW s \in Live(d.us) PROVE [d.us[s] EXCEPT !.status = to] \in UserStoryRows
    BY <1>1, LiveRows DEF UserStoryRows
  <2> QED BY <2>1, LiveRows, AbsentAssumption DEF Moved, Live, UserStoryRows
<1>2. ASSUME to \in TaskStatuses
      PROVE  /\ Live(Moved(d.task, st, to)) = Live(d.task)
             /\ \A t \in Live(d.task) : /\ Moved(d.task, st, to)[t].milestone = d.task[t].milestone
                                        /\ Moved(d.task, st, to)[t].user_story = d.task[t].user_story
  <2>1. ASSUME NEW t \in Live(d.task) PROVE [d.task[t] EXCEPT !.status = to] \in TaskRows
    BY <1>2, LiveRows DEF TaskRows
  <2> QED BY <2>1, LiveRows, AbsentAssumption DEF Moved, Live, TaskRows
<1>3. ASSUME to \in IssueStatuses
      PROVE  /\ Live(Moved(d.issue, st, to)) = Live(d.issue)
             /\ \A i \in Live(d.issue) : Moved(d.issue, st, to)[i].milestone = d.issue[i].milestone
  <2>1. ASSUME NEW i \in Live(d.issue) PROVE [d.issue[i] EXCEPT !.status = to] \in IssueRows
    BY <1>3, LiveRows DEF IssueRows
  <2> QED BY <2>1, LiveRows, AbsentAssumption DEF Moved, Live, IssueRows
<1> QED BY <1>1, <1>2, <1>3 DEF SameKeys, DbType

LEMMA StatusActionsKeys ==
  ASSUME KeysInv,
         \/ \E st \in UserStoryStatuses : EditUserStoryStatus(st)
         \/ \E st \in TaskStatuses : EditTaskStatus(st)
         \/ \E st \in IssueStatuses : EditIssueStatus(st)
         \/ \E st, to \in Statuses : DestroyStatus(st, to)
  PROVE  KeysStay
<1>1. ASSUME NEW st \in Statuses, NEW closed \in ClosedStatusesAfterEdit(st)
      PROVE  LET d == [db EXCEPT !.closed_statuses = closed]
             IN d \in DbType /\ KeysOK(d) /\ Apart(d) \subseteq Apart(db)
  BY DEF ClosedStatusesAfterEdit, KeysInv, TypeOK, DbType, KeysOK, KeysOf, Apart, ApartBut
<1>2. ASSUME NEW st \in Statuses, NEW closed \in ClosedStatusesAfterEdit(st),
             LET d == [db EXCEPT !.closed_statuses = closed]
             IN \E S \in SUBSET Live(d.us) : db' = RecalculateUserstories(d, S)
      PROVE  KeysStay
  <2> DEFINE d == [db EXCEPT !.closed_statuses = closed]
  <2>1. PICK S \in SUBSET Live(d.us) : db' = RecalculateUserstories(d, S)
    BY <1>2
  <2>2. d \in DbType /\ KeysOK(d) /\ Apart(d) \subseteq Apart(db)
    BY <1>1
  <2> HIDE DEF d
  <2> QED BY <2>1, <2>2, RecalculateUserstoriesKeys, SavedKeys
<1>3. CASE \E st \in UserStoryStatuses : EditUserStoryStatus(st)
  <2>1. PICK st \in UserStoryStatuses : \E closed \in ClosedStatusesAfterEdit(st) :
          LET d == [db EXCEPT !.closed_statuses = closed]
          IN db' = RecalculateUserstories(d, {s \in Live(d.us) : d.us[s].status = st})
    BY <1>3 DEF EditUserStoryStatus
  <2> QED BY <1>2, <2>1 DEF Statuses
<1>4. CASE \E st \in TaskStatuses : EditTaskStatus(st)
  <2>1. PICK st \in TaskStatuses : \E closed \in ClosedStatusesAfterEdit(st) :
          LET d == [db EXCEPT !.closed_statuses = closed]
          IN db' = RecalculateUserstories(d,
               {s \in Live(d.us) : \E t \in TasksOf(d, s) : d.task[t].status = st})
    BY <1>4 DEF EditTaskStatus
  <2> QED BY <1>2, <2>1 DEF Statuses
<1>5. CASE \E st \in IssueStatuses : EditIssueStatus(st)
  BY <1>1, <1>5 DEF EditIssueStatus, Statuses, KeysStay
<1>6. CASE \E st, to \in Statuses : DestroyStatus(st, to)
  <2>1. PICK st \in Statuses, to \in Statuses : DestroyStatus(st, to) BY <1>6
  <2>2. /\ to \in UserStoryStatuses => SameKeys(db, [db EXCEPT !.us = Moved(db.us, st, to)])
        /\ to \in TaskStatuses => SameKeys(db, [db EXCEPT !.task = Moved(db.task, st, to)])
        /\ to \in IssueStatuses => SameKeys(db, [db EXCEPT !.issue = Moved(db.issue, st, to)])
    <3>1. db \in DbType
      BY DEF KeysInv, TypeOK
    <3> QED BY <3>1, MovedKeys
  <2>3. \/ to \in UserStoryStatuses /\ db' = [db EXCEPT !.us = Moved(db.us, st, to)]
        \/ to \in TaskStatuses /\ db' = [db EXCEPT !.task = Moved(db.task, st, to)]
        \/ to \in IssueStatuses /\ db' = [db EXCEPT !.issue = Moved(db.issue, st, to)]
    BY <2>1 DEF DestroyStatus
  <2>4. SameKeys(db, db')
    <3>1. CASE to \in UserStoryStatuses /\ db' = [db EXCEPT !.us = Moved(db.us, st, to)]
      BY <2>2, <3>1
    <3>2. CASE to \in TaskStatuses /\ db' = [db EXCEPT !.task = Moved(db.task, st, to)]
      BY <2>2, <3>2
    <3>3. CASE to \in IssueStatuses /\ db' = [db EXCEPT !.issue = Moved(db.issue, st, to)]
      BY <2>2, <3>3
    <3> QED BY <2>3, <3>1, <3>2, <3>3
  <2> QED BY <2>4, SameKeysKeep DEF KeysInv, KeysStay
<1> QED BY <1>3, <1>4, <1>5, <1>6

\* Stories that are put into a sprint take their tasks along.
LEMMA WithMilestoneKeys ==
  ASSUME KeysInv, NEW S \in SUBSET Live(db.us), NEW m \in MilestoneKeys, db' = WithMilestone(db, S, m)
  PROVE  KeysStay
<1> DEFINE T == UNION {TasksOf(db, s) : s \in S}
<1>1. /\ db'.issue = db.issue /\ db'.milestone = db.milestone
      /\ db'.us = [s \in DOMAIN db.us |->
                     IF s \in S THEN [db.us[s] EXCEPT !.milestone = m] ELSE db.us[s]]
      /\ db'.task = [t \in DOMAIN db.task |->
                       IF t \in T THEN [db.task[t] EXCEPT !.milestone = m] ELSE db.task[t]]
  BY DEF WithMilestone, KeysInv, TypeOK, DbType
<1>2. m \in Milestones \cup {Null}
  BY MilestoneKeysType DEF KeysInv
<1>3. /\ Live(db'.us) = Live(db.us)
      /\ \A s \in Live(db.us) : db'.us[s].milestone = IF s \in S THEN m ELSE db.us[s].milestone
  <2>1. ASSUME NEW s \in S PROVE [db.us[s] EXCEPT !.milestone = m] \in UserStoryRows
    BY <1>2, LiveRows DEF KeysInv, TypeOK, UserStoryRows
  <2> QED BY <1>1, <2>1, LiveRows, AbsentAssumption DEF Live, KeysInv, TypeOK, UserStoryRows
<1>4. T \subseteq Live(db.task) /\ \A t \in Live(db.task) : t \in T <=> db.task[t].user_story \in S
  BY DEF TasksOf
<1> HIDE DEF T
<1>5. /\ Live(db'.task) = Live(db.task)
      /\ \A t \in Live(db.task) :
           /\ db'.task[t].user_story = db.task[t].user_story
           /\ db'.task[t].milestone = IF t \in T THEN m ELSE db.task[t].milestone
  <2>1. ASSUME NEW t \in T PROVE [db.task[t] EXCEPT !.milestone = m] \in TaskRows
    BY <1>2, <1>4, LiveRows DEF KeysInv, TypeOK, TaskRows
  <2> QED BY <1>1, <1>4, <2>1, LiveRows, AbsentAssumption DEF Live, KeysInv, TypeOK, TaskRows
<1>6. KeysOK(db')
  BY <1>1, <1>3, <1>5 DEF KeysInv, KeysOK, KeysOf, MilestoneKeys
<1>7. Apart(db') \subseteq Apart(db)
  BY <1>3, <1>4, <1>5 DEF Apart, ApartBut
<1> QED BY <1>6, <1>7 DEF KeysStay

LEMMA BulkActionsKeys ==
  ASSUME KeysInv, NEW S \in SUBSET Live(db.us),
         BulkUpdateKanbanOrder(S) \/ BulkUpdateBacklogOrder(S) \/ BulkUpdateMilestone(S)
  PROVE  KeysStay
<1>1. CASE BulkUpdateKanbanOrder(S)
  <2>1. PICK st \in UserStoryStatuses :
          db' = [db EXCEPT !.us = [s \in UserStories |->
                  IF s \in S THEN [db.us[s] EXCEPT !.status = st] ELSE db.us[s]]]
    BY <1>1 DEF BulkUpdateKanbanOrder
  <2>2. ASSUME NEW s \in S PROVE [db.us[s] EXCEPT !.status = st] \in UserStoryRows
    BY LiveRows DEF KeysInv, TypeOK, UserStoryRows
  <2>3. /\ Live(db'.us) = Live(db.us)
        /\ \A s \in Live(db.us) : db'.us[s].milestone = db.us[s].milestone
    BY <2>1, <2>2, LiveRows, AbsentAssumption DEF KeysInv, TypeOK, DbType, Live, UserStoryRows
  <2>4. db'.task = db.task /\ db'.issue = db.issue /\ db'.milestone = db.milestone
    BY <2>1 DEF KeysInv, TypeOK, DbType
  <2>5. SameKeys(db, db')
    BY <2>3, <2>4 DEF SameKeys
  <2> QED BY <2>5, SameKeysKeep DEF KeysInv, KeysStay
<1>2. CASE BulkUpdateBacklogOrder(S)
  BY <1>2, WithMilestoneKeys DEF BulkUpdateBacklogOrder
<1>3. CASE BulkUpdateMilestone(S)
  BY <1>3, WithMilestoneKeys DEF BulkUpdateMilestone, MilestoneKeys
<1> QED BY <1>1, <1>2, <1>3

LEMMA JobActionsKeys ==
  ASSUME KeysInv,
         \/ \E s \in UserStories : RunKanbanJob(s)
         \/ \E m \in Milestones : RunBacklogJob(m)
  PROVE  KeysStay
<1>1. SameKeys(db, db')
  BY RecalculateUserstoryKeys, RecalculateMilestoneKeys DEF RunKanbanJob, RunBacklogJob, KeysInv, TypeOK
<1> QED BY <1>1, SameKeysKeep DEF KeysInv, KeysStay

LEMMA NextKeys ==
  ASSUME KeysInv, [Next]_vars
  PROVE  KeysInv' /\ MovesAlone
<1>1. CASE \E t \in Tasks : MoveTaskToSprint(t) \/ BulkUpdateMilestoneOfTask(t)
  BY <1>1, MovedTaskActionsKeys, NextType DEF KeysInv
<1>2. CASE UNCHANGED vars
  BY <1>2, NextType DEF vars, KeysInv, MovesAlone
<1>3. CASE Next /\ ~ \E t \in Tasks : MoveTaskToSprint(t) \/ BulkUpdateMilestoneOfTask(t)
  <2>1. KeysStay
    BY <1>3, MilestoneActionsKeys, UserstoryActionsKeys, TaskActionsKeys, IssueActionsKeys,
       StatusActionsKeys, BulkActionsKeys, JobActionsKeys DEF Next, Request
  <2> QED BY <2>1, NextType, StayIsAlone DEF KeysInv, KeysStay
<1> QED BY <1>1, <1>2, <1>3

-----------------------------------------------------------------------------
(***************************************************************************)
(* The theorems.                                                           *)
(***************************************************************************)
LEMMA InitKeys == Init => KeysInv
<1> SUFFICES ASSUME Init PROVE KeysInv
  OBVIOUS
<1>1. Live(db.us) = {} /\ Live(db.issue) = {} /\ Live(db.task) = {}
  BY DEF Init, Live
<1> QED BY <1>1, InitType DEF KeysInv, KeysOK

\* No story, task or issue refers to a sprint or a story that is gone, for any number of
\* them and whichever endpoints are used: deletions clear or remove what refers to them, the
\* handlers only copy the key of a story to its tasks.
THEOREM KeysHold == Spec => []NoDanglingReferences
<1>1. KeysInv => NoDanglingReferences
  BY KeysOfDb DEF KeysInv
<1>2. KeysInv /\ [Next]_vars => KeysInv'
  BY NextKeys
<1> QED BY <1>1, <1>2, InitKeys, PTL DEF Spec

\* A task comes to be outside the sprint of its story only by a step that moves this one task
\* and saves no story, for any number of items and sprints and whichever endpoints are used:
\* what writes the sprint of a story puts its tasks there too, and so does every save of a
\* story that the handlers of a moved task make.
THEOREM TasksFollow == Spec => TaskFollowsStory
<1>1. KeysInv /\ [Next]_vars => KeysInv' /\ [MovesAlone]_vars
  BY NextKeys
<1>2. [MovesAlone]_vars <=>
        [\A t \in Apart(db') \ Apart(db) :
           /\ db'.us = db.us
           /\ db'.task = [db.task EXCEPT ![t].milestone = db'.task[t].milestone]]_vars
  BY DEF MovesAlone
<1> QED BY <1>1, <1>2, InitKeys, PTL DEF Spec, TaskFollowsStory

-----------------------------------------------------------------------------
(***************************************************************************)
(* What the calculation of a sprint reads, and when its flag is right.     *)
(***************************************************************************)
\* The flag of sprint m says nothing that its items in tables d contradict.
OnlyDone(d, m) == m \in Live(d.milestone) /\ d.milestone[m].closed => AllClosed(d, m)

Right(d, m) ==
  /\ OnlyDone(d, m)
  /\ m \in Live(d.milestone) /\ CalculateMilestoneIsClosed(d, m) => d.milestone[m].closed

\* The calculation of sprint m reads the same items, with the same verdict each, in d and e.
SameItems(d, e, m) ==
  /\ UserStoriesOf(e, m) = UserStoriesOf(d, m)
  /\ LooseTasksOf(e, m) = LooseTasksOf(d, m)
  /\ IssuesOf(e, m) = IssuesOf(d, m)
  /\ \A s \in UserStoriesOf(d, m) : e.us[s].is_closed = d.us[s].is_closed
  /\ \A t \in LooseTasksOf(d, m) :
       e.task[t].status \in e.closed_statuses <=> d.task[t].status \in d.closed_statuses
  /\ \A i \in IssuesOf(d, m) :
       e.issue[i].status \in e.closed_statuses <=> d.issue[i].status \in d.closed_statuses

\* Nothing about sprint m changes from d to e.
SameSprint(d, e, m) ==
  /\ SameItems(d, e, m)
  /\ m \in Live(e.milestone) <=> m \in Live(d.milestone)
  /\ m \in Live(d.milestone) => e.milestone[m].closed = d.milestone[m].closed

\* From d to e the flags of the sprints in M are put right, and no other goes wrong.
Settles(d, e, M) ==
  /\ Live(e.milestone) = Live(d.milestone)
  /\ \A m \in Live(d.milestone) : m \in M \/ Right(d, m) => Right(e, m)

LEMMA SameItemsVerdict ==
  ASSUME NEW d, NEW e, NEW m, SameItems(d, e, m)
  PROVE  /\ AllClosed(e, m) <=> AllClosed(d, m)
         /\ HasItems(e, m) <=> HasItems(d, m)
         /\ CalculateMilestoneIsClosed(e, m) <=> CalculateMilestoneIsClosed(d, m)
<1>1. AllClosed(e, m) <=> AllClosed(d, m)
  BY DEF SameItems, AllClosed
<1>2. HasItems(e, m) <=> HasItems(d, m)
  BY DEF SameItems, HasItems
<1> QED BY <1>1, <1>2 DEF CalculateMilestoneIsClosed

LEMMA SameSprintRight ==
  ASSUME NEW d, NEW e, NEW m, SameSprint(d, e, m)
  PROVE  (Right(d, m) => Right(e, m)) /\ (OnlyDone(d, m) => OnlyDone(e, m))
BY SameItemsVerdict DEF SameSprint, Right, OnlyDone

LEMMA SameItemsTwice ==
  ASSUME NEW d, NEW e, NEW f, NEW m, SameItems(d, e, m), SameItems(e, f, m)
  PROVE  SameItems(d, f, m)
BY DEF SameItems

LEMMA SettlesTwice ==
  ASSUME NEW d, NEW e, NEW f, NEW M, NEW N, Settles(d, e, M), Settles(e, f, N)
  PROVE  Settles(d, f, M \cup N)
BY DEF Settles

LEMMA SameSprintsSettle ==
  ASSUME NEW d, NEW e, NEW M, Live(e.milestone) = Live(d.milestone),
         \A m \in Live(d.milestone) : SameSprint(d, e, m) \/ Right(e, m),
         \A m \in M \cap Live(d.milestone) : Right(e, m)
  PROVE  Settles(d, e, M)
BY SameSprintRight DEF Settles

(***************************************************************************)
(* What the handlers do to the flags.                                      *)
(***************************************************************************)
\* Tables that keep the keys of all items and the status of tasks and issues give a sprint
\* the same items; its stories are the only ones whose verdict may differ.
LEMMA KeysGiveItems ==
  ASSUME NEW d \in DbType, NEW e, SameKeys(d, e), e.issue = d.issue,
         e.closed_statuses = d.closed_statuses,
         \A t \in Live(d.task) : e.task[t].status = d.task[t].status,
         NEW m, \A s \in UserStoriesOf(d, m) : e.us[s].is_closed = d.us[s].is_closed
  PROVE  SameItems(d, e, m)
<1>1. Null \notin Live(d.us)
  BY LiveRows, NullAssumption
<1>2. UserStoriesOf(e, m) = UserStoriesOf(d, m)
  BY DEF SameKeys, UserStoriesOf
<1>3. LooseTasksOf(e, m) = LooseTasksOf(d, m)
  BY <1>1 DEF SameKeys, LooseTasksOf, TasksOf
<1>4. LooseTasksOf(d, m) \subseteq Live(d.task)
  BY DEF LooseTasksOf, TasksOf
<1> QED BY <1>2, <1>3, <1>4 DEF SameItems, IssuesOf

\* A write to the flag of a sprint changes the items of none.
LEMMA WrittenFlag ==
  ASSUME NEW d \in DbType, NEW m \in Live(d.milestone), NEW closed \in BOOLEAN
  PROVE  LET e == [d EXCEPT !.milestone[m].closed = closed]
         IN /\ Live(e.milestone) = Live(d.milestone)
            /\ e.milestone[m].closed = closed
            /\ \A x \in Live(d.milestone) : SameItems(d, e, x)
            /\ \A x \in Live(d.milestone) \ {m} : SameSprint(d, e, x)
<1> DEFINE row == [d.milestone[m] EXCEPT !.closed = closed]
           e == [d EXCEPT !.milestone[m].closed = closed]
<1>1. row \in MilestoneRows /\ row.closed = closed
  BY LiveRows DEF MilestoneRows
<1>2. /\ e.us = d.us /\ e.task = d.task /\ e.issue = d.issue
      /\ e.closed_statuses = d.closed_statuses
      /\ e.milestone = [d.milestone EXCEPT ![m] = row]
  BY DEF DbType
<1> HIDE DEF e, row
<1>3. /\ Live(e.milestone) = Live(d.milestone)
      /\ e.milestone[m] = row
      /\ \A x \in Live(d.milestone) \ {m} : e.milestone[x] = d.milestone[x]
  BY <1>1, <1>2, AbsentAssumption DEF Live
<1>4. \A x : SameItems(d, e, x)
  BY <1>2 DEF SameItems, UserStoriesOf, LooseTasksOf, TasksOf, IssuesOf
<1>5. \A x \in Live(d.milestone) \ {m} : SameSprint(d, e, x)
  BY <1>3, <1>4 DEF SameSprint
<1> QED BY <1>1, <1>3, <1>4, <1>5 DEF e

LEMMA RecalculateMilestoneSettles ==
  ASSUME NEW d \in DbType, NEW m
  PROVE  Settles(d, RecalculateMilestone(d, m), {m})
<1>1. CASE m \notin Live(d.milestone)
  BY <1>1 DEF RecalculateMilestone, Settles
<1>2. CASE m \in Live(d.milestone)
  <2> DEFINE closed == CalculateMilestoneIsClosed(d, m)
             e == [d EXCEPT !.milestone[m].closed = closed]
  <2>1. RecalculateMilestone(d, m) = e
    BY <1>2 DEF RecalculateMilestone
  <2>2. closed \in BOOLEAN
    BY VerdictIsBoolean
  <2> HIDE DEF closed
  <2>3. /\ Live(e.milestone) = Live(d.milestone)
        /\ e.milestone[m].closed = closed
        /\ SameItems(d, e, m)
        /\ \A x \in Live(d.milestone) \ {m} : SameSprint(d, e, x)
    BY <1>2, <2>2, WrittenFlag
  <2> HIDE DEF e
  <2>4. Right(e, m)
    BY <2>3, SameItemsVerdict DEF Right, OnlyDone, closed, CalculateMilestoneIsClosed
  <2> QED BY <2>1, <2>3, <2>4, SameSprintsSettle
<1> QED BY <1>1, <1>2

\* After a delete it suffices that the flag did not claim too much.
LEMMA CloseMilestoneIfCompleteSettles ==
  ASSUME NEW d \in DbType, NEW m, OnlyDone(d, m)
  PROVE  Settles(d, CloseMilestoneIfComplete(d, m), {m})
<1>1. CASE ~ (m \in Live(d.milestone) /\ CalculateMilestoneIsClosed(d, m))
  <2>1. CloseMilestoneIfComplete(d, m) = d
    BY <1>1 DEF CloseMilestoneIfComplete
  <2>2. Right(d, m)
    BY <1>1 DEF Right
  <2> QED BY <2>1, <2>2 DEF Settles
<1>2. CASE m \in Live(d.milestone) /\ CalculateMilestoneIsClosed(d, m)
  <2> DEFINE e == [d EXCEPT !.milestone[m].closed = TRUE]
  <2>1. CloseMilestoneIfComplete(d, m) = e
    BY <1>2 DEF CloseMilestoneIfComplete
  <2>2. /\ Live(e.milestone) = Live(d.milestone)
        /\ e.milestone[m].closed
        /\ SameItems(d, e, m)
        /\ \A x \in Live(d.milestone) \ {m} : SameSprint(d, e, x)
    BY <1>2, WrittenFlag
  <2> HIDE DEF e
  <2>3. Right(e, m)
    BY <1>2, <2>2, SameItemsVerdict DEF Right, OnlyDone, CalculateMilestoneIsClosed
  <2> QED BY <2>1, <2>2, <2>3, SameSprintsSettle
<1> QED BY <1>1, <1>2

LEMMA CloseMilestoneIfCompleteKeeps ==
  ASSUME NEW d \in DbType, NEW m, NEW x, Right(d, x)
  PROVE  Right(CloseMilestoneIfComplete(d, m), x)
<1>1. CASE x # m
  <2>1. CASE m \in Live(d.milestone) /\ CalculateMilestoneIsClosed(d, m)
    <3> DEFINE e == [d EXCEPT !.milestone[m].closed = TRUE]
    <3>1. CloseMilestoneIfComplete(d, m) = e
      BY <2>1 DEF CloseMilestoneIfComplete
    <3>2. Live(e.milestone) = Live(d.milestone) /\ \A y \in Live(d.milestone) \ {m} : SameSprint(d, e, y)
      BY <2>1, WrittenFlag
    <3> HIDE DEF e
    <3> QED BY <1>1, <3>1, <3>2, SameSprintRight DEF Right, OnlyDone
  <2> QED BY <2>1 DEF CloseMilestoneIfComplete
<1>2. CASE x = m
  <2>1. OnlyDone(d, m)
    BY <1>2 DEF Right
  <2>2. Settles(d, CloseMilestoneIfComplete(d, m), {m})
    BY <2>1, CloseMilestoneIfCompleteSettles
  <2> QED BY <1>2, <2>2 DEF Settles, Right, OnlyDone
<1> QED BY <1>1, <1>2

LEMMA RecalculateUserstoriesSettles ==
  ASSUME NEW d \in DbType, NEW S \in SUBSET Live(d.us)
  PROVE  Settles(d, RecalculateUserstories(d, S), {})
<1> DEFINE C == {s \in S : d.us[s].is_closed # CalculateUserstoryIsClosed(d, s)}
           M == {d.us[s].milestone : s \in C}
           T == UNION {TasksOf(d, s) : s \in C}
           us1 == [s \in DOMAIN d.us |->
             IF s \in C THEN [d.us[s] EXCEPT !.is_closed = CalculateUserstoryIsClosed(d, s)]
             ELSE d.us[s]]
           task1 == PutIn(d, T)
           e == [d EXCEPT !.us = us1, !.task = task1]
           milestone1 == [m \in DOMAIN d.milestone |->
             IF m \in M \cap Live(d.milestone) THEN [closed |-> CalculateMilestoneIsClosed(e, m)]
             ELSE d.milestone[m]]
           f == [e EXCEPT !.milestone = milestone1]
<1>1. RecalculateUserstories(d, S) = f
  BY DEF RecalculateUserstories, PutIn
<1>2. SameKeys(d, f)
  BY <1>1, RecalculateUserstoriesKeys
<1>3. T \subseteq Live(d.task) /\ \A t \in T : d.task[t].user_story \in Live(d.us)
  BY DEF TasksOf
<1>4. \A s \in DOMAIN d.us : s \notin C => us1[s] = d.us[s]
  OBVIOUS
<1>5. \A s \in C : s \in S /\ d.us[s].milestone \in M
  OBVIOUS
<1>6. \A m \in DOMAIN d.milestone :
        milestone1[m] = IF m \in M \cap Live(d.milestone)
                        THEN [closed |-> CalculateMilestoneIsClosed(e, m)] ELSE d.milestone[m]
  OBVIOUS
<1>7. /\ f.us = us1 /\ f.task = task1 /\ f.issue = d.issue /\ f.milestone = milestone1
      /\ f.closed_statuses = d.closed_statuses
      /\ e.us = us1 /\ e.task = task1 /\ e.issue = d.issue /\ e.closed_statuses = d.closed_statuses
  BY DEF DbType
<1> HIDE DEF C, M, T, us1, e, f, milestone1
<1>8. \A t \in Live(d.task) : task1[t].status = d.task[t].status
  <2>1. ASSUME NEW t \in T
        PROVE  [d.task[t] EXCEPT !.milestone = d.us[d.task[t].user_story].milestone].status
                 = d.task[t].status
    BY <1>3, LiveRows DEF TaskRows
  <2> QED BY <2>1 DEF PutIn, Live
<1> HIDE DEF task1
<1>9. ASSUME NEW m \in Live(d.milestone) \ M PROVE SameSprint(d, f, m)
  <2>1. \A s \in UserStoriesOf(d, m) : f.us[s].is_closed = d.us[s].is_closed
    BY <1>4, <1>5, <1>7 DEF UserStoriesOf, Live
  <2>2. SameItems(d, f, m)
    BY <1>2, <1>7, <1>8, <2>1, KeysGiveItems
  <2>3. f.milestone[m] = d.milestone[m]
    BY <1>6, <1>7 DEF Live
  <2> QED BY <1>2, <2>2, <2>3 DEF SameSprint, SameKeys
<1>10. ASSUME NEW m \in M \cap Live(d.milestone) PROVE Right(f, m)
  <2>1. SameItems(e, f, m)
    BY <1>7 DEF SameItems, UserStoriesOf, LooseTasksOf, TasksOf, IssuesOf
  <2>2. f.milestone[m] = [closed |-> CalculateMilestoneIsClosed(e, m)]
    BY <1>6, <1>7 DEF Live
  <2>3. f.milestone[m].closed = CalculateMilestoneIsClosed(e, m)
    BY <2>2, VerdictIsBoolean
  <2> QED BY <2>1, <2>3, SameItemsVerdict DEF Right, OnlyDone, CalculateMilestoneIsClosed
<1>11. Settles(d, f, {})
  BY <1>2, <1>9, <1>10, SameSprintsSettle DEF SameKeys
<1> QED BY <1>1, <1>11

LEMMA RecalculateUserstorySettles ==
  ASSUME NEW d \in DbType, NEW s
  PROVE  Settles(d, RecalculateUserstory(d, s), {})
BY RecalculateUserstoriesSettles DEF RecalculateUserstory, Settles

\* After the save of a story the flag of its sprint is right; that of the sprint it came
\* from too, unless the save closes or opens the story.
LEMMA AfterSaveUserstorySettles ==
  ASSUME NEW d \in DbType, NEW s \in Live(d.us), NEW prev
  PROVE  /\ Settles(d, AfterSaveUserstory(d, s, prev), {d.us[s].milestone})
         /\ Truthful(d, s) => Settles(d, AfterSaveUserstory(d, s, prev), {d.us[s].milestone, prev})
<1> DEFINE d1 == UpdateMilestoneOfTasks(d, s)
           d2 == RecalculateIsClosed(d1, s)
           d3 == RecalculateMilestone(d2, d.us[s].milestone)
           d4 == RecalculateMilestone(d3, prev)
           to == d.us[s].milestone
<1>1. AfterSaveUserstory(d, s, prev) = IF d2.us[s].is_closed # d.us[s].is_closed THEN d3 ELSE d4
  BY DEF AfterSaveUserstory
<1>2. /\ d1 \in DbType /\ s \in Live(d1.us) /\ SameKeys(d, d1) /\ Recalculated(d, d1, {})
      /\ d1.us = d.us /\ d1.issue = d.issue /\ d1.milestone = d.milestone
      /\ d1.closed_statuses = d.closed_statuses
  BY UpdateMilestoneOfTasksType, UpdateMilestoneOfTasksKeys, TasksUpdateRecalculated
     DEF UpdateMilestoneOfTasks, DbType
<1>3. \A t \in Live(d.task) : d1.task[t].status = d.task[t].status
  <2>1. ASSUME NEW t \in TasksOf(d, s)
        PROVE  [d.task[t] EXCEPT !.milestone = d.us[s].milestone].status = d.task[t].status
    BY LiveRows DEF TaskRows, TasksOf
  <2>2. d1.task = [t \in DOMAIN d.task |->
                     IF t \in TasksOf(d, s) THEN [d.task[t] EXCEPT !.milestone = d.us[s].milestone]
                     ELSE d.task[t]]
    BY DEF UpdateMilestoneOfTasks, DbType
  <2> HIDE DEF d1
  <2> QED BY <2>1, <2>2 DEF Live
<1> HIDE DEF d1
<1>4. \A m : SameItems(d, d1, m)
  BY <1>2, <1>3, KeysGiveItems
<1>5. /\ d2 \in DbType /\ SameKeys(d1, d2)
      /\ d2.task = d1.task /\ d2.issue = d1.issue /\ d2.milestone = d1.milestone
      /\ d2.closed_statuses = d1.closed_statuses
      /\ \A x \in Live(d1.us) \ {s} : d2.us[x] = d1.us[x]
      /\ d2.us[s].is_closed = CalculateUserstoryIsClosed(d1, s)
  <2>1. d2 \in DbType /\ SameKeys(d1, d2)
    BY <1>2, RecalculateIsClosedType, RecalculateIsClosedKeys
  <2>2. /\ d2.us = [d1.us EXCEPT ![s] = [d1.us[s] EXCEPT !.is_closed = CalculateUserstoryIsClosed(d1, s)]]
        /\ d2.task = d1.task /\ d2.issue = d1.issue /\ d2.milestone = d1.milestone
        /\ d2.closed_statuses = d1.closed_statuses
    BY <1>2 DEF RecalculateIsClosed, DbType
  <2> HIDE DEF d2
  <2>3. \A x \in Live(d1.us) \ {s} : d2.us[x] = d1.us[x]
    BY <2>2 DEF Live
  <2>4. d2.us[s].is_closed = CalculateUserstoryIsClosed(d1, s)
    BY <1>2, <2>2, LiveRows DEF UserStoryRows, Live
  <2> QED BY <2>1, <2>2, <2>3, <2>4
<1> HIDE DEF d2
<1>6. ASSUME NEW m \in Live(d.milestone) \ {to} PROVE SameSprint(d, d2, m)
  <2>1. s \notin UserStoriesOf(d1, m)
    BY <1>2 DEF UserStoriesOf
  <2>2. \A x \in UserStoriesOf(d1, m) : d2.us[x].is_closed = d1.us[x].is_closed
    BY <1>5, <2>1 DEF UserStoriesOf
  <2>3. SameItems(d1, d2, m)
    BY <1>2, <1>5, <2>2, KeysGiveItems
  <2>4. SameItems(d, d2, m)
    BY <1>4, <2>3, SameItemsTwice
  <2> QED BY <1>2, <1>5, <2>4 DEF SameSprint
<1>7. d3 \in DbType /\ Settles(d2, d3, {to})
  BY <1>5, RecalculateMilestoneType, RecalculateMilestoneSettles
<1> HIDE DEF d3
<1>8. Settles(d3, d4, {prev})
  BY <1>7, RecalculateMilestoneSettles
<1>9. Live(d2.milestone) = Live(d.milestone)
  BY <1>2, <1>5
<1> HIDE DEF d4, to
<1>10. Settles(d, d3, {to})
  BY <1>6, <1>7, <1>9, SameSprintRight DEF Settles
<1>11. Settles(d, d4, {to, prev})
  <2>1. Settles(d, d4, {to} \cup {prev})
    BY <1>8, <1>10, SettlesTwice
  <2>2. {to} \cup {prev} = {to, prev}
    OBVIOUS
  <2> QED BY <2>1, <2>2
<1>12. Truthful(d, s) => d2.us[s].is_closed = d.us[s].is_closed
  <2>1. CalculateUserstoryIsClosed(d1, s) <=> CalculateUserstoryIsClosed(d, s)
    BY <1>2, SameVerdict DEF Recalculated
  <2>2. CalculateUserstoryIsClosed(d1, s) = CalculateUserstoryIsClosed(d, s)
    BY <2>1, VerdictIsBoolean
  <2> QED BY <1>5, <2>2 DEF Truthful
<1>13. Settles(d, d4, {to})
  BY <1>11 DEF Settles
<1>14. CASE d2.us[s].is_closed # d.us[s].is_closed
  BY <1>1, <1>10, <1>12, <1>14 DEF to
<1>15. CASE d2.us[s].is_closed = d.us[s].is_closed
  BY <1>1, <1>11, <1>13, <1>15 DEF to
<1> QED BY <1>14, <1>15

LEMMA AfterSaveTaskSettles ==
  ASSUME NEW d \in DbType, NEW t, NEW us, NEW m
  PROVE  Settles(d, AfterSaveTask(d, t, us, m), {d.task[t].milestone, m})
<1> DEFINE d1 == RecalculateUserstory(d, d.task[t].user_story)
           d2 == RecalculateUserstory(d1, us)
           d3 == RecalculateMilestone(d2, d.task[t].milestone)
           d4 == RecalculateMilestone(d3, m)
<1>1. AfterSaveTask(d, t, us, m) = d4
  BY DEF AfterSaveTask
<1>2. d1 \in DbType /\ Settles(d, d1, {})
  BY RecalculateUserstoryType, RecalculateUserstorySettles
<1> HIDE DEF d1
<1>3. d2 \in DbType /\ Settles(d1, d2, {})
  BY <1>2, RecalculateUserstoryType, RecalculateUserstorySettles
<1> HIDE DEF d2
<1>4. d3 \in DbType /\ Settles(d2, d3, {d.task[t].milestone})
  BY <1>3, RecalculateMilestoneType, RecalculateMilestoneSettles
<1> HIDE DEF d3
<1>5. Settles(d3, d4, {m})
  BY <1>4, RecalculateMilestoneSettles
<1> HIDE DEF d4
<1>6. Settles(d, d2, {} \cup {})
  BY <1>2, <1>3, SettlesTwice
<1>7. Settles(d, d3, ({} \cup {}) \cup {d.task[t].milestone})
  BY <1>4, <1>6, SettlesTwice
<1>8. Settles(d, d4, (({} \cup {}) \cup {d.task[t].milestone}) \cup {m})
  BY <1>5, <1>7, SettlesTwice
<1>9. (({} \cup {}) \cup {d.task[t].milestone}) \cup {m} = {d.task[t].milestone, m}
  OBVIOUS
<1> QED BY <1>1, <1>8, <1>9

LEMMA AfterSaveIssueSettles ==
  ASSUME NEW d \in DbType, NEW i, NEW m
  PROVE  Settles(d, AfterSaveIssue(d, i, m), {d.issue[i].milestone, m})
<1> DEFINE d1 == RecalculateMilestone(d, d.issue[i].milestone)
           d2 == RecalculateMilestone(d1, m)
<1>1. d1 \in DbType /\ Settles(d, d1, {d.issue[i].milestone})
  BY RecalculateMilestoneType, RecalculateMilestoneSettles
<1> HIDE DEF d1
<1>2. Settles(d1, d2, {m})
  BY <1>1, RecalculateMilestoneSettles
<1>3. Settles(d, d2, {d.issue[i].milestone} \cup {m})
  BY <1>1, <1>2, SettlesTwice
<1>4. {d.issue[i].milestone} \cup {m} = {d.issue[i].milestone, m}
  OBVIOUS
<1> QED BY <1>3, <1>4 DEF AfterSaveIssue, d1

LEMMA AfterDeleteTaskSettles ==
  ASSUME NEW d \in DbType, NEW row,
         \/ Right(d, row.milestone)
         \/ row.user_story = Null /\ OnlyDone(d, row.milestone)
  PROVE  Settles(d, AfterDeleteTask(d, row), {row.milestone})
<1> DEFINE d1 == RecalculateUserstory(d, row.user_story)
           d2 == CloseMilestoneIfComplete(d1, row.milestone)
<1>1. d1 \in DbType /\ Settles(d, d1, {})
  BY RecalculateUserstoryType, RecalculateUserstorySettles
<1>2. row.user_story = Null => d1 = d
  BY LiveRows, NullAssumption DEF RecalculateUserstory
<1> HIDE DEF d1
<1>3. OnlyDone(d1, row.milestone)
  BY <1>1, <1>2 DEF Settles, Right, OnlyDone
<1>4. Settles(d1, d2, {row.milestone})
  BY <1>1, <1>3, CloseMilestoneIfCompleteSettles
<1>5. Settles(d, d2, {} \cup {row.milestone})
  BY <1>1, <1>4, SettlesTwice
<1> QED BY <1>5 DEF AfterDeleteTask, d1

-----------------------------------------------------------------------------
(***************************************************************************)
(* The actions.                                                            *)
(***************************************************************************)
\* The flag of every sprint is right, or a job will recalculate it.
FlagsRight == \A m \in Live(db.milestone) : Right(db, m) \/ m \in jobs.backlog

LEMMA FlagsRightMeans == FlagsRight <=> ClosedSprintIsDone /\ DoneSprintIsClosed
BY DEF FlagsRight, ClosedSprintIsDone, DoneSprintIsClosed, Right, OnlyDone

\* A step keeps the flags right when it edits rows to d and its handlers settle every sprint
\* whose items the edit touched, or leave it to a job.
LEMMA SettlingStep ==
  ASSUME FlagsRight, NEW d, NEW M, Settles(d, db', M),
         jobs.backlog \ M \subseteq jobs'.backlog,
         \A m \in Live(d.milestone) :
           \/ m \in M \/ m \in jobs'.backlog
           \/ m \in Live(db.milestone) /\ SameSprint(db, d, m)
  PROVE  FlagsRight'
<1> SUFFICES ASSUME NEW m \in Live(db'.milestone), m \notin jobs'.backlog
             PROVE  Right(db', m)
  BY DEF FlagsRight
<1>1. m \in Live(d.milestone)
  BY DEF Settles
<1>2. CASE m \in M
  BY <1>1, <1>2 DEF Settles
<1>3. CASE m \notin M
  <2>1. m \in Live(db.milestone) /\ SameSprint(db, d, m) /\ m \notin jobs.backlog
    BY <1>1, <1>3
  <2>2. Right(d, m)
    BY <2>1, SameSprintRight DEF FlagsRight
  <2> QED BY <1>1, <2>2 DEF Settles
<1> QED BY <1>2, <1>3

LEMMA NothingSettled == ASSUME NEW d PROVE Settles(d, d, {})
BY DEF Settles

LEMMA MilestoneActionsFlags ==
  ASSUME KeysInv, FlagsRight, NEW m \in Milestones, CreateMilestone(m) \/ DeleteMilestone(m)
  PROVE  FlagsRight'
<1> Null \notin Milestones
  BY NullAssumption
<1>1. CASE CreateMilestone(m)
  <2>1. /\ db'.us = db.us /\ db'.task = db.task /\ db'.issue = db.issue
        /\ db'.closed_statuses = db.closed_statuses
        /\ db'.milestone = [db.milestone EXCEPT ![m] = [closed |-> FALSE]]
        /\ m \notin Live(db.milestone) /\ UNCHANGED jobs
        /\ m \in DOMAIN db.milestone
    BY <1>1 DEF CreateMilestone, KeysInv, TypeOK, DbType, Live
  <2> DEFINE row == [closed |-> FALSE]
  <2>2. row \in MilestoneRows /\ row.closed = FALSE
    BY DEF MilestoneRows
  <2> HIDE DEF row
  <2>3. /\ Live(db'.milestone) = Live(db.milestone) \cup {m}
        /\ ~ db'.milestone[m].closed
        /\ \A x \in Live(db.milestone) : db'.milestone[x] = db.milestone[x]
    <3>1. db'.milestone = [db.milestone EXCEPT ![m] = row]
      BY <2>1 DEF row
    <3> QED BY <2>1, <2>2, <3>1, AbsentAssumption DEF Live
  <2>4. \A x : SameItems(db, db', x)
    BY <2>1 DEF SameItems, UserStoriesOf, LooseTasksOf, TasksOf, IssuesOf
  <2>5. ~ HasItems(db, m)
    BY <2>1 DEF HasItems, UserStoriesOf, LooseTasksOf, TasksOf, IssuesOf, KeysInv, KeysOK, KeysOf
  <2>6. Right(db', m)
    BY <2>3, <2>4, <2>5, SameItemsVerdict DEF Right, OnlyDone, CalculateMilestoneIsClosed
  <2>7. \A x \in Live(db.milestone) : SameSprint(db, db', x)
    BY <2>3, <2>4 DEF SameSprint
  <2> QED BY <2>1, <2>3, <2>6, <2>7, SameSprintRight DEF FlagsRight
<1>2. CASE DeleteMilestone(m)
  <2>1. /\ db'.us = [s \in UserStories |->
             IF s \in UserStoriesOf(db, m) THEN [db.us[s] EXCEPT !.milestone = Null]
             ELSE db.us[s]]
        /\ db'.task = [t \in Tasks |->
             IF t \in Live(db.task) /\ db.task[t].milestone = m
             THEN [db.task[t] EXCEPT !.milestone = Null] ELSE db.task[t]]
        /\ db'.issue = [i \in Issues |->
             IF i \in IssuesOf(db, m) THEN [db.issue[i] EXCEPT !.milestone = Null]
             ELSE db.issue[i]]
        /\ db'.milestone = [db.milestone EXCEPT ![m] = Absent]
        /\ db'.closed_statuses = db.closed_statuses
        /\ UNCHANGED jobs
    BY <1>2 DEF DeleteMilestone, KeysInv, TypeOK, DbType
  <2>2. /\ Live(db'.milestone) = Live(db.milestone) \ {m}
        /\ \A x \in Live(db.milestone) \ {m} : db'.milestone[x] = db.milestone[x]
    BY <2>1 DEF Live, KeysInv, TypeOK, DbType
  <2>3. ASSUME NEW s \in UserStories
        PROVE  \/ db'.us[s] = db.us[s]
               \/ /\ db.us[s] # Absent /\ db.us[s].milestone = m
                  /\ db'.us[s] # Absent /\ db'.us[s].milestone = Null
    <3>1. CASE s \in UserStoriesOf(db, m)
      <4>1. db.us[s] \in UserStoryRows
        BY <3>1, LiveRows DEF UserStoriesOf, KeysInv, TypeOK
      <4>2. /\ [db.us[s] EXCEPT !.milestone = Null] \in UserStoryRows
            /\ [db.us[s] EXCEPT !.milestone = Null].milestone = Null
        BY <4>1 DEF UserStoryRows
      <4> QED BY <2>1, <3>1, <4>2, AbsentAssumption DEF UserStoriesOf, Live
    <3>2. CASE s \notin UserStoriesOf(db, m)
      BY <2>1, <3>2
    <3> QED BY <3>1, <3>2
  <2>4. ASSUME NEW t \in Tasks
        PROVE  \/ db'.task[t] = db.task[t]
               \/ /\ db.task[t] # Absent /\ db.task[t].milestone = m
                  /\ db'.task[t] # Absent /\ db'.task[t].milestone = Null
    <3>1. CASE t \in Live(db.task) /\ db.task[t].milestone = m
      <4>1. db.task[t] \in TaskRows
        BY <3>1, LiveRows DEF KeysInv, TypeOK
      <4>2. /\ [db.task[t] EXCEPT !.milestone = Null] \in TaskRows
            /\ [db.task[t] EXCEPT !.milestone = Null].milestone = Null
        BY <4>1 DEF TaskRows
      <4> QED BY <2>1, <3>1, <4>2, AbsentAssumption DEF Live
    <3>2. CASE ~ (t \in Live(db.task) /\ db.task[t].milestone = m)
      BY <2>1, <3>2
    <3> QED BY <3>1, <3>2
  <2>5. ASSUME NEW i \in Issues
        PROVE  \/ db'.issue[i] = db.issue[i]
               \/ /\ db.issue[i] # Absent /\ db.issue[i].milestone = m
                  /\ db'.issue[i] # Absent /\ db'.issue[i].milestone = Null
    <3>1. CASE i \in IssuesOf(db, m)
      <4>1. db.issue[i] \in IssueRows
        BY <3>1, LiveRows DEF IssuesOf, KeysInv, TypeOK
      <4>2. /\ [db.issue[i] EXCEPT !.milestone = Null] \in IssueRows
            /\ [db.issue[i] EXCEPT !.milestone = Null].milestone = Null
        BY <4>1 DEF IssueRows
      <4> QED BY <2>1, <3>1, <4>2, AbsentAssumption DEF IssuesOf, Live
    <3>2. CASE i \notin IssuesOf(db, m)
      BY <2>1, <3>2
    <3> QED BY <3>1, <3>2
  <2>6. /\ DOMAIN db.us = UserStories /\ DOMAIN db'.us = UserStories
        /\ DOMAIN db.task = Tasks /\ DOMAIN db'.task = Tasks
        /\ DOMAIN db.issue = Issues /\ DOMAIN db'.issue = Issues
    BY <2>1 DEF KeysInv, TypeOK, DbType
  <2>7. ASSUME NEW x \in Live(db.milestone) \ {m} PROVE SameItems(db, db', x)
    <3>1. x # Null /\ x # m
      BY LiveRows DEF KeysInv, TypeOK
    <3>2. /\ UserStoriesOf(db', x) = UserStoriesOf(db, x)
          /\ \A s \in UserStoriesOf(db, x) : db'.us[s] = db.us[s]
      BY <2>3, <2>6, <3>1 DEF UserStoriesOf, Live
    <3>3. /\ LooseTasksOf(db', x) = LooseTasksOf(db, x)
          /\ \A t \in LooseTasksOf(db, x) : db'.task[t] = db.task[t]
      BY <2>4, <2>6, <3>1 DEF LooseTasksOf, TasksOf, Live
    <3>4. /\ IssuesOf(db', x) = IssuesOf(db, x)
          /\ \A i \in IssuesOf(db, x) : db'.issue[i] = db.issue[i]
      BY <2>5, <2>6, <3>1 DEF IssuesOf, Live
    <3> QED BY <2>1, <3>2, <3>3, <3>4 DEF SameItems
  <2>8. \A x \in Live(db'.milestone) : SameSprint(db, db', x)
    BY <2>2, <2>7 DEF SameSprint
  <2> QED BY <2>1, <2>2, <2>8, SameSprintRight DEF FlagsRight
<1> QED BY <1>1, <1>2

\* A story whose row is written concerns the sprint it is in and the one it was in.
LEMMA WrittenUserstorySprints ==
  ASSUME TypeOK, NEW s \in UserStories, NEW row \in UserStoryRows, NEW d,
         d = [db EXCEPT !.us[s] = row], NEW m, row.milestone # m,
         s \in Live(db.us) => db.us[s].milestone # m
  PROVE  SameSprint(db, d, m)
<1>1. /\ d.us = [db.us EXCEPT ![s] = row] /\ s \in DOMAIN db.us
      /\ d.task = db.task /\ d.issue = db.issue /\ d.milestone = db.milestone
      /\ d.closed_statuses = db.closed_statuses
  BY DEF TypeOK, DbType
<1>2. /\ UserStoriesOf(d, m) = UserStoriesOf(db, m)
      /\ \A x \in UserStoriesOf(db, m) : d.us[x] = db.us[x]
  BY <1>1 DEF UserStoriesOf, Live
<1> QED BY <1>1, <1>2 DEF SameSprint, SameItems, LooseTasksOf, TasksOf, IssuesOf

\* The save of a story that stays in its sprint, or that the save neither closes nor opens.
LEMMA SaveUserstoryFlags ==
  ASSUME KeysInv, FlagsRight, NEW s \in Live(db.us), NEW st \in UserStoryStatuses,
         NEW m \in MilestoneKeys, SaveUserstory(s, st, m),
         \/ m = db.us[s].milestone
         \/ st = db.us[s].status /\ Truthful(db, s)
  PROVE  FlagsRight'
<1> DEFINE row == [db.us[s] EXCEPT !.status = st, !.milestone = m]
           d == [db EXCEPT !.us[s] = row]
           prev == db.us[s].milestone
<1>1. /\ row \in UserStoryRows /\ row.milestone = m /\ row.status = st
      /\ row.is_closed = db.us[s].is_closed /\ s \in UserStories
  BY LiveRows, MilestoneKeysType DEF KeysInv, TypeOK, UserStoryRows
<1>2. db' = AfterSaveUserstory(d, s, prev) /\ UNCHANGED jobs
  BY DEF SaveUserstory
<1> HIDE DEF row
<1>3. d \in DbType /\ s \in Live(d.us)
  BY <1>1, WrittenUserstoryKeys
<1>4. d.us[s] = row /\ d.task = db.task /\ d.closed_statuses = db.closed_statuses
  BY <1>1 DEF KeysInv, TypeOK, DbType
<1>5. \A x \in Live(d.milestone) : x \in {m, prev} \/ (x \in Live(db.milestone) /\ SameSprint(db, d, x))
  BY <1>1, WrittenUserstorySprints DEF KeysInv, TypeOK, DbType
<1> HIDE DEF d, prev
<1>6. Settles(d, db', {m, prev})
  <2>1. CASE m = prev
    <3>1. Settles(d, db', {m})
      BY <1>1, <1>2, <1>3, <1>4, AfterSaveUserstorySettles
    <3> QED BY <2>1, <3>1
  <2>2. CASE st = db.us[s].status /\ Truthful(db, s)
    <3>1. SameBasis(db, d, s)
      BY <1>1, <1>4, <2>2 DEF SameBasis, TasksOf
    <3>2. CalculateUserstoryIsClosed(d, s) = CalculateUserstoryIsClosed(db, s)
      BY <3>1, SameVerdict, VerdictIsBoolean
    <3>3. Truthful(d, s)
      BY <1>1, <1>4, <2>2, <3>2 DEF Truthful
    <3> QED BY <1>1, <1>2, <1>3, <1>4, <3>3, AfterSaveUserstorySettles
  <2> QED BY <2>1, <2>2 DEF prev
<1>7. jobs.backlog \ {m, prev} \subseteq jobs'.backlog
  BY <1>2
<1> QED BY <1>5, <1>6, <1>7, SettlingStep

LEMMA UserstoryActionsFlags ==
  ASSUME KeysInv, FlagsRight, NEW s \in UserStories,
         \/ CreateUserstory(s) \/ EditUserstory(s) \/ DeleteUserstory(s)
         \/ MoveUserstory(s) /\ Truthful(db, s)
  PROVE  FlagsRight'
<1>1. CASE CreateUserstory(s)
  <2>1. PICK st \in UserStoryStatuses, m \in MilestoneKeys :
          db' = AfterSaveUserstory(
                  [db EXCEPT !.us[s] = [status |-> st, milestone |-> m, is_closed |-> FALSE]],
                  s, Null)
    BY <1>1 DEF CreateUserstory
  <2> DEFINE row == [status |-> st, milestone |-> m, is_closed |-> FALSE]
             d == [db EXCEPT !.us[s] = row]
  <2>2. row \in UserStoryRows /\ row.milestone = m
    BY MilestoneKeysType DEF UserStoryRows, KeysInv
  <2>3. db' = AfterSaveUserstory(d, s, Null) /\ UNCHANGED jobs /\ s \notin Live(db.us)
    BY <1>1, <2>1 DEF CreateUserstory, Live
  <2> HIDE DEF row
  <2>4. d \in DbType /\ s \in Live(d.us)
    BY <2>2, WrittenUserstoryKeys
  <2>5. d.us[s] = row /\ d.milestone = db.milestone
    BY DEF KeysInv, TypeOK, DbType
  <2>6. \A x : x = m \/ SameSprint(db, d, x)
    BY <2>2, <2>3, WrittenUserstorySprints DEF KeysInv
  <2> HIDE DEF d
  <2>7. Settles(d, db', {m})
    BY <2>2, <2>3, <2>4, <2>5, AfterSaveUserstorySettles
  <2> QED BY <2>3, <2>5, <2>6, <2>7, SettlingStep
<1>2. CASE EditUserstory(s)
  BY <1>2, SaveUserstoryFlags DEF EditUserstory, KeysInv, KeysOK, KeysOf, MilestoneKeys
<1>3. CASE MoveUserstory(s) /\ Truthful(db, s)
  <2>1. s \in Live(db.us) /\ db.us[s].status \in UserStoryStatuses
    BY <1>3, LiveRows DEF MoveUserstory, KeysInv, TypeOK, UserStoryRows
  <2> QED BY <1>3, <2>1, SaveUserstoryFlags DEF MoveUserstory
<1>4. CASE DeleteUserstory(s)
  <2> DEFINE d == [db EXCEPT
                    !.us[s] = Absent,
                    !.task = [t \in Tasks |-> IF t \in TasksOf(db, s) THEN Absent ELSE db.task[t]]]
             m == db.us[s].milestone
  <2>1. d \in DbType
    BY DEF KeysInv, TypeOK, DbType
  <2>2. db' = AfterDeleteUserstory(d, db.us[s]) /\ UNCHANGED jobs /\ s \in Live(db.us)
    BY <1>4 DEF DeleteUserstory
  <2>3. /\ Live(d.us) = Live(db.us) \ {s} /\ \A x \in Live(d.us) : d.us[x] = db.us[x]
        /\ Live(d.task) = Live(db.task) \ TasksOf(db, s)
        /\ \A t \in Live(d.task) : d.task[t] = db.task[t]
        /\ d.issue = db.issue /\ d.milestone = db.milestone
        /\ d.closed_statuses = db.closed_statuses
    BY DEF KeysInv, TypeOK, DbType, Live, TasksOf
  <2>4. s # Null
    BY NullAssumption
  <2> HIDE DEF d
  <2>5. /\ \A x : UserStoriesOf(d, x) = UserStoriesOf(db, x) \ {s}
        /\ \A x : LooseTasksOf(d, x) = LooseTasksOf(db, x)
        /\ \A x : IssuesOf(d, x) = IssuesOf(db, x)
    BY <2>3, <2>4 DEF UserStoriesOf, LooseTasksOf, TasksOf, IssuesOf
  <2>6. ASSUME NEW x, x # m PROVE SameSprint(db, d, x)
    <3>1. s \notin UserStoriesOf(db, x)
      BY <2>6 DEF UserStoriesOf
    <3>2. /\ \A y \in UserStoriesOf(db, x) : y \in Live(d.us)
          /\ \A t \in LooseTasksOf(db, x) : t \in Live(d.task)
      BY <2>3, <2>4, <3>1 DEF UserStoriesOf, LooseTasksOf, TasksOf
    <3> QED BY <2>3, <2>5, <3>1, <3>2 DEF SameSprint, SameItems
  <2>7. OnlyDone(db, m) => OnlyDone(d, m)
    <3>1. AllClosed(db, m) => AllClosed(d, m)
      <4>1. \A y \in UserStoriesOf(d, m) : y \in UserStoriesOf(db, m) /\ d.us[y] = db.us[y]
        BY <2>3, <2>5 DEF UserStoriesOf
      <4>2. \A t \in LooseTasksOf(d, m) : d.task[t] = db.task[t]
        BY <2>3 DEF LooseTasksOf, TasksOf
      <4> QED BY <2>3, <2>5, <4>1, <4>2 DEF AllClosed
    <3> QED BY <2>3, <3>1 DEF OnlyDone
  <2>8. CASE OnlyDone(d, m)
    <3>1. Settles(d, db', {m})
      BY <2>1, <2>2, <2>8, CloseMilestoneIfCompleteSettles DEF AfterDeleteUserstory
    <3> QED BY <2>2, <2>3, <2>6, <3>1, SettlingStep
  <2>9. CASE ~ OnlyDone(d, m)
    <3>1. m \in jobs'.backlog
      BY <2>2, <2>3, <2>7, <2>9 DEF FlagsRight, Right, OnlyDone
    <3>2. Settles(d, db', {})
      <4>1. Live(db'.milestone) = Live(d.milestone)
        BY <2>1, <2>2, RecalculateMilestoneKeys DEF AfterDeleteUserstory, SameKeys
      <4> QED BY <2>1, <2>2, <4>1, CloseMilestoneIfCompleteKeeps DEF AfterDeleteUserstory, Settles
    <3> QED BY <2>2, <2>3, <2>6, <3>1, <3>2, SettlingStep
  <2> QED BY <2>8, <2>9
<1> QED BY <1>1, <1>2, <1>3, <1>4

\* A task whose row is written concerns the sprints that it belongs to by itself.
LEMMA WrittenTaskSprints ==
  ASSUME TypeOK, NEW t \in Tasks, NEW row, NEW d, d = [db EXCEPT !.task[t] = row],
         NEW m, t \notin LooseTasksOf(db, m), t \notin LooseTasksOf(d, m)
  PROVE  SameSprint(db, d, m)
<1>1. /\ d.task = [db.task EXCEPT ![t] = row] /\ t \in DOMAIN db.task
      /\ d.us = db.us /\ d.issue = db.issue /\ d.milestone = db.milestone
      /\ d.closed_statuses = db.closed_statuses
  BY DEF TypeOK, DbType
<1>2. /\ LooseTasksOf(d, m) = LooseTasksOf(db, m)
      /\ \A x \in LooseTasksOf(db, m) : d.task[x] = db.task[x]
  BY <1>1 DEF LooseTasksOf, TasksOf, Live
<1> QED BY <1>1, <1>2 DEF SameSprint, SameItems, UserStoriesOf, IssuesOf

LEMMA TaskActionsFlags ==
  ASSUME KeysInv, FlagsRight, NEW t \in Tasks,
         CreateTask(t) \/ EditTask(t) \/ MoveTaskToSprint(t) \/ DeleteTask(t)
  PROVE  FlagsRight'
<1>1. ASSUME NEW row \in TaskRows, NEW was, NEW from,
             db' = AfterSaveTask([db EXCEPT !.task[t] = row], t, was, from),
             t \in Live(db.task) => from = db.task[t].milestone,
             UNCHANGED jobs
      PROVE  FlagsRight'
  <2> DEFINE d == [db EXCEPT !.task[t] = row]
             to == row.milestone
  <2>2. db' = AfterSaveTask(d, t, was, from)
    BY <1>1
  <2>3. d \in DbType /\ d.milestone = db.milestone /\ d.task[t] = row
    BY DEF KeysInv, TypeOK, DbType
  <2>4. \A x : x \in {to, from} \/ SameSprint(db, d, x)
    <3>1. ASSUME NEW x, x # to, x # from PROVE t \notin LooseTasksOf(db, x) /\ t \notin LooseTasksOf(d, x)
      BY <1>1, <2>3, <3>1 DEF LooseTasksOf, TasksOf
    <3> QED BY <3>1, WrittenTaskSprints DEF KeysInv
  <2> HIDE DEF d
  <2>5. Settles(d, db', {to, from})
    BY <2>2, <2>3, AfterSaveTaskSettles
  <2> HIDE DEF to
  <2> QED BY <1>1, <2>3, <2>4, <2>5, SettlingStep
<1>2. CASE CreateTask(t)
  <2>1. PICK st \in TaskStatuses, us \in Live(db.us) \cup {Null}, m \in MilestoneKeys :
          db' = AfterSaveTask([db EXCEPT !.task[t] = [status |-> st, user_story |-> us,
                                 milestone |-> TaskMilestone(us, m)]], t, Null, Null)
    BY <1>2 DEF CreateTask
  <2>2. t \notin Live(db.task) /\ UNCHANGED jobs
    BY <1>2 DEF CreateTask, Live
  <2> QED BY <1>1, <2>1, <2>2, TaskRow DEF KeysInv
<1>3. CASE EditTask(t)
  <2>1. PICK st \in TaskStatuses, us \in Live(db.us) \cup {Null}, m \in MilestoneKeys :
          db' = AfterSaveTask([db EXCEPT !.task[t] = [status |-> st, user_story |-> us,
                                 milestone |-> TaskMilestone(us, m)]],
                              t, db.task[t].user_story, db.task[t].milestone)
    BY <1>3 DEF EditTask
  <2>2. UNCHANGED jobs
    BY <1>3 DEF EditTask
  <2> QED BY <1>1, <2>1, <2>2, TaskRow DEF KeysInv
<1>5. CASE MoveTaskToSprint(t)
  <2>1. PICK m \in Milestones :
          db' = AfterSaveTask([db EXCEPT !.task[t].milestone = m],
                              t, db.task[t].user_story, db.task[t].milestone)
    BY <1>5, LiveRows DEF MoveTaskToSprint, KeysInv, TypeOK
  <2> DEFINE row == [db.task[t] EXCEPT !.milestone = m]
  <2>2. row \in TaskRows /\ UNCHANGED jobs
    BY <1>5, LiveRows DEF MoveTaskToSprint, KeysInv, TypeOK, TaskRows
  <2>3. [db EXCEPT !.task[t].milestone = m] = [db EXCEPT !.task[t] = row]
    OBVIOUS
  <2> QED BY <1>1, <2>1, <2>2, <2>3
<1>4. CASE DeleteTask(t)
  <2> DEFINE d == [db EXCEPT !.task[t] = Absent]
             row == db.task[t]
             m == row.milestone
  <2>1. d \in DbType /\ db' = AfterDeleteTask(d, row) /\ UNCHANGED jobs /\ t \in Live(db.task)
    BY <1>4 DEF DeleteTask, KeysInv, TypeOK, DbType
  <2>2. /\ d.us = db.us /\ d.issue = db.issue /\ d.milestone = db.milestone
        /\ d.closed_statuses = db.closed_statuses
        /\ Live(d.task) \subseteq Live(db.task) /\ t \notin Live(d.task)
        /\ \A x \in Live(d.task) : d.task[x] = db.task[x]
    BY DEF KeysInv, TypeOK, DbType, Live
  <2>3. \A x : t \notin LooseTasksOf(d, x)
    BY <2>2 DEF LooseTasksOf, TasksOf
  <2>4. \A x : t \notin LooseTasksOf(db, x) => SameSprint(db, d, x)
    BY <2>3, WrittenTaskSprints DEF KeysInv
  <2> HIDE DEF d
  <2>5. OnlyDone(db, m) => OnlyDone(d, m)
    <3>1. /\ UserStoriesOf(d, m) = UserStoriesOf(db, m) /\ IssuesOf(d, m) = IssuesOf(db, m)
          /\ \A x \in LooseTasksOf(d, m) : x \in LooseTasksOf(db, m) /\ d.task[x] = db.task[x]
      BY <2>2 DEF UserStoriesOf, LooseTasksOf, TasksOf, IssuesOf
    <3>2. AllClosed(db, m) => AllClosed(d, m)
      BY <2>2, <3>1 DEF AllClosed
    <3> QED BY <2>2, <3>2 DEF OnlyDone
  <2>6. \A x : x = m \/ SameSprint(db, d, x)
    BY <2>4 DEF LooseTasksOf
  <2>7. \/ Right(d, m) \/ (row.user_story = Null /\ OnlyDone(d, m))
        \/ m \in jobs'.backlog
    <3>1. CASE row.user_story = Null
      BY <2>1, <2>2, <2>5, <3>1 DEF FlagsRight, Right, OnlyDone
    <3>2. CASE row.user_story # Null
      <4>1. SameSprint(db, d, m)
        BY <2>4, <3>2 DEF LooseTasksOf, TasksOf
      <4> QED BY <2>1, <2>2, <4>1, SameSprintRight DEF FlagsRight, Right, OnlyDone
    <3> QED BY <3>1, <3>2
  <2>8. CASE Right(d, m) \/ (row.user_story = Null /\ OnlyDone(d, m))
    <3>1. Settles(d, db', {m})
      BY <2>1, <2>8, AfterDeleteTaskSettles
    <3> QED BY <2>1, <2>2, <2>6, <3>1, SettlingStep
  <2>9. CASE m \in jobs'.backlog
    <3> DEFINE d1 == RecalculateUserstory(d, row.user_story)
    <3>1. d1 \in DbType /\ Settles(d, d1, {})
      BY <2>1, RecalculateUserstoryType, RecalculateUserstorySettles
    <3> HIDE DEF d1
    <3>2. Settles(d1, CloseMilestoneIfComplete(d1, m), {})
      <4>1. Live(CloseMilestoneIfComplete(d1, m).milestone) = Live(d1.milestone)
        BY <3>1, RecalculateMilestoneKeys DEF SameKeys
      <4> QED BY <3>1, <4>1, CloseMilestoneIfCompleteKeeps DEF Settles
    <3>3. db' = CloseMilestoneIfComplete(d1, m)
      BY <2>1 DEF AfterDeleteTask, d1
    <3>4. Settles(d, db', {} \cup {})
      BY <3>1, <3>2, <3>3, SettlesTwice
    <3> QED BY <2>1, <2>2, <2>6, <2>9, <3>4, SettlingStep
  <2> QED BY <2>7, <2>8, <2>9
<1> QED BY <1>2, <1>3, <1>4, <1>5

LEMMA IssueActionsFlags ==
  ASSUME KeysInv, FlagsRight, NEW i \in Issues, CreateIssue(i) \/ EditIssue(i) \/ DeleteIssue(i)
  PROVE  FlagsRight'
<1>1. ASSUME NEW row, NEW d, d = [db EXCEPT !.issue[i] = row], NEW m,
             i \notin IssuesOf(db, m), i \notin IssuesOf(d, m)
      PROVE  SameSprint(db, d, m)
  <2>1. /\ d.issue = [db.issue EXCEPT ![i] = row] /\ i \in DOMAIN db.issue
        /\ d.us = db.us /\ d.task = db.task /\ d.milestone = db.milestone
        /\ d.closed_statuses = db.closed_statuses
    BY <1>1 DEF KeysInv, TypeOK, DbType
  <2>2. /\ IssuesOf(d, m) = IssuesOf(db, m)
        /\ \A x \in IssuesOf(db, m) : d.issue[x] = db.issue[x]
    BY <1>1, <2>1 DEF IssuesOf, Live
  <2> QED BY <2>1, <2>2 DEF SameSprint, SameItems, UserStoriesOf, LooseTasksOf, TasksOf
<1>2. CASE CreateIssue(i) \/ EditIssue(i)
  <2>1. PICK st \in IssueStatuses, to \in MilestoneKeys, from \in Milestones \cup {Null} :
          /\ db' = AfterSaveIssue([db EXCEPT !.issue[i] = [status |-> st, milestone |-> to]], i, from)
          /\ i \in Live(db.issue) => from = db.issue[i].milestone
    <3>1. CASE CreateIssue(i) BY <3>1 DEF CreateIssue, Live
    <3>2. CASE EditIssue(i) BY <3>2, LiveRows DEF EditIssue, KeysInv, TypeOK, IssueRows
    <3> QED BY <1>2, <3>1, <3>2
  <2> DEFINE row == [status |-> st, milestone |-> to]
             d == [db EXCEPT !.issue[i] = row]
  <2>2. row \in IssueRows /\ row.milestone = to
    BY MilestoneKeysType DEF IssueRows, KeysInv
  <2>3. db' = AfterSaveIssue(d, i, from) /\ UNCHANGED jobs
    BY <1>2, <2>1 DEF CreateIssue, EditIssue
  <2> HIDE DEF row
  <2>4. d \in DbType /\ d.milestone = db.milestone /\ d.issue[i] = row
    BY <2>2 DEF KeysInv, TypeOK, DbType
  <2>5. \A x : x \in {to, from} \/ SameSprint(db, d, x)
    BY <1>1, <2>1, <2>2, <2>4 DEF IssuesOf
  <2> HIDE DEF d
  <2>6. Settles(d, db', {to, from})
    BY <2>2, <2>3, <2>4, AfterSaveIssueSettles
  <2> QED BY <2>3, <2>4, <2>5, <2>6, SettlingStep
<1>3. CASE DeleteIssue(i)
  <2> DEFINE d == [db EXCEPT !.issue[i] = Absent]
             m == db.issue[i].milestone
  <2>1. d \in DbType /\ db' = AfterDeleteIssue(d, db.issue[i]) /\ UNCHANGED jobs /\ i \in Live(db.issue)
    BY <1>3 DEF DeleteIssue, KeysInv, TypeOK, DbType
  <2>2. /\ d.us = db.us /\ d.task = db.task /\ d.milestone = db.milestone
        /\ d.closed_statuses = db.closed_statuses
        /\ Live(d.issue) \subseteq Live(db.issue) /\ i \notin Live(d.issue)
        /\ \A x \in Live(d.issue) : d.issue[x] = db.issue[x]
    BY DEF KeysInv, TypeOK, DbType, Live
  <2>3. \A x : x = m \/ SameSprint(db, d, x)
    BY <1>1, <2>2 DEF IssuesOf
  <2> HIDE DEF d
  <2>4. OnlyDone(db, m) => OnlyDone(d, m)
    <3>1. /\ UserStoriesOf(d, m) = UserStoriesOf(db, m) /\ LooseTasksOf(d, m) = LooseTasksOf(db, m)
          /\ \A x \in IssuesOf(d, m) : x \in IssuesOf(db, m) /\ d.issue[x] = db.issue[x]
      BY <2>2 DEF UserStoriesOf, LooseTasksOf, TasksOf, IssuesOf
    <3>2. AllClosed(db, m) => AllClosed(d, m)
      BY <2>2, <3>1 DEF AllClosed
    <3> QED BY <2>2, <3>2 DEF OnlyDone
  <2>5. CASE OnlyDone(d, m)
    <3>1. Settles(d, db', {m})
      BY <2>1, <2>5, CloseMilestoneIfCompleteSettles DEF AfterDeleteIssue
    <3> QED BY <2>1, <2>2, <2>3, <3>1, SettlingStep
  <2>6. CASE ~ OnlyDone(d, m)
    <3>1. m \in jobs'.backlog
      BY <2>1, <2>2, <2>4, <2>6 DEF FlagsRight, Right, OnlyDone
    <3>2. Settles(d, db', {})
      <4>1. Live(db'.milestone) = Live(d.milestone)
        BY <2>1, RecalculateMilestoneKeys DEF AfterDeleteIssue, SameKeys
      <4> QED BY <2>1, <4>1, CloseMilestoneIfCompleteKeeps DEF AfterDeleteIssue, Settles
    <3> QED BY <2>1, <2>2, <2>3, <3>1, <3>2, SettlingStep
  <2> QED BY <2>5, <2>6
<1> QED BY <1>2, <1>3

\* The statuses of stories close no task and no issue.
LEMMA UserStoryStatusFlags ==
  ASSUME KeysInv, FlagsRight, NEW st \in UserStoryStatuses, EditUserStoryStatus(st)
  PROVE  FlagsRight'
<1>1. PICK closed \in ClosedStatusesAfterEdit(st) :
        LET d == [db EXCEPT !.closed_statuses = closed]
        IN db' = RecalculateUserstories(d, {s \in Live(d.us) : d.us[s].status = st})
  BY DEF EditUserStoryStatus
<1> DEFINE d == [db EXCEPT !.closed_statuses = closed]
           S == {s \in Live(d.us) : d.us[s].status = st}
<1>2. /\ d.us = db.us /\ d.task = db.task /\ d.issue = db.issue /\ d.milestone = db.milestone
      /\ d.closed_statuses = closed /\ d \in DbType
  BY DEF KeysInv, TypeOK, DbType, ClosedStatusesAfterEdit, Statuses
<1>3. \A x \in TaskStatuses \cup IssueStatuses : x \in closed <=> x \in db.closed_statuses
  BY <1>1, StatusesAssumption DEF ClosedStatusesAfterEdit
<1>4. db' = RecalculateUserstories(d, S) /\ S \subseteq Live(d.us) /\ UNCHANGED jobs
  BY <1>1 DEF EditUserStoryStatus
<1> HIDE DEF d, S
<1>5. ASSUME NEW m PROVE SameSprint(db, d, m)
  <2>1. /\ \A t \in LooseTasksOf(db, m) : db.task[t].status \in TaskStatuses
        /\ \A i \in IssuesOf(db, m) : db.issue[i].status \in IssueStatuses
    BY LiveRows DEF KeysInv, TypeOK, LooseTasksOf, TasksOf, IssuesOf, TaskRows, IssueRows
  <2> QED BY <1>2, <1>3, <2>1
      DEF SameSprint, SameItems, UserStoriesOf, LooseTasksOf, TasksOf, IssuesOf
<1>6. Settles(d, db', {})
  BY <1>2, <1>4, RecalculateUserstoriesSettles
<1> QED BY <1>2, <1>4, <1>5, <1>6, SettlingStep

LEMMA BulkActionsFlags ==
  ASSUME KeysInv, FlagsRight, NEW S \in SUBSET Live(db.us),
         BulkUpdateKanbanOrder(S) \/ BulkUpdateBacklogOrder(S)
  PROVE  FlagsRight'
<1>1. CASE BulkUpdateKanbanOrder(S)
  <2>1. PICK st \in UserStoryStatuses :
          db' = [db EXCEPT !.us = [s \in UserStories |->
                  IF s \in S THEN [db.us[s] EXCEPT !.status = st] ELSE db.us[s]]]
    BY <1>1 DEF BulkUpdateKanbanOrder
  <2>2. ASSUME NEW s \in S
        PROVE  LET row == [db.us[s] EXCEPT !.status = st]
               IN /\ row \in UserStoryRows
                  /\ row.milestone = db.us[s].milestone /\ row.is_closed = db.us[s].is_closed
    BY LiveRows DEF KeysInv, TypeOK, UserStoryRows
  <2>3. /\ Live(db'.us) = Live(db.us)
        /\ \A s \in Live(db.us) : /\ db'.us[s].milestone = db.us[s].milestone
                                  /\ db'.us[s].is_closed = db.us[s].is_closed
    BY <2>1, <2>2, LiveRows, AbsentAssumption DEF KeysInv, TypeOK, DbType, Live
  <2>4. /\ db'.task = db.task /\ db'.issue = db.issue /\ db'.milestone = db.milestone
        /\ db'.closed_statuses = db.closed_statuses
    BY <2>1 DEF KeysInv, TypeOK, DbType
  <2>5. \A m : SameSprint(db, db', m)
    BY <2>3, <2>4 DEF SameSprint, SameItems, UserStoriesOf, LooseTasksOf, TasksOf, IssuesOf
  <2>6. jobs'.backlog = jobs.backlog
    BY <1>1 DEF BulkUpdateKanbanOrder, KeysInv, TypeOK, JobsType
  <2> QED BY <2>4, <2>5, <2>6, NothingSettled, SettlingStep
<1>2. CASE BulkUpdateBacklogOrder(S)
  <2>1. PICK to \in MilestoneKeys :
          /\ db' = WithMilestone(db, S, to)
          /\ jobs' = [jobs EXCEPT !.backlog =
                        @ \cup (({db.us[s].milestone : s \in S} \cup {to}) \ {Null})]
    BY <1>2 DEF BulkUpdateBacklogOrder
  <2> DEFINE T == UNION {TasksOf(db, s) : s \in S}
  <2>2. jobs'.backlog = jobs.backlog \cup (({db.us[s].milestone : s \in S} \cup {to}) \ {Null})
    BY <2>1 DEF KeysInv, TypeOK, JobsType
  <2>3. /\ db'.us = [s \in DOMAIN db.us |->
                       IF s \in S THEN [db.us[s] EXCEPT !.milestone = to] ELSE db.us[s]]
        /\ db'.task = [t \in DOMAIN db.task |->
                         IF t \in T THEN [db.task[t] EXCEPT !.milestone = to] ELSE db.task[t]]
        /\ db'.issue = db.issue /\ db'.milestone = db.milestone
        /\ db'.closed_statuses = db.closed_statuses
    BY <2>1 DEF WithMilestone, KeysInv, TypeOK, DbType
  <2>4. to \in Milestones \cup {Null}
    BY MilestoneKeysType DEF KeysInv
  <2>5. ASSUME NEW s \in S
        PROVE  LET row == [db.us[s] EXCEPT !.milestone = to]
               IN row \in UserStoryRows /\ row.milestone = to
    BY <2>4, LiveRows DEF KeysInv, TypeOK, UserStoryRows
  <2>6. \A t \in T : t \in Live(db.task) /\ db.task[t].user_story # Null
    BY LiveRows, NullAssumption DEF TasksOf, KeysInv, TypeOK
  <2> HIDE DEF T
  <2>7. ASSUME NEW t \in T
        PROVE  LET row == [db.task[t] EXCEPT !.milestone = to]
               IN row \in TaskRows /\ row.user_story = db.task[t].user_story
    BY <2>4, <2>6, LiveRows DEF KeysInv, TypeOK, TaskRows
  <2>8. /\ Live(db'.us) = Live(db.us)
        /\ \A s \in Live(db.us) \ S : db'.us[s] = db.us[s]
        /\ \A s \in S : db'.us[s].milestone = to
    BY <2>3, <2>5, AbsentAssumption DEF Live
  <2>9. /\ Live(db'.task) = Live(db.task)
        /\ \A t \in Live(db.task) \ T : db'.task[t] = db.task[t]
        /\ \A t \in T : db'.task[t].user_story # Null
    BY <2>3, <2>6, <2>7, AbsentAssumption DEF Live
  <2>10. ASSUME NEW m \in Live(db.milestone), m \notin jobs'.backlog
         PROVE  SameSprint(db, db', m)
    <3>1. m # to /\ \A s \in S : db.us[s].milestone # m
      BY <2>2, <2>10, LiveRows, NullAssumption DEF KeysInv, TypeOK
    <3>2. /\ UserStoriesOf(db', m) = UserStoriesOf(db, m)
          /\ \A s \in UserStoriesOf(db, m) : db'.us[s] = db.us[s]
      BY <2>8, <3>1 DEF UserStoriesOf
    <3>3. /\ LooseTasksOf(db', m) = LooseTasksOf(db, m)
          /\ \A t \in LooseTasksOf(db, m) : db'.task[t] = db.task[t]
      BY <2>6, <2>9 DEF LooseTasksOf, TasksOf
    <3> QED BY <2>3, <3>2, <3>3 DEF SameSprint, SameItems, IssuesOf
  <2> QED BY <2>2, <2>3, <2>10, NothingSettled, SettlingStep
<1> QED BY <1>1, <1>2

LEMMA JobActionsFlags ==
  ASSUME KeysInv, FlagsRight,
         \/ \E s \in UserStories : RunKanbanJob(s)
         \/ \E m \in Milestones : RunBacklogJob(m)
  PROVE  FlagsRight'
<1>1. \A m : SameSprint(db, db, m)
  BY DEF SameSprint, SameItems
<1>2. ASSUME NEW s \in UserStories, RunKanbanJob(s)
      PROVE  FlagsRight'
  <2>1. Settles(db, db', {})
    BY <1>2, RecalculateUserstorySettles DEF RunKanbanJob, KeysInv, TypeOK
  <2>2. jobs'.backlog = jobs.backlog
    BY <1>2 DEF RunKanbanJob, KeysInv, TypeOK, JobsType
  <2> QED BY <1>1, <2>1, <2>2, SettlingStep
<1>3. ASSUME NEW m \in Milestones, RunBacklogJob(m)
      PROVE  FlagsRight'
  <2>1. Settles(db, db', {m})
    BY <1>3, RecalculateMilestoneSettles DEF RunBacklogJob, KeysInv, TypeOK
  <2>2. jobs'.backlog = jobs.backlog \ {m}
    BY <1>3 DEF RunBacklogJob, KeysInv, TypeOK, JobsType
  <2> QED BY <1>1, <2>1, <2>2, SettlingStep
<1> QED BY <1>2, <1>3

-----------------------------------------------------------------------------
(***************************************************************************)
(* The theorems.                                                           *)
(***************************************************************************)
\* Requests that leave every flag right: no endpoint that writes rows of tasks or issues
\* without their handlers, no edit of the statuses that no handler listens to, no save that
\* changes sprint and status of a story at once, and no move of a story whose flag waits for
\* a job of the kanban.
CarefulPaths ==
  /\ Paths \cap {"moves_and_edits", "bulk_milestone", "bulk_create", "task_status",
                 "issue_status", "status_delete"} = {}
  /\ "moves" \notin Paths \/ "kanban" \notin Paths

FlagsInv ==
  /\ KeysInv /\ StoryTruthful /\ FlagsRight
  /\ "kanban" \notin Paths => jobs.kanban = {}

LEMMA NextNoKanban ==
  ASSUME TypeOK, "kanban" \notin Paths, jobs.kanban = {}, [Next]_vars
  PROVE  jobs'.kanban = {}
<1>1. CASE UNCHANGED jobs
  BY <1>1
<1>2. CASE \E S \in SUBSET Live(db.us) : BulkUpdateBacklogOrder(S)
  BY <1>2 DEF BulkUpdateBacklogOrder, TypeOK, JobsType
<1>3. CASE \E m \in Milestones : RunBacklogJob(m)
  BY <1>3 DEF RunBacklogJob, TypeOK, JobsType
<1>4. \A s : ~ RunKanbanJob(s)
  BY DEF RunKanbanJob
<1>5. \A S : ~ BulkUpdateKanbanOrder(S)
  BY DEF BulkUpdateKanbanOrder
<1>6. \/ UNCHANGED jobs
      \/ \E S \in SUBSET Live(db.us) : BulkUpdateBacklogOrder(S)
      \/ \E m \in Milestones : RunBacklogJob(m)
  <2>1. CASE UNCHANGED vars
    BY <2>1 DEF vars
  <2>2. CASE Request
    BY <1>5, <2>2 DEF Request, CreateMilestone, DeleteMilestone, CreateUserstory, EditUserstory,
       DeleteUserstory, MoveUserstory, MoveAndEditUserstory, SaveUserstory, BulkCreateUserstory,
       CreateTask, EditTask, MoveTaskToSprint, DeleteTask, BulkUpdateMilestoneOfTask, CreateIssue,
       EditIssue, DeleteIssue, BulkCreateIssue, BulkUpdateMilestoneOfIssue, EditUserStoryStatus,
       EditTaskStatus, EditIssueStatus, DestroyStatus, BulkUpdateMilestone
  <2> QED BY <1>4, <2>1, <2>2 DEF Next
<1> QED BY <1>1, <1>2, <1>3, <1>6

LEMMA NextFlags ==
  ASSUME CarefulPaths, FlagsInv, [Next]_vars
  PROVE  FlagsRight'
<1>1. CASE UNCHANGED vars
  BY <1>1 DEF vars, FlagsInv, FlagsRight
<1>2. CASE Next
  <2>1. /\ \A s : ~ MoveAndEditUserstory(s) /\ ~ BulkCreateUserstory(s)
        /\ \A t : ~ BulkUpdateMilestoneOfTask(t)
        /\ \A i : ~ BulkCreateIssue(i) /\ ~ BulkUpdateMilestoneOfIssue(i)
        /\ \A st : ~ EditTaskStatus(st) /\ ~ EditIssueStatus(st)
        /\ \A st, to : ~ DestroyStatus(st, to)
        /\ \A S : ~ BulkUpdateMilestone(S)
    BY DEF CarefulPaths, MoveAndEditUserstory, BulkCreateUserstory, BulkUpdateMilestoneOfTask,
       BulkCreateIssue, BulkUpdateMilestoneOfIssue, EditTaskStatus, EditIssueStatus,
       DestroyStatus, BulkUpdateMilestone
  <2>2. \A s \in UserStories : MoveUserstory(s) => Truthful(db, s)
    BY DEF MoveUserstory, CarefulPaths, FlagsInv, StoryTruthful, Truthful
  <2>3. KeysInv /\ FlagsRight
    BY DEF FlagsInv
  <2>4. CASE \E m \in Milestones : CreateMilestone(m) \/ DeleteMilestone(m)
    BY <2>3, <2>4, MilestoneActionsFlags
  <2>5. CASE \E s \in UserStories : \/ CreateUserstory(s) \/ EditUserstory(s)
                                    \/ DeleteUserstory(s) \/ MoveUserstory(s)
    BY <2>2, <2>3, <2>5, UserstoryActionsFlags
  <2>6. CASE \E t \in Tasks : \/ CreateTask(t) \/ EditTask(t)
                              \/ MoveTaskToSprint(t) \/ DeleteTask(t)
    BY <2>3, <2>6, TaskActionsFlags
  <2>7. CASE \E i \in Issues : CreateIssue(i) \/ EditIssue(i) \/ DeleteIssue(i)
    BY <2>3, <2>7, IssueActionsFlags
  <2>8. CASE \E st \in UserStoryStatuses : EditUserStoryStatus(st)
    BY <2>3, <2>8, UserStoryStatusFlags
  <2>9. CASE \E S \in SUBSET Live(db.us) : BulkUpdateKanbanOrder(S) \/ BulkUpdateBacklogOrder(S)
    BY <2>3, <2>9, BulkActionsFlags
  <2>10. CASE \/ \E s \in UserStories : RunKanbanJob(s)
              \/ \E m \in Milestones : RunBacklogJob(m)
    BY <2>3, <2>10, JobActionsFlags
  <2> QED BY <1>2, <2>1, <2>4, <2>5, <2>6, <2>7, <2>8, <2>9, <2>10 DEF Next, Request
<1> QED BY <1>1, <1>2

\* With careful requests FlagsInv holds in every reachable state.
LEMMA FlagsHold == ASSUME CarefulPaths PROVE Spec => []FlagsInv
<1>1. Init => FlagsInv
  BY InitKeys DEF Init, FlagsInv, StoryTruthful, FlagsRight, Live
<1>2. FlagsInv /\ [Next]_vars => FlagsInv'
  BY NextFlags, NextKeys, NextTruthful, NextNoKanban DEF FlagsInv, KeysInv, CarefulPaths
<1> QED BY <1>1, <1>2, PTL DEF Spec

\* A sprint that is closed holds no unfinished item, for any number of items and sprints, or a
\* job that will recalculate it is pending: each handler of a save or delete, and each
\* save nested in it, recalculates every sprint whose items it changed.
THEOREM ClosedSprintsDone ==
  ASSUME CarefulPaths
  PROVE  Spec => []ClosedSprintIsDone
<1>1. FlagsInv => ClosedSprintIsDone
  BY FlagsRightMeans DEF FlagsInv
<1> QED BY <1>1, FlagsHold, PTL

\* A sprint whose items are all closed is closed too, with the same exception; a story that
\* moves leaves the sprint it came from right because its own flag was right before.
THEOREM DoneSprintsClosed ==
  ASSUME CarefulPaths
  PROVE  Spec => []DoneSprintIsClosed
<1>1. FlagsInv => DoneSprintIsClosed
  BY FlagsRightMeans DEF FlagsInv
<1> QED BY <1>1, FlagsHold, PTL
=============================================================================

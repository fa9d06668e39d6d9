SPECIFICATION FairSpec
CONSTANTS
  UserStories = {us1}
  Tasks = {t1}
  Issues = {i1}
  Milestones = {m1, m2}
  UserStoryStatuses = {us_new, us_done}
  TaskStatuses = {task_new, task_done}
  IssueStatuses = {issue_new, issue_done}
  ClosedStatuses = {us_done, task_done, issue_done}
  Null = null
  Absent = absent
  Paths = {"items", "kanban", "backlog"}
PROPERTIES
  CatchUp

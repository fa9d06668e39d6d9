SPECIFICATION Spec
CONSTANTS
  UserStories = {us1}
  Tasks = {t1}
  Issues = {i1}
  Milestones = {m1}
  UserStoryStatuses = {us_new, us_done}
  TaskStatuses = {task_new, task_done}
  IssueStatuses = {issue_new, issue_done}
  ClosedStatuses = {us_done, task_done, issue_done}
  Null = null
  Absent = absent
  Paths = {"items", "moves", "moves_and_edits", "kanban", "backlog", "bulk_milestone", "bulk_create", "us_status", "task_status", "issue_status", "status_delete"}
SYMMETRY Interchangeable
INVARIANTS
  TypeOK
  NoDanglingReferences

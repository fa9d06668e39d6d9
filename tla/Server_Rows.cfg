SPECIFICATION Spec
CONSTANTS
  Users = {a, b}
  ProjectRequests = {q1, q2, q3}
  None = None
  Processes = {p1, p2}
  HandledTasks = {t1}
  MaxFailures = 1
  Stories = {1, 2}
  LastLane = 3
  Deletions = {d1, d2}
  MaxRequests = 2
  NoLane = NoLane
  c1 = c1
  c2 = c2
  Tasks = {4, 12, 13}
  Cells = {c1, c2}
  Tabs = {tab1, tab2}
  Starts <- Boards
  MaxEvents = 2
  Authors = {a, b}
  Values = {0, 1}
  Missed = Missed
  Day = 2
  Interval = 1
  PageSize = 1
  MaxChanges = 3
  MaxInterruptions = 1
INVARIANTS
  TypesOK
  OwnerIsAdmin
  DecidedOnce
  LoneRecountHeals
  HandlersComeBack
  TasksAreHandled
  StoriesKeepLane
  DefaultLane
  TabShowsOrder
  WatchersKnow
  CommentsAreMailed

\* Requests, drags and changes are bounded.
CHECK_DEADLOCK FALSE

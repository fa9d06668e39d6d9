SPECIFICATION Spec
CONSTANTS
  Stories = {1, 2, 3}
  todo = todo
  doing = doing
  Statuses = {todo, doing}
  NoCard = NoCard
  Tabs = {t1, t2}
  t1 = t1
  t2 = t2
  Start <- CardsAtStart
  MaxDrags = 2
  MaxFaults = 1
INVARIANTS
  DragKeepsOrder
  TiesOnlyFromOverlap
  StaleOnlyAfterAccident
  WatcherShowsOrder
\* The users stop dragging.
CHECK_DEADLOCK FALSE

SPECIFICATION FairSpec
CONSTANTS
  r1 = r1
  r2 = r2
  us1 = us1
  issue1 = issue1
  issue2 = issue2
  Requests = {r1, r2}
  Stories = {us1}
  LooseTasks = {}
  Issues = {issue1, issue2}
  Batch <- TwoInOne
  Milestones = {m1, m2}
  BulkTargets = {m1}
  Targets = {m1, m2}
  Operations = {"move", "status"}
  Workers = 2
  NoOne = NoOne
  Untouched = Untouched
CHECK_DEADLOCK FALSE
INVARIANTS
  LoneRequestsGetItRight
  OnlyBatchesDeadlock
PROPERTIES
  EveryRequestAnswered

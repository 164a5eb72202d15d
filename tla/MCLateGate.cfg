SPECIFICATION CoordinatorSpec
CONSTANTS
  Workers = {w1, w2}
  NoWorker = NoWorker
  Tasks = {t1, t2}
  NumBuckets = 1
  TargetRounds = 2
  MaxAge = 1
  MinAge = 0
  MinUsable = 1
  StepCounts = {1}
  HeartbeatSteps = {}
  HeartbeatSlack = 0
  Handlers = {h1, h2}
  TargetSteps = 2
  MaxFailures = 0
  MaxCrashes = 0
SYMMETRY Symmetry
INVARIANTS
  ClosedWithWorkHasResult
CHECK_DEADLOCK FALSE

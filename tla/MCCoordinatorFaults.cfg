SPECIFICATION CoordinatorSpec
CONSTANTS
  Workers = {w1}
  NoWorker = NoWorker
  Tasks = {t1, t2, t3}
  NumBuckets = 1
  TargetRounds = 2
  MaxAge = 1
  MinAge = 0
  MinUsable = 1
  StepCounts = {1}
  HeartbeatSteps = {}
  HeartbeatSlack = 0
  Handlers = {h1, h2}
  TargetSteps = 2
  MaxFailures = 1
  MaxCrashes = 1
SYMMETRY Symmetry
INVARIANTS
  SingleCloser
  PublishedObjectIsTheResult
PROPERTIES
  NothingIsOverwritten
  ImplementsRounds
CHECK_DEADLOCK FALSE

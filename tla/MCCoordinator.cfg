SPECIFICATION FairSpec
CONSTANTS
  Workers = {w1}
  NoWorker = NoWorker
  Tasks = {t1, t2}
  NumBuckets = 1
  TargetRounds = 2
  MaxAge = 1
  MinAge = 0
  MinUsable = 1
  StepCounts = {1}
  HeartbeatSteps = {1}
  HeartbeatSlack = 0
  Handlers = {h1, h2}
  TargetSteps = 2
  MaxFailures = 0
  MaxCrashes = 0
INVARIANTS
  CoordinatorTypeOK
  UnfinishedIsOwned
  MomentumHasEveryRoundOnce
  ClosesAreFollowedUp
PROPERTIES
  RoundsKeepMoving
CHECK_DEADLOCK FALSE

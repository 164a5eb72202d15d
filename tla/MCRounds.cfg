SPECIFICATION Spec
CONSTANTS
  Workers = {w1, w2}
  NoWorker = NoWorker
  Tasks = {t1, t2, t3}
  NumBuckets = 2
  TargetRounds = 2
  MaxAge = 1
  MinUsable = 1
  StepCounts = {1, 2, 7}
  HeartbeatSteps = {2}
  HeartbeatSlack = 0
SYMMETRY Symmetry
INVARIANTS
  TypeOK
  TasksMatchTheirRound
  AcceptedWorkIsSound
  CoverageStaysEven
  OneLeasePerWorkerPerRound
  RoundsFormAChain
PROPERTIES
  ImplementsChain
CHECK_DEADLOCK FALSE

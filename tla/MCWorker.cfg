SPECIFICATION FairSpec
CONSTANTS
  Workers = {w1}
  NoWorker = NoWorker
  Tasks = {t1}
  NumBuckets = 1
  TargetRounds = 2
  MaxAge = 1
  MinUsable = 1
  HeartbeatSlack = 0
  LocalSteps = 2
  FaultKinds = {"network", "restart", "failed close"}
  MaxFaults = 2
INVARIANTS
  TypeOK
  FaultlessWorkIsNotBehind
  NothingLeftBehind
PROPERTIES
  LeasesEnd
  StopIsHonoured
CHECK_DEADLOCK FALSE

SPECIFICATION Spec
CONSTANTS
    Workers = {1}
    TargetRounds = 2
    KeepRounds = 0
    MaxBackups = 2
    MaxDisasters = 1
INVARIANTS
    BackupsAreEnough
CHECK_DEADLOCK FALSE

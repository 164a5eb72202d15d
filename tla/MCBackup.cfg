SPECIFICATION FairSpec
CONSTANTS
    Workers = {1}
    TargetRounds = 2
    KeepRounds = 0
    MaxBackups = 1
    MaxDisasters = 2
INVARIANTS
    TypeOK
    CurrentRoundIsWhole
PROPERTIES
    CalmBackupIsExact
    RehearsalHolds
    RunMovesOn
CHECK_DEADLOCK FALSE

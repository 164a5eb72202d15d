SPECIFICATION FairSpec
CONSTANTS
    Pids = {1, 2}
    Runs <- RunsValue
    Images = {1, 2}
    NoImage = 0
    Closed = 99
    Pins = {0, 2}
    MaxEvents = 3
INVARIANTS
    TypeOK
    OnlyWorkersAreSignalled
    OneWorker
PROPERTIES
    PauseIsFinal
    IdleMachineWorks
CHECK_DEADLOCK FALSE

SPECIFICATION Spec
CONSTANTS
    Models = {1, 2, 3}
    SizeOf <- SizeOfValue
    CapSize = 3
    MaxTime = 1
    Tensors = {1, 2}
    NormFactor = 5
    Cohorts <- CohortsValue
    Plans <- PlansValue
    MicroBatches = {1, 2, 3}
    MaxDrawn = 4
    Ranks = {8, 16}
    EvalSizes = {1, 5}
    DefaultEval = 3
    Open = 0
    Classes = {0}
    Missing = 99
    Datasets <- DatasetsValue
    MaxInvocations = 2
INVARIANTS
    TypeOK
    AggregationIsFair
    ShardIsStreamed
    RunIsTrainable
PROPERTIES
    EvictionIsLru
    WorkersAreFed
CHECK_DEADLOCK FALSE

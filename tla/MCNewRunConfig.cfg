SPECIFICATION NewRunSpec
CONSTANTS
    Ranks = {8}
    EvalSizes = {1, 5}
    DefaultEval = 3
    Open = 0
    Classes = {0, 1}
    Missing = 99
    Datasets <- DatasetsValue
    MaxInvocations = 1
INVARIANTS
    ConfigIsResolved
CHECK_DEADLOCK FALSE

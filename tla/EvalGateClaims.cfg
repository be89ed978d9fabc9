SPECIFICATION GateSpec
CONSTANTS
    TaskIds = {unit, lint}
    SeedCount = 3
    Weights = {0, 1, 3}
    MaxRegression = 0
    SameFile = FALSE
    MaxRefresh = 0
    MaxChanges = 1
INVARIANTS NoTaskDropped AggregateIsGated
CHECK_DEADLOCK FALSE

SPECIFICATION GateSpec
CONSTANTS
    TaskIds = {unit, lint}
    SeedCount = 3
    Weights = {0, 1, 3}
    MaxRegression = 1
    SameFile = FALSE
    MaxRefresh = 1
    MaxChanges = 2
INVARIANTS DriftIsBounded ImprovementsPass EstimatorsCountSamples
CHECK_DEADLOCK FALSE

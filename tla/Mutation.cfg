SPECIFICATION FairSpec
CONSTANTS
    NSites = 2
    Longer = {1}
    Bytecode = TRUE
    MaxClock = 2
    MaxRuns = 2
    MaxKills = 1
INVARIANTS VerdictsAreOfTheirSecond ReportsAreMeaningful OriginalRestored
PROPERTY RunEnds
CHECK_DEADLOCK FALSE

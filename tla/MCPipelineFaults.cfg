SPECIFICATION Spec

CONSTANTS
  Main = Main
  Dev = Dev
  orch = orch
  t1 = t1
  t2 = t2
  t3 = t3
  shared = shared
  own1 = own1
  own2 = own2
  Callers = {orch}
  Touches <- TouchesShared
  Tasks <- TwoTasks
  Plans <- TwoTaskPlans
  HeadAtStart = Main
  KeepBlocked = TRUE
  CleanupMerged = TRUE
  MaxParallel = 2
  MaxRuns = 2
  MaxCrashes = 1
  MaxFaults = 2
  BadIds = {}

INVARIANT OnlyReviewedLands
INVARIANT NoCommittedWorkLost
INVARIANT ReportMatchesMain
PROPERTY ImplementsGate

CHECK_DEADLOCK FALSE

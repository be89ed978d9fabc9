SPECIFICATION Spec

CONSTANTS
  Main = Main
  Dev = Dev
  orch = orch
  t1 = t1
  t2 = t2
  t3 = t3
  shared = shared
  own1 = own1
  own2 = own2
  Callers = {orch}
  Touches <- TouchesShared
  Tasks <- TwoTasks
  Plans <- TwoTaskPlans
  HeadAtStart = Dev
  KeepBlocked = TRUE
  CleanupMerged = TRUE
  MaxParallel = 2
  MaxRuns = 1
  MaxCrashes = 0
  MaxFaults = 1
  BadIds = {}

INVARIANTS NeverHalfApplied HeadRestored NoDebris

CHECK_DEADLOCK FALSE

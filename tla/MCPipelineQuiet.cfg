SPECIFICATION Spec

CONSTANTS
  Main = Main
  Dev = Dev
  orch = orch
  t1 = t1
  t2 = t2
  t3 = t3
  shared = shared
  own1 = own1
  own2 = own2
  Callers = {orch}
  Touches <- TouchesShared
  Tasks <- TwoTasks
  Plans <- TwoTaskPlans
  HeadAtStart = Dev
  KeepBlocked = FALSE
  CleanupMerged = TRUE
  MaxParallel = 0
  MaxRuns = 2
  MaxCrashes = 0
  MaxFaults = 0
  BadIds = {}

INVARIANT HeadRestored
INVARIANT NeverHalfApplied
INVARIANT NoDebris

CHECK_DEADLOCK FALSE

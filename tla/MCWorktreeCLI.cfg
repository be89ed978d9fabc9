SPECIFICATION Spec

CONSTANTS
  Main = Main
  Dev = Dev
  t1 = t1
  t2 = t2
  t3 = t3
  shared = shared
  p1 = p1
  p2 = p2
  Callers = {p1, p2}
  Tasks = {t1, t2}
  Touches <- TouchesShared
  HeadAtStart = Dev
  BadIds = {t2}
  MaxFaults = 0
  MaxCommits = 1
  MaxLaunches = 4

SYMMETRY CallerSymmetry

INVARIANT MainTreeRestored
PROPERTY TreesHandedOnce
PROPERTY MergeLandsWhereItSays
PROPERTY DeletedOnlyOnRequest

CHECK_DEADLOCK FALSE

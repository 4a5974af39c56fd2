SPECIFICATION Spec
CONSTANTS
  c1 = c1
  c2 = c2
  t1 = t1
  t2 = t2
  Calls = {c1, c2}
  Turns = {t1}
  NoTurn = NoTurn
  MaxCrashes = 1
  MaxStops = 0
  MaxFaults = 0
INVARIANTS
  NoOrphanedRun
CHECK_DEADLOCK FALSE

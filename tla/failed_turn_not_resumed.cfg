SPECIFICATION FairSpec
CONSTANTS
  c1 = c1
  c2 = c2
  t1 = t1
  t2 = t2
  Calls = {c1, c2}
  Turns = {t1}
  NoTurn = NoTurn
  MaxCrashes = 0
  MaxStops = 0
  MaxFaults = 1
PROPERTIES
  DecidedGroupContinues
CHECK_DEADLOCK FALSE

SPECIFICATION Spec
CONSTANTS
  f1 = f1
  f2 = f2
  s1 = s1
  s2 = s2
  Messages = {f1, s1}
  Steering = {s1}
  MaxQueued = 2
  MaxTroubles = 0
INVARIANTS
  SteeredTurnHasSuccessor
CHECK_DEADLOCK FALSE

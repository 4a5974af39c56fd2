SPECIFICATION FairSpec
CONSTANTS
  f1 = f1
  f2 = f2
  s1 = s1
  s2 = s2
  Messages = {f1, f2, s1, s2}
  Steering = {s1, s2}
  MaxQueued = 2
  MaxTroubles = 2
INVARIANTS
  TypeOK
  OneUserOfContext
  SteeringIsDelivered
PROPERTIES
  KeepsMailbox
  QueueDrains
CHECK_DEADLOCK FALSE

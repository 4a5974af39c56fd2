SPECIFICATION SafetySpec
CONSTANTS
  c1 = c1
  c2 = c2
  t1 = t1
  Calls = {c1, c2}
  Turns = {t1}
  NoTurn = NoTurn
  MaxCrashes = 1
  MaxStops = 1
  MaxFaults = 1
  Asked = {o1, o2}
  MaxReviews = 1
  MaxWaiting = 1
  MaxRetries = 1
  MaxTroubles = 1
SYMMETRY CallSymmetry
INVARIANTS
  TypeOK
  AtMostOnce
  ExecutedAsDecided
  GroupActsTogether
  ReviewsAreAnswered
  BusyIsAwaiting
PROPERTIES
  VerdictsFinal
  KeepsGate
CHECK_DEADLOCK FALSE

SPECIFICATION Spec
CONSTANTS
  Tasks = {t1, t2}
  t1 = t1
  t2 = t2
  MaxRestarts = 0
  MaxFaults = 0
INVARIANTS
  TaskHearsOfItsEnd
CHECK_DEADLOCK FALSE

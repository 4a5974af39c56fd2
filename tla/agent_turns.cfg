SPECIFICATION TurnsSpec
CONSTANTS
  c1 = c1
  c2 = c2
  t1 = t1
  t2 = t2
  n1 = n1
  n2 = n2
  n3 = n3
  Calls = {c1, c2}
  Turns = {t1, t2}
  NoTurn = NoTurn
  MaxCrashes = 2
  MaxStops = 1
  MaxFaults = 1
  MaxTurns = 4
  MaxOutputs = 2
  MaxFailures = 1
  Preserve = 1
  Handlers = {r1, r2}
  Workspaces = {w1, w2}
  NoWorkspace = NoWorkspace
  MaxTalks = 2
  MaxSteps = 3
  MaxEditions = 3
  TaskLists <- OldTasks
  Skills = {n1, n2, n3}
  Packages <- Uploads
  Obstacles = {n3}
  FirstSkills = {n1}
  MaxVersions = 3
  MaxMishaps = 2
INVARIANTS
  WaiterIsWoken
  PendingIsResumable
  ConversationIsWhole
  
PROPERTIES
  TurnsGoOn
CHECK_DEADLOCK FALSE

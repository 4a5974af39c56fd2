SPECIFICATION SharedSpec
CONSTANTS
  asker1 = asker1
  asker2 = asker2
  asker3 = asker3
  tab = tab
  pub1 = pub1
  pub2 = pub2
  part = part
  job = job
  Requests = {asker1, asker2, asker3}
  HostIds = {1, 2}
  Namings <- HostNamings
  GlobalLimit = 2
  HostLimit = 1
  Pages = {tab}
  SubscriberBuffer = 1
  PostBuffer = 1
  MaxEvents = 2
  MaxLogs = 2
  MaxQueued = 1
  Tasks = {job}
  MaxRestarts = 2
  MaxFaults = 2
  Watched = {"tasks", "logs", "model_tests", "mcp_activity", "approvals", "sessions", "chat_state", "connections", "sftp_deletions", "health"}
  Items = {1, 2}
  Publishers = {pub1, pub2}
  Listeners = {part}
  Readers = {}
  Room = 1
  Window = 1
  MaxStamp = 2
  MaxVisits = 2
  MaxSockets = 1
  MaxErrors = 1
INVARIANTS
  ServiceTypes
  LimitsKept
  NothingIsSkipped
  TaskFollowsRun
  CancelReachesExecution
  StoppedIsQuiet
  PageCatchesUp
PROPERTIES
  OutcomeStays
  KeepsGate
  ServicesSettle
CHECK_DEADLOCK FALSE

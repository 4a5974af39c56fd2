SPECIFICATION FairSpec
CONSTANTS
  s1 = s1
  s2 = s2
  r1 = r1
  r2 = r2
  w1 = w1
  w2 = w2
  c1 = c1
  c2 = c2
  h1 = h1
  h2 = h2
  h3 = h3
  p1 = p1
  p2 = p2
  Shells = {s1, s2}
  OperatorShells = {s2}
  HostOf <- OneHost
  MaxActive = 2
  MaxPerHost = 1
  MaxGenerations = 2
  Persistent = {TRUE, FALSE}
  MaxBatch = 2
  MaxBacklog = 2
  MaxAttempts = 2
  MaxKept = 3
  PageBuffer = 1
  MaxSequence = 2
  MaxLife = 2
  MaxFired = 1
  Instances = {s1, s2}
  NoInstance = NoInstance
  TunnelIds = {1, 2}
  SftpRequests = {r1, r2}
  Uploads = {r1}
  Sessions = {s1, s2}
  NoSession = NoSession
  PoolLimit = 1
  Entries = {"root", "dir", "deep", "file", "low"}
  Directories = {"root", "dir", "deep"}
  Above <- DirectoriesAbove
  Top = "root"
  Removers = {w1, w2}
  Changes = {c1, c2}
  Protocols <- ProtocolPairs
  Files <- EditFiles
  OldTexts <- Blocks1
  NewTexts <- Blocks2
  Numerals <- SpelledNumbers
  MaxLinks = 2
  ToolCalls = {c1}
  MaxChanges = 2
  Hosts = {h1, h2, h3}
  NoHost = NoHost
  Target = h1
  Proxies = {p1}
  NoProxy = NoProxy
  MaxJumps = 2
  FirstJump <- JumpsAtFirst
  FirstProxy <- ProxiesAtFirst
  HostForms <- SavedForms
  Packages <- ImportedPackages
  MaxRevision = 3
  MaxRequests = 2
  Providers = {p1, p2}
  NoProvider = NoProvider
  FirstActive = p1
  Imports <- ImportedModels
  Clients = {c1, c2}
  MaxWrites = 3
INVARIANTS
  TypeOK
  ConnectionsAreOwned
  ShellHistoryIsWhole
  TunnelsAreTrue
  SessionsAreLeased
  DeletionIsOrderly
  ChangesKeepTheRest
  SavedIsServed
  ApprovedConnectionOnly
  ReferencesResolve
PROPERTIES
  EndedRowsStay
  ConnectionsEnd
CHECK_DEADLOCK FALSE

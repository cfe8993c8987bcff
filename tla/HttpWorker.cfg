CONSTANTS
  c1 = c1
  c2 = c2
  f1 = f1
  Clients = {c1, c2}
  Failures = {f1}
  Threads = 2
  MaxFds = 2
  MaxPreloads = 2
  Routes <- MCRoutes
  Files <- MCFiles
  Empty <- MCEmpty
  Preloads <- MCFiles
  Requests <- MCRequests
  Talks <- MCTalks
  NoRoute = NoRoute
  Nothing = Nothing
  AFile = AFile
  BadRequest = BadRequest
  Silence = Silence
SPECIFICATION FairSpec
INVARIANTS
  TypeOK
  OwnDescriptor
  LockLeftByPreload
  
PROPERTIES
  NotFoundMeansMissing
  RefinesExchange
  RequestsSettle
CHECK_DEADLOCK FALSE

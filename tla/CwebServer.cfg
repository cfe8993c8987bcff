CONSTANTS
  c1 = c1
  c2 = c2
  c3 = c3
  Clients = {c1, c2, c3}
  f1 = f1
  Failures = {f1}
  Threads = 2
  NoConn = NoConn
SPECIFICATION FairSpec
INVARIANTS
  TypeOK
  StopSticks
  LateConnectionsClosed
  ListeningServerEndsCleanly
PROPERTIES
  AddOnlyToLivePool
  StopIsObeyed
CHECK_DEADLOCK FALSE

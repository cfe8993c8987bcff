CONSTANTS
  c1 = c1
  Clients = {c1}
  Failures = {}
  Threads = 1
  NoConn = NoConn
SPECIFICATION FairSpec
PROPERTY SigintStopsServer
CHECK_DEADLOCK FALSE

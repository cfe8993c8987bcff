CONSTANTS
  a1 = a1
  a2 = a2
  r1 = r1
  r2 = r2
  Awaiters = {a1, a2}
  Results = {r1, r2}
  NULL = NULL
SPECIFICATION FairSpec
INVARIANTS
  TypeOK
  AwaitReturnsResult
PROPERTIES
  PublishedIsFinal
  SomeAwaiterReturns
CHECK_DEADLOCK FALSE

CONSTANTS
  w1 = w1
  w2 = w2
  j1 = j1
  j2 = j2
  Workers = {w1, w2}
  Jobs = {j1, j2}
  NoJob = NoJob
  Nobody = Nobody
  Destroyed = Destroyed
SPECIFICATION FairSpec
PROPERTIES
  JobsSettle
  DestroyReturns
CHECK_DEADLOCK FALSE

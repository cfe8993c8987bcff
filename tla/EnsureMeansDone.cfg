CONSTANTS
  w1 = w1
  j1 = j1
  Workers = {w1}
  Jobs = {j1}
  NoJob = NoJob
  Nobody = Nobody
  Destroyed = Destroyed
SPECIFICATION Spec
INVARIANT EnsureMeansDone
CHECK_DEADLOCK FALSE

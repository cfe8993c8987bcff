CONSTANTS
  w1 = w1
  w2 = w2
  w3 = w3
  j1 = j1
  j2 = j2
  j3 = j3
  Workers = {w1, w2, w3}
  Jobs = {j1, j2, j3}
  NoJob = NoJob
  Nobody = Nobody
  Destroyed = Destroyed
SPECIFICATION Spec
SYMMETRY Symmetry
INVARIANTS
  TypeOK
  MutexDiscipline
  CancelledHoldsNoJob
  NoIdleWhilePending
  EnsureStarted
PROPERTY RefinesJobPool
CHECK_DEADLOCK FALSE

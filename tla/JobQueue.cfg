CONSTANTS
  j1 = j1
  j2 = j2
  j3 = j3
  j4 = j4
  Jobs = {j1, j2, j3, j4}
  NULL = NULL
SPECIFICATION Spec
INVARIANTS
  TypeOK
  ListShape
  WalkFollowsList
PROPERTY RefinesFifo
CHECK_DEADLOCK FALSE

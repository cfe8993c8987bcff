CONSTANTS
  a1 = a1
  r1 = r1
  Awaiters = {a1}
  Results = {r1}
  NULL = NULL
SPECIFICATION Spec
INVARIANT NoReadAfterDestroy
CHECK_DEADLOCK FALSE

CONSTANTS
  Threads = {t1, t2, t3, t4}
  NULL = NULL
SPECIFICATION Spec
CHECK_DEADLOCK FALSE
INVARIANT WalkIsSafe

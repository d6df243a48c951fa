CONSTANTS
  Threads = {t1, t2, t3}
  NULL = NULL
  Lengths = {0, 1, 2}
  InitialSize = 1
  Scale = 2
  MAX_REF = 4
  MaxIdx = 3
  MaxQueries = 1
SPECIFICATION Spec
CHECK_DEADLOCK FALSE
INVARIANT QueriesInBounds

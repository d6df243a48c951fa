CONSTANTS
  Threads = {t1, t2, t3}
  NULL = NULL
  Padding <- AnyPadding
SPECIFICATION FairSpec
INVARIANTS
  TypeOK
  CountExact
  ExclusiveUnlessLateOrGarbled
PROPERTIES
  GrantedInOrder
  EveryCallReturns
CHECK_DEADLOCK FALSE

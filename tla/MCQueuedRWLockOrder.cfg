CONSTANTS
  Threads = {t1, t2, t3}
  NULL = NULL
  Padding <- AnyPadding
SPECIFICATION Spec
PROPERTY FairOrder
CHECK_DEADLOCK FALSE

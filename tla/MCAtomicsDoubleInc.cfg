CONSTANTS
  AtomicThreads = {t1}
  Modulus = 4
  Args = {1}
  Uses <- DoubleInc
SPECIFICATION AtomicSpec
CHECK_DEADLOCK FALSE
PROPERTY IsAsCommented

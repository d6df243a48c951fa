CONSTANTS
  AtomicThreads = {t1}
  Modulus = 4
  Args = {1}
  Uses <- DecRetLast
SPECIFICATION AtomicSpec
CHECK_DEADLOCK FALSE
PROPERTY IsAsCommented

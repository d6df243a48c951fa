CONSTANTS
  Threads = {t1, t2, t3}
  NULL = NULL
  Padding <- ZeroPadding
SPECIFICATION Spec
INVARIANT AssertHolds

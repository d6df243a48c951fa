CONSTANTS
  SemThreads = {s1, s2, s3}
  MaxValue = 2
  BarThreads = {b1, b2, b3}
  Nobody = Nobody
  BarSizes = {2, 3}
  Threads = {t1, t2}
  Callers = {c1, c2}
  Ncpus = 2
  AskedCpus = {}
  MaxCounter = 3
  Owner = c1
  Sizes = {1, 2}
  Affinities = {FALSE}
  VirtualIds = {7}
  MaxTasks = 2
  MaxRestarts = 1
SPECIFICATION FairSpec
INVARIANTS
  TypeOK
  NoPostLost
  NobodyPassesEarly
  GroupIdsDistinct
  WorkersAsConfigured
PROPERTIES
  WaitersReleased
  JoinWaitsForAll
  JoinersGetOut
  PoolCallsEnd
  IsTaskPool

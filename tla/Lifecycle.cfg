CONSTANTS
  Workers = {w1, w2}
  WaitLimit = 3
SPECIFICATION FairSpec
INVARIANTS
  TypeOK
  CountIsThreads
  LoggerIsCounted
  ThreadsAreGone
PROPERTIES
  StartsUp
  ShutdownEnds
CHECK_DEADLOCK FALSE

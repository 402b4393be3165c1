CONSTANTS
  Workers = {w1, w2}
  WaitLimit = 3
SPECIFICATION Spec
INVARIANT NoThreadIsMissed
CHECK_DEADLOCK FALSE

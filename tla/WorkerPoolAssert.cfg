CONSTANTS
  ThreadC = 1
  Workers = {w1, w2}
  Events = {e1, e2}
  NoEvent = NoEvent
  SqeCap = 1
  IdleLimit = 1
SPECIFICATION Spec
INVARIANT NoAssertFailure

CONSTANTS
  Workers = {w1, w2}
  WaitLimit = 3
SPECIFICATION FairSpec
PROPERTY HandshakeEnds
CHECK_DEADLOCK FALSE

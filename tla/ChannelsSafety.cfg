CONSTANTS
  ThreadC = 2
  MapSize = 3
  BufSize = 1
  MaxEvents = 2
  Fds = {f1, f2}
  TcpFd = TcpFd
  NoFd = NoFd
  Conns = {c1, c2, c3}
  NoConn = NoConn
  Lengths = {0}
  MaxSent = 1
SPECIFICATION Spec
SYMMETRY Symmetry
INVARIANTS
  TypeOK
  FdsAreChannels
  NothingLeftOpen
  ChannelsConserved
  BatchIsFresh

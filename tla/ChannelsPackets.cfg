CONSTANTS
  ThreadC = 1
  MapSize = 3
  BufSize = 2
  MaxEvents = 2
  Fds = {f1}
  TcpFd = TcpFd
  NoFd = NoFd
  Conns = {c1, c2}
  NoConn = NoConn
  Lengths = {0, 2, 3}
  MaxSent = 5
SPECIFICATION Spec
SYMMETRY Symmetry
INVARIANTS
  OwnBytes
  RoomForRest
  WholePackets

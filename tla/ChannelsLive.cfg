CONSTANTS
  ThreadC = 2
  MapSize = 3
  BufSize = 1
  MaxEvents = 3
  Fds = {f1, f2}
  TcpFd = TcpFd
  NoFd = NoFd
  Conns = {c1, c2}
  NoConn = NoConn
  Lengths = {0}
  MaxSent = 2
SPECIFICATION StreamSpec
PROPERTIES
  ChannelsAreFreed
  PacketsAreTaken

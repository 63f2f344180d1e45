SPECIFICATION FairSpec
CONSTANTS
  Conns = {c1, c2, c3}
  NoConn = NoConn
  Fds = {f1, f2}
  NoFd = NoFd
  Listen = Listen
  Writers = {c1}
  MAX_HALVES = 1
PROPERTIES
  Accepted
  EndedClosed
CHECK_DEADLOCK FALSE

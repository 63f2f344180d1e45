SPECIFICATION Spec
CONSTANTS
  Conns = {c1, c2, c3}
  NoConn = NoConn
  Fds = {f1, f2}
  NoFd = NoFd
  Listen = Listen
  Writers = {}
  MAX_HALVES = 0
SYMMETRY Same
INVARIANT OldSocketOnly
CHECK_DEADLOCK FALSE

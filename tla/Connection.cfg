SPECIFICATION Spec
CONSTANTS
  Conns = {c1, c2, c3}
  NoConn = NoConn
  Fds = {f1, f2}
  NoFd = NoFd
  Listen = Listen
  Writers = {c1, c2, c3}
  MAX_HALVES = 3
SYMMETRY Same
INVARIANTS
  TypeOK
  CommandWhole
  ServedConsistent
CHECK_DEADLOCK FALSE

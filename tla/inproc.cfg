\* Three threads, four sockets: a listener, a connection and one more.
CONSTANTS
  Threads = {t1, t2, t3}
  Socks = {a, b, c, d}
  None = None
  MaxRcv = 1
SPECIFICATION Spec
SYMMETRY Perms
CHECK_DEADLOCK FALSE
INVARIANTS
  NoDangling
  RefsExact
  NoOrphan
  SleepJustified
  ListenerVisible

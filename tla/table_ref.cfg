\* A thread that calls with a descriptor while another drops its last reference.
CONSTANTS
  Threads = {t1, t2}
  Socks = {a, b}
  NoSock = NoSock
  MaxFd = 2
SPECIFICATION Spec
CHECK_DEADLOCK FALSE
INVARIANTS
  XgetFindsRef

\* Two threads, a poll and two sockets, memory for three entries.  An application
\* asks for XPOLLOUT or for both; a socket becomes readable, then writable.
CONSTANTS
  in = in
  out = out
  Threads = {t1, t2}
  Socks = {a, b}
  Entries = {x, y, z}
  None = None
  Events <- Both
  Asks <- MCAsks
  Finds <- MCFinds
SPECIFICATION Spec
SYMMETRY Perms
CHECK_DEADLOCK FALSE
INVARIANTS
  RefsCounted
  ReadinessExact
  SleepersQuiet

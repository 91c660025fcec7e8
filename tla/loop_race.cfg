\* The descriptor of an accepted connection is added by another thread than its loop's.
CONSTANTS
  NLoops = 2
  Users = {u1, u2}
  Fds = {f, x}
  Listening = {x}
  Accepted = {n}
  Gtasks = {g}
  MaxEvents = 2
  MaxOps = 3
  Backends = {"epoll", "select"}
  None = None
SPECIFICATION Spec
CHECK_DEADLOCK FALSE
INVARIANTS
  LoadExact

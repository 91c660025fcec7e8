\* Two loops, a listening descriptor and another one, two users.
CONSTANTS
  NLoops = 2
  Users = {u1, u2}
  Fds = {f, x}
  Listening = {x}
  Accepted = {n}
  Gtasks = {g}
  MaxEvents = 2
  MaxOps = 3
  Backends = {"epoll", "select"}
  None = None
SPECIFICATION Spec
CHECK_DEADLOCK FALSE
INVARIANTS
  TasksLive
  LoopsUp
PROPERTIES
  CtlReturns
  ExitCompletes

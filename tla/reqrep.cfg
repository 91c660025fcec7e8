\* Two clients, two proxies in a chain, a server.
CONSTANTS
  a = a  b = b  px = px  py = py  sv = sv
  a1 = a1  a2 = a2  b1 = b1  p1 = p1  q1 = q1
  Clients = {a, b}
  Proxies = {px, py}
  Servers = {sv}
  Links = {a1, a2, b1, p1, q1}
  Src <- MCSrc
  Dst <- MCDst
  Reqs = {1, 2}
  None = None
  TtlMod = 4
  MaxBreaks = 1
SPECIFICATION Spec
CHECK_DEADLOCK FALSE
INVARIANTS
  RouteSound
PROPERTIES
  AnswersCorrect
  AllAnswered

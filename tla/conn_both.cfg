\* Two senders, a receiver and a close; every window and buffer at its limit.
CONSTANTS
  m1 = m1  m2 = m2  m3 = m3  p1 = p1  p2 = p2  p3 = p3
  Senders = {s1, s2}
  Receivers = {r1}
  Closers = {c1}
  Out = {m1, m2}
  In = {p1}
  Usize <- MCUsize
  SndWnd = 1
  RcvWnd = 1
  WireCap = 1
  NonBlock = FALSE
SPECIFICATION Spec
SYMMETRY Perms
INVARIANTS
  NoStrandedSend
  NoLostWakeup
  SignalsReadable
  ReadMatchesWindow
  TeardownAlone
  StreamIntact

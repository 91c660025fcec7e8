\* Two senders or a receiver, and a close, under a fair loop.
CONSTANTS
  u1 = u1  u2 = u2  c1 = c1
  m1 = m1  m2 = m2  p1 = p1  p2 = p2
SPECIFICATION FairSpec
PROPERTIES
  SendProgress
  SendersReturn
  RecvProgress
  CloseCompletes

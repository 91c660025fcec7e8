\* Three threads and three sockets over two descriptors: descriptors are reused,
\* and the table is full at times.  A failed BUG_ON stops the process.
CONSTANTS
  Threads = {t1, t2, t3}
  Socks = {a, b, c}
  NoSock = NoSock
  MaxFd = 2
SPECIFICATION FairSpec
CHECK_DEADLOCK FALSE
INVARIANTS
  StackSound
  HeldStays
  FreedAlone
PROPERTIES
  DescriptorsComeBack

\* A stream child and an in-process one; three connections.
CONSTANTS
  Children = 2
  Stream = {1}
  Conns = {x, y, z}

\* Three sockets and two descriptors, so that they run out.
  Socks = {1, 2, 3}
  Fds = {3, 4}
  Hosts = {"h1", "h2"}
  Resolve <- MCResolve
  Paths = {"p"}
  MaxCrashes = 1
  MaxBacklog = 1

\* A descriptor of each transport, one of them a listener, and a closed one.
  Descs = {"sio", "inproc", "mix", "none"}
  Class <- MCClass
  Listens = {"mix"}
  Values <- MCValues
  HZ = 300
  MaxSets = 2

\* Two lists and three entries, so that what follows an entry is not always a head.
  Entries = {"e1", "e2", "e3"}
  Heads = {"h1", "h2"}
  Poison = Poison

\* The rest is given in the module.
  Nil = Nil
INIT Init
NEXT Next
CHECK_DEADLOCK FALSE
INVARIANTS
  MixSound
  DescriptorsSound
  GetIsSet
  ListsSound
  MapsSound
  BalanceSound
  ReadAsMeant

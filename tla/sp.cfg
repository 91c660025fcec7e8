\* Two threads, a listener and two connectors, under each of the protocols.
CONSTANTS
  Threads = {t1, t2}
  Listeners = {l}
  Connectors = {c1, c2}
  None = None
  Kinds = {"bus", "pub", "sub", "req", "rep"}
  MaxBatch = 2
  MaxEvents = 2
SPECIFICATION Spec
SYMMETRY Perms
CHECK_DEADLOCK FALSE
INVARIANTS
  TargetsSound
  NoStranded
  RefsExact
  SleepJustified

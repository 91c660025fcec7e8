\* Two poll results of one batch, and an sp_rm between them.
CONSTANTS
  Threads = {t1, t2}
  Listeners = {l}
  Connectors = {c1, c2}
  None = None
  Kinds = {"bus"}
  MaxBatch = 2
  MaxEvents = 1
SPECIFICATION Spec
SYMMETRY Perms
CHECK_DEADLOCK FALSE
INVARIANTS
  EventTargetLive

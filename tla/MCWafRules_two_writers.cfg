SPECIFICATION Spec
CONSTANTS
  Node = {a, b}
  Lossy = FALSE
  Writers = {a, b}
  Worker = {w1, w2}
  Subscriber = Subscriber
  Sync = Sync
  Pattern = {p, q}
  Invalid = {}
  Configs <- NoConfig
  MaxId = 2
  MaxReloads <- NoReload
  Restartable = {}
  MaxRestarts = 0
  Removes = FALSE
  None = None
SYMMETRY Symmetry
INVARIANT
  Coherent
CHECK_DEADLOCK FALSE

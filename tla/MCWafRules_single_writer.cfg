SPECIFICATION Spec
CONSTANTS
  Node = {a, b}
  Lossy = TRUE
  Writers = {a}
  Worker = {w1, w2}
  Subscriber = Subscriber
  Sync = Sync
  Pattern = {p, q, bad}
  Invalid = {bad}
  Configs <- WritersConfig
  MaxId = 2
  MaxReloads <- WritersReload
  Restartable = {b}
  MaxRestarts = 1
  Removes = TRUE
  None = None
SYMMETRY Symmetry
INVARIANT
  Coherent
CHECK_DEADLOCK FALSE

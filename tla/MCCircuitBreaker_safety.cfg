SPECIFICATION Spec
CONSTANTS
  Request = {r1, r2, r3}
  Upstreams = 2
  Strategy = "least-connections"
  Configs <- TwoConfigs
  None = None
  U32Max = 3
  Horizon = 1
  CacheHits = TRUE
  MaxLeaked = 2
SYMMETRY Symmetry
INVARIANTS
  TypeOK
  HerdBound
  BusyIsCounted
PROPERTY
  RecoveryIsEarned

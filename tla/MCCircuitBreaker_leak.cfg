SPECIFICATION Spec
CONSTANTS
  Request = {r1, r2}
  Upstreams = 1
  Strategy = "random"
  Configs <- SingleProbe
  None = None
  U32Max = 3
  Horizon = 1
  CacheHits = TRUE
  MaxLeaked = 0
SYMMETRY Symmetry
INVARIANT
  ProbesCounted

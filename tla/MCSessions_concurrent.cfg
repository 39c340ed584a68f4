SPECIFICATION ProcessSpec
CONSTANTS
  User = {u1}
  Token = {t1, t2}
  Ip = {ip1, ip2}
  NoIp = NoIp
  Actor = {a1, a2}
  None = None
  MaxSessions = 1
  TTL = 0
  PersistEvery = 0
  StorageFaults = TRUE
  MaxTime = 1
  MaxRestarts = 0
SYMMETRY Symmetry
INVARIANT
  IndexBacked
PROPERTY
  ImplementsLifecycle

SPECIFICATION Spec
CONSTANTS
  User = {u1}
  Token = {t1, t2, t3}
  Ip = {ip1, ip2}
  NoIp = NoIp
  Actor = {a1}
  None = None
  MaxSessions = 2
  TTL = 1
  PersistEvery = 1
  StorageFaults = FALSE
  MaxTime = 3
  MaxRestarts = 1
SYMMETRY Symmetry
INVARIANTS
  TypeOK
  WithinLimit
  LogoutIsFinal
  ForceLogoutIsComplete

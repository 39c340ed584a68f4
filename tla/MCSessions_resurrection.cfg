SPECIFICATION Spec
CONSTANTS
  User = {u1}
  Token = {t1, t2}
  Ip = {ip1, ip2}
  NoIp = NoIp
  Actor = {a1, a2}
  None = None
  MaxSessions = 2
  TTL = 1
  PersistEvery = 0
  StorageFaults = FALSE
  MaxTime = 0
  MaxRestarts = 1
SYMMETRY Symmetry
INVARIANT
  LogoutIsFinal

SPECIFICATION Spec
CONSTANTS
  User = {u1}
  Email = {e1, e2}
  Normal <- AsTyped
  Role = {viewer}
  Token = {t1, t2}
  Actor = {a1, a2}
  None = None
  MaxFailed = 2
  Window = 1
  MaxEntries = 2
  MaxTime = 2
  MaxRestarts = 1
SYMMETRY Symmetry
INVARIANTS
  TypeOK
  LockoutOvershoot
  RestartLosesNothing
  OnlyLateLogins

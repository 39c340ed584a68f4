SPECIFICATION RegistrySpec
CONSTANTS
  Id = {1, 2}
  Prefix = {"p", "q"}
  Name = {"n"}
  Caller = {"operator"}
  ConfigServices <- OneConfigured
  Flush = 2
  MaxRequests = 1
  MaxRestarts = 1
  Extras = FALSE
  StorageFaults = FALSE
  None = None
INVARIANT
  UnregisterSticks
CHECK_DEADLOCK FALSE

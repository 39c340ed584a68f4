SPECIFICATION Spec
CONSTANT
  None = None
PROPERTIES
  Recovers
  Propagates
  EveryJobRuns
CHECK_DEADLOCK FALSE

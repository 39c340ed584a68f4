SPECIFICATION Spec
CONSTANTS
  A = {a1, a2}
  B = {b1, b2}
  None = None
SYMMETRY Symmetry
INVARIANTS
  PlatformTypeOK
  OnePerPrefix
  Durable
  GoneForGood
  OneIncidentPerFailure
  IncidentsFollowStatus
  SchedulerRemembers
  OutcomeMatchesSteps
  BurstBound
  KeyIsProved
  CacheIsCurrent
  SentOnce
  LimitsHold
  AnswersAreRecent
  AccessIsCurrent
  SettingsAreCurrent
  RolloutHolds
  RulesMean
  NotifyHolds
  RecordsAreComplete
  CustomRulesHold
  AccountsHold
CHECK_DEADLOCK FALSE

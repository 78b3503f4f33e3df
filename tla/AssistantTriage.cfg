SPECIFICATION FairSpec
CONSTANTS
  Settings = {0, Unset}
  Unset = Unset
  DefaultRetries = 2
  StoreTypes = {"redis", "memory"}
  Budget = 2
  Slow = 1
  Scenarios <- SmallScenarios
  Machine = {m1, m2}
  m1 = m1
  m2 = m2
  None = None
  TriageLimit = 2
  DefaultLimit = 3
  MostLimit = 4
  MaxAlerts = 3
CHECK_DEADLOCK FALSE
INVARIANT TypeOK
INVARIANT HealthTruthful
INVARIANT AskedAlertShown
INVARIANT FailureSurfaces
PROPERTY EventuallyServes
PROPERTY TriageAnswered

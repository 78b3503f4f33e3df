SPECIFICATION Spec
CONSTANTS
  Machine = {m1}
  Partition = {p1}
  Worker = {w1}
  Handler = {h1, h2}
  m1 = m1
  p1 = p1
  w1 = w1
  h1 = h1
  h2 = h2
  None = None
  IngestModes = {"kafka"}
  Faults = {"publish", "vm", "server"}
  MaxSamples = 3
  MaxCrashes = 1
  Server = server
  Redis = Redis
  AlertTriggerCount = 2
  Cooldown = 1
  CountTTL = 9
  AlertStoreType = "redis"
  MaxTime = 1
  AlertFaults = {}
SYMMETRY Symmetry
VIEW View
INVARIANT TypeOK
INVARIANT EvaluatedSerially
INVARIANT EvaluatedAtMostOnce
INVARIANT AlertSpansNoNormalSample
INVARIANT OneRecoveryPerStreak
INVARIANT AcceptedBreachNotified

SPECIFICATION Spec
CONSTANTS
  Machine = {m1}
  Replica = {r1}
  Handler = {h1}
  m1 = m1
  r1 = r1
  h1 = h1
  Redis = Redis
  None = None
  AlertTriggerCount = 2
  Cooldown = 2
  CountTTL = 9
  AlertStoreType = "redis"
  Faults = {"redis"}
  Overlap = FALSE
  MaxSamples = 5
  MaxTime = 3
  MaxCrashes = 0
INVARIANT AlertMeansConsecutive

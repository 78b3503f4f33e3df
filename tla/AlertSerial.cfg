SPECIFICATION FairSpec
CONSTANTS
  Machine = {m1}
  Replica = {r1,r2}
  Handler = {h1,h2}
  m1 = m1
  r1 = r1
  r2 = r2
  h1 = h1
  h2 = h2
  Redis = Redis
  None = None
  AlertTriggerCount = 2
  Cooldown = 2
  CountTTL = 9
  AlertStoreType = "redis"
  Faults = {"webhook", "db"}
  Overlap = FALSE
  MaxSamples = 6
  MaxTime = 3
  MaxCrashes = 0
INVARIANT TypeOK
INVARIANT AlertMeansConsecutive
INVARIANT RecoveryReportsStreak
INVARIANT AlertClosedByRecovery
PROPERTY SustainedBreachNotified

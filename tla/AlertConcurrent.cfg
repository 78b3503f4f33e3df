SPECIFICATION Spec
CONSTANTS
  Machine = {m1}
  Replica = {r1,r2}
  Handler = {h1,h2}
  m1 = m1
  r1 = r1
  r2 = r2
  h1 = h1
  h2 = h2
  Redis = Redis
  None = None
  AlertTriggerCount = 2
  Cooldown = 2
  CountTTL = 2
  AlertStoreType = "redis"
  Faults = {"redis", "webhook", "db", "crash"}
  Overlap = TRUE
  MaxSamples = 4
  MaxTime = 3
  MaxCrashes = 1
SYMMETRY Symmetry
INVARIANT P0RateBounded
INVARIANT CooldownAccounts
INVARIANT P0AuditAgrees
INVARIANT P0CounterAgrees

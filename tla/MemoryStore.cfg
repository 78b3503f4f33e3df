SPECIFICATION Spec
CONSTANTS
  Client = {c1, c2, c3}
  Machine = {m1}
  c1 = c1
  c2 = c2
  c3 = c3
  m1 = m1
  None = None
  Cooldown = 1
  MaxCalls = 4
  MaxTime = 3
INVARIANT TypeOK
INVARIANT LoadedIsCurrent
PROPERTY ImplementsAlertStore

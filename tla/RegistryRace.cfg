SPECIFICATION Spec
CONSTANTS
  Machine <- OneMachine
  Handler = {h1, h2}
  m1 = m1
  h1 = h1
  h2 = h2
  None = None
  Faults = {"timeout"}
  FirstAttempts = 5
  MaxRestarts = 0
  MaxFaults = 1
INVARIANT RegisteringAgainSucceeds

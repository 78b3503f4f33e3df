SPECIFICATION FairSpec
CONSTANTS
  Machine <- OneMachine
  Handler = {h1, h2, h3}
  m1 = m1
  h1 = h1
  h2 = h2
  h3 = h3
  None = None
  Faults <- AnyFault
  FirstAttempts = 3
  MaxRestarts = 1
  MaxFaults = 3
INVARIANT TypeOK
INVARIANT RowIsCurrent
PROPERTY ReportsRegardless
PROPERTY EventuallyRegistered
PROPERTY ImplementsRegister

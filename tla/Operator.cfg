SPECIFICATION FairSpec
CONSTANTS
  Operator = {op1, op2}
  op1 = op1
  op2 = op2
  Specs <- SmallSpecs
  Image = {i1, i2}
  i1 = i1
  i2 = i2
  Blank = Blank
  Absent = Absent
  Missing = {"cloudops-worker"}
  MaxEdits = 1
  MaxFaults = 1
INVARIANT TypeOK
INVARIANT ReadyMeansApplied
INVARIANT NoLostUpdate
PROPERTY Converges

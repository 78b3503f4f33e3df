SPECIFICATION FairSpec
CONSTANTS
  Machine = {m1}
  Partition = {p1, p2}
  p2 = p2
  Worker = {w1, w2}
  Handler = {h1}
  m1 = m1
  p1 = p1
  w1 = w1
  w2 = w2
  h1 = h1
  None = None
  IngestModes = {"kafka"}
  Faults = {"worker", "server"}
  MaxSamples = 2
  MaxCrashes = 1
PROPERTY TopicDrained

SPECIFICATION Spec
CONSTANTS
  Machine = {m1}
  Partition = {p1}
  Worker = {w1, w2}
  Handler = {h1, h2}
  m1 = m1
  p1 = p1
  w1 = w1
  w2 = w2
  h1 = h1
  h2 = h2
  None = None
  IngestModes = {"direct", "kafka"}
  Faults = {"timeout", "worker", "commit", "server", "vm"}
  MaxSamples = 2
  MaxCrashes = 1
SYMMETRY Symmetry
INVARIANT TypeOK
INVARIANT LossAccounted
INVARIANT FunnelAgrees

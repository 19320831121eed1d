SPECIFICATION FairSpec
CONSTANTS
  a1 = a1
  a2 = a2
  a3 = a3
  b1 = b1
  x1 = x1
  h1 = h1
  Chunks <- MCChunks
  DocOf <- MCDocOf
  DocOrder <- MCOrder
  Collections <- MCCollections
  Protected <- MCProtected
  ArchiveCount = 1
  NoChunks = NoChunks
  Operators = {p1, p2}
  Corpora <- NewCorpus
  Targets <- LiveTargets
  InitialStores <- MCStores
  BatchSize = 2
  MaxRuns = 3
  MaxFaults = 2
INVARIANTS
  PassMeansExact
PROPERTIES
  ReplacesDocuments
  RerunConverges
CHECK_DEADLOCK FALSE

SPECIFICATION Spec
CONSTANTS
  a1 = a1
  a2 = a2
  a3 = a3
  b1 = b1
  x1 = x1
  h1 = h1
  Chunks <- MCChunks
  DocOf <- MCDocOf
  DocOrder <- MCOrder
  Collections <- MCCollections
  Protected <- MCProtected
  ArchiveCount = 1
  NoChunks = NoChunks
  Operators = {p1}
  Corpora <- MCCorpora
  Targets <- MCTargets
  InitialStores <- MCStores
  BatchSize = 1
  MaxRuns = 3
  MaxFaults = 2
PROPERTIES
  ArchivesUntouched
  SurvivorsStayVisible
CHECK_DEADLOCK FALSE

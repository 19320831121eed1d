SPECIFICATION FairSpec
CONSTANTS
  i1 = i1
  i2 = i2
  i3 = i3
  Dataset <- MCDataset
  Selections <- FullOnly
  Evaluators = {e1}
  Frozen = {f1}
  TopKs = {5}
  GateMinimum = 2
  NoFile = NoFile
  MaxRuns = 4
  MaxFaults = 3
PROPERTIES
  ResumeConverges
CHECK_DEADLOCK FALSE

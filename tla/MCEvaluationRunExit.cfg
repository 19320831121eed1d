SPECIFICATION Spec
CONSTANTS
  i1 = i1
  i2 = i2
  i3 = i3
  Dataset <- MCDataset
  Selections <- MCSelections
  Evaluators = {e1}
  Frozen = {f1}
  TopKs = {5}
  GateMinimum = 2
  NoFile = NoFile
  MaxRuns = 1
  MaxFaults = 0
INVARIANTS
  GatesAreOnlySourceOfExit
CHECK_DEADLOCK FALSE

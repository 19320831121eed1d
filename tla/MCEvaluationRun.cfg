SPECIFICATION Spec
CONSTANTS
  i1 = i1
  i2 = i2
  i3 = i3
  Dataset <- MCDataset
  Selections <- MCSelections
  Evaluators = {e1, e2}
  Frozen = {f1, f2}
  TopKs = {3, 5}
  GateMinimum = 2
  NoFile = NoFile
  MaxRuns = 3
  MaxFaults = 2
SYMMETRY Symmetry
INVARIANTS
  ArtifactsAreOneRun
  UnsavedWorkIsOneItem
PROPERTIES
  CheckpointOnlyGrows
CHECK_DEADLOCK FALSE

SPECIFICATION IngestSpec
CONSTANTS
  a = a
  a2 = a2
  b = b
  none = none
  Manuals <- MCManuals
  Canonical <- MCCanonical
  Blank = none
  BatchSizes = {1, 2, 3}
  MaxRuns = 2
INVARIANTS
  IdsAreUnique
  OutputIsWhole
CHECK_DEADLOCK FALSE

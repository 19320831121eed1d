SPECIFICATION LifeSpec
CONSTANTS
  Truths = {1, 2}
  Corpora = {c1, c2}
  Generated = 1
  Corrected <- MCCorrected
  Absent = Absent
  Torn = Torn
  MaxCommands = 7
  MaxEdits = 2
INVARIANTS
  EvaluatedIsApproved
PROPERTIES
  FreezeKeepsPins
CHECK_DEADLOCK FALSE

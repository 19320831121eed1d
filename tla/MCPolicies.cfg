SPECIFICATION Spec
CONSTANTS
  Chunks = {1, 2, 3, 4, 5}
  DocOf <- MCDocOf
  RoleOf <- MCRoleOf
  Content <- MCContent
  DenseLimit = 2
  SparseLimit = 3
  RrfK = 2
  DenseWeight <- One
  SparseWeight <- Quarter5
  FusionBoost <- Tenth11
  DenseReserve = 1
  SparseReserve = 3
  MaxCandidates = 4
  RoleWeight <- Half
  RankOffset = 2
  Kept = 1
  WindowEnd = 3
  ListOffset = 20
  Scores = {1, 2}
  Features = {0, 1}
  MaxSources = 4
  Lengths = {0, 1, 3, 4, 7}
  HeaderLengths = {1, 2}
  Limits = {0, 5, 9, 12, 16, 17}
  MarkerLength = 2
  Separator = 1
INVARIANTS
  ReservesSurvive
  FusionIsMonotone
  RankingIsPool
  DeduplicationKeepsHits
  RoleOnlyPromotes
  ContextIsFilled
  CutsAreEven
CHECK_DEADLOCK FALSE

SPECIFICATION Spec
CONSTANTS
  wire = wire
  wired = wired
  unit = unit
  not = not
  only = only
  don = don
  t = t
  Inflections <- MCInflections
  Negations = {not}
  SplitNegations <- MCSplit
  Exceptions <- MCExceptions
  NegationWindow = 1
  Facts <- MCFacts
  Answers <- MCAnswers
  Answerable <- MCAnswerable
  Ranks = {0, 1, 2}
  TopRanked = 2
  TopFinal = 1
  RecallGate <- ThreeQuarters
  FactGate <- TwoThirds
  PrecisionGate <- TwoThirds
  AbstentionGate <- Half
  Judged = {FALSE, TRUE}
  MaxFailures = 1
  short = short
  Contents = {old, new, short}
  NoContent = NoContent
  RowsOf <- MCRowsOf
  Rows = {1, 2, 3}
  Folds <- MCFolds
  English = {1, 2}
  Profiles = {1, 2}
  NameRank <- MCNameRank
  Pools <- MCPools
  Outcomes <- MCOutcomes
  TopK = 2
  Scale = 60
  StableVotes = 2
  MaxCandidates = 2
  RequiredRow = 3
  HitGate <- TwoThirds
  VietnameseGate <- Half
  ReciprocalGate <- ThreeQuarters
  WrongGate <- Third
  LanguageWrongGate <- Half
INVARIANTS
  StatementCounts
  DenialNeverCounts
  PassIsEarned
  BetterNeverFails
  MeansCoverAnswers
  ReleaseIsEarned
CHECK_DEADLOCK FALSE

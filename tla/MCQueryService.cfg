SPECIFICATION Spec
CONSTANTS
  c1 = c1
  c2 = c2
  c3 = c3
  c4 = c4
  c5 = c5
  d1 = d1
  d2 = d2
  NoDoc = none
  none = none
  Chunks <- MCChunks
  Docs <- MCDocs
  DocOf <- MCDocOf
  ContentOf <- MCContentOf
  RoleOf <- MCRoleOf
  Malformed <- MCMalformed
  MaxRetrieved = 3
  MaxTopK = 3
  ContextBlocks = 2
INVARIANTS
  TypeOK
  AnswerIsGrounded
  PromptsAreAdmissible
  NoContentFromTwoDocuments
  NothingBetterDropped
  CorrectionKeepsEvidence
  EndingMatchesAttempts
  NeutralGateJudgesBest
PROPERTIES
  KeepsPromise
CHECK_DEADLOCK FALSE

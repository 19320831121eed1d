SPECIFICATION RuntimeSpec
CONSTANTS
  Requests = {r1, r2, r3}
  Kinds = {"query", "ready"}
  PoolSize = 2
  Strategies = {"union", "sparse", "unsupported"}
  Pages <- MCPages
  Versions <- MCVersions
  Frozen = "frozen"
  Points <- MCPoints
  Stores <- MCStores
  None = None
  MaxChanges = 1
  MaxFaults = 1
SYMMETRY Symmetry
INVARIANTS
  PassedChecksWereTrue
  FailureIsOwn
  ServicesBounded
PROPERTIES
  RetrieverBuiltOnce
CHECK_DEADLOCK FALSE

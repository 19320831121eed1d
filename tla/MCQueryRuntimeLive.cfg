SPECIFICATION FairRuntimeSpec
CONSTANTS
  Requests = {r1, r2, r3}
  Kinds = {"query", "ready", "health"}
  PoolSize = 1
  Strategies = {"union"}
  Pages <- MCPages
  Versions <- MCVersions
  Frozen = "frozen"
  Points <- MCPoints
  Stores <- FrozenOnly
  None = None
  MaxChanges = 0
  MaxFaults = 1
PROPERTIES
  EveryRequestAnswered
CHECK_DEADLOCK FALSE

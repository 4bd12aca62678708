CONSTANTS
  Order <- MCOrder
  Contents = {"x", "y"}
  Large = {"y"}
  Ignored <- MCIgnored
  MaxEdits = 4
  MaxFailures = 2
SPECIFICATION ArtifactSpec
INVARIANTS
  StoreInv
  PullDelivers
  CleanLeavesTheTree
  StatusForetells
CHECK_DEADLOCK FALSE

CONSTANTS
  User = {"alice", "bob"}
  RequireFinality = TRUE
  MaxBlocks = 3
  MaxReorgs = 1
  MaxFaults = 1
SPECIFICATION Spec
INVARIANT ActiveIsMinted
PROPERTY JobsEnd
CHECK_DEADLOCK FALSE

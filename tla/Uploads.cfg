SPECIFICATION Spec
CONSTANTS
  Wallet = {"A", "B"}
  None = None
  NoteName = {"n1", "n2"}
  MaxMoves = 3
  MaxFaults = 1
INVARIANT NeverBackedUp
CHECK_DEADLOCK FALSE

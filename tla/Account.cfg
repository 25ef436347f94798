SPECIFICATION MCSpec
CONSTANTS
  Wallet = {"A", "B"}
  None = None
  NoteName = {"n1", "n2"}
  MaxMoves = 3
  MaxFaults = 1
  Tab = {"t1", "t2"}
  Event = {"e1", "k"}
  OtherEvent = {"k", "s1"}
  BatchSize = 1
  MaxLost = 1
INVARIANTS ModesAgree BackupsAreOwn CursorsHonest
PROPERTIES Unlocks Mirrored
CHECK_DEADLOCK FALSE

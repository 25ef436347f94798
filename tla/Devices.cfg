SPECIFICATION Spec
CONSTANTS
  Op = {1}
  None = None
  Tab = {"t1", "t2"}
  Browser = {"b1", "b2"}
  BrowserOf <- TwoBrowsers
  Request <- SpendingRequests
  StartNotes <- LargeNote
  MaxNotes = 6
  MaxRev = 6
  SyncAttempts = 2
  Mishaps <- OneMishap
PROPERTIES  NothingForgotten
CHECK_DEADLOCK FALSE

SPECIFICATION FairSpec
CONSTANTS
  Op = {1}
  None = None
  Tab = {"t1"}
  Browser = {"b1"}
  BrowserOf <- OneBrowser
  Request <- EveryRequest
  StartNotes <- NoteAndOrder
  MaxNotes = 5
  MaxRev = 6
  SyncAttempts = 2
  Mishaps <- OneMishap
INVARIANT SucceededLanded
PROPERTIES UploadedFirst Freed Settles
CHECK_DEADLOCK FALSE

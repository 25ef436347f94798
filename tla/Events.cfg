SPECIFICATION Spec
CONSTANTS
  Caller = {"poller", "order"}
  Page = {"page"}
  PageOf <- OnePage
  Validated = TRUE
  PageSize = 1
  Start = 2
  MaxLedger = 3
  MaxMishaps = 2
INVARIANT MissesOnlyForgotten
PROPERTY CatchesUp
CHECK_DEADLOCK FALSE

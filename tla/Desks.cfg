SPECIFICATION MCSpec
CONSTANTS
  Call = {c1, c2}
  Form = {f1}
  Agent = {a1}
  OwnDesk = own
  MaxBridges = 5
  MaxFaults = 2
  Op = {"o1"}
  Job = {"j1"}
  FeedTrouble <- OneTrouble
  c1 = c1
  c2 = c2
  f1 = f1
  a1 = a1
  own = own
INVARIANTS ActiveIsConfigured MintedIsSpendable
PROPERTIES RetriesConverge EntriesSettle
CHECK_DEADLOCK FALSE

CONSTANTS
  Order = {1, 2, 3}
  SideOf <- MCSideOf
  Rank <- MCRank
  Page = {p}
  PageSize = 2
  MaxLog = 4
  MaxDropped = 1
  Funds <- MCFunds
  MaxFailures = 1
SPECIFICATION IndexSpec
INVARIANTS StoredAsOne NeverWedged ShownIsReal
PROPERTY CatchesUp

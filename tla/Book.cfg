SPECIFICATION FairBookSpec
CONSTANTS
  Asset = {"XLM", "USDC"}
  Kind <- MCKind
  Pair <- MCPair
  Start <- MCStart
  Tag = {1, 2, 3, 4, 5, 6, 7}
  CancelTag = {"c"}
  BaseOrigin = {}
  BaseBlock = {}
  Journal = {}
  BOOK_CAPACITY = 2
  MAX_FILLS_PER_SUBMIT = 2
  TREE_CAPACITY = 7
  ShieldAmount = {}
  MinOut = {1, 2}
  Expiry = {0, 1}
  PruneMax = {1, 2}
  MaxClock = 1
  FreshTags = TRUE
INVARIANTS BookSorted Backing
PROPERTIES LimitHonoured TimePriority PricePriority ExpiredOnlyRefunded TransactionEnds

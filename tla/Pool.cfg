SPECIFICATION PoolSpec
CONSTANTS
  Asset = {"XLM", "USDC", "ETH"}
  Kind <- MCKind
  Pair <- MCPair
  Tag = {1, 2}
  CancelTag = {"c"}
  BaseOrigin = {"v1", "v2"}
  BaseBlock <- MCBaseBlock
  Journal <- MCJournal
  BOOK_CAPACITY = 1
  MAX_FILLS_PER_SUBMIT = 1
  TREE_CAPACITY = 4
  MaxDeposits = 2
  ShieldAmount = {1}
  MinOut = {1}
  Expiry = {0}
  PruneMax = {1}
  MaxClock = 1
  FreshTags = FALSE
INVARIANTS TypeInv SingleSpend
PROPERTIES PoolIsVault EventsReplay

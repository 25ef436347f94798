SPECIFICATION MCSpec
CONSTANTS
  Amount <- SmallAmounts
  Leaf = {1, 2}
  TREE_DEPTH = 3
  MaxWitnesses = 2
INVARIANTS GcdResult RootsAgree StaleProofsAccepted
CHECK_DEADLOCK FALSE

SPECIFICATION Spec
CONSTANTS
  Op = {1, 2}
  Scenarios <- AloneOrRivals
  MaxNotes = 8
INVARIANTS StoreCoversChain Delivered
PROPERTY FundsShown
CHECK_DEADLOCK FALSE

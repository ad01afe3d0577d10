CONSTANTS
  NumZones = 3
  Mapped = {1, 2}
  NumPages <- MCNumPages
  MaxOrder <- MCMaxOrder
  MaxPgOrder = 2
  Leftovers <- MCLeftovers
  Orders = {0, 1, 2}
  Excess = 1
  NULL = NULL
SPECIFICATION Spec
INVARIANTS TypeOK NoOverlap NothingLost BitsExact AvailableExact
PROPERTY ImplementsPromise
CHECK_DEADLOCK FALSE

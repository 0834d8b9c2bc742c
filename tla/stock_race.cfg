SPECIFICATION Spec
CONSTANTS
  Workers = {w1, w2}
  Skus = {s1, s2}
  Orders = {o1, o2}
  Quantities = {0, 1}
  Amounts <- HandValues
  Settable = {"confirmed", "cancelled"}
  InitialStock = 1
  Offered <- AllKinds
  Runnable <- WithoutPut
  None = None
  MaxLines = 2
  MaxRequests = 3
  MaxFailures = 1
SYMMETRY Symmetry
CHECK_DEADLOCK FALSE
INVARIANTS
  DriftNeedsContention
PROPERTIES
  OrderMovesItsStock
  OnlyOrdersOversell
  LogTellsTheChange
  ImplementsBook

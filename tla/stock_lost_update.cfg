SPECIFICATION Spec
CONSTANTS
  Workers = {w1, w2}
  Skus = {s1, s2}
  Orders = {o1, o2}
  Quantities = {1}
  Amounts = {1}
  Settable = {"cancelled"}
  InitialStock = 1
  Offered <- CreateKind
  Runnable <- AllKinds
  None = None
  MaxLines = 1
  MaxRequests = 2
  MaxFailures = 0
CHECK_DEADLOCK FALSE
INVARIANTS
  StockMatchesLedger

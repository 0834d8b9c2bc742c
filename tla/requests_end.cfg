SPECIFICATION FairSpec
CONSTANTS
  Workers = {w1, w2}
  Skus = {s1, s2}
  Orders = {o1}
  Quantities = {0}
  Amounts = {1}
  Settable = {"confirmed", "cancelled"}
  InitialStock = 1
  Offered <- LifecycleKinds
  Runnable <- AllKinds
  None = None
  MaxLines = 2
  MaxRequests = 4
  MaxFailures = 0
CHECK_DEADLOCK FALSE
INVARIANTS
  CancelRestocksOnce
  TrailIsChain
PROPERTIES
  EveryRequestEnds

SPECIFICATION FairSpec
CONSTANTS
  Workers = {w1, w2}
  Orders = {o1}
  Transactions = {t1, t2}
  Requests = {r1, r2}
  Price = 2
  Refunds <- SomeRefunds
  None = None
  Methods = {"wechat", "cash"}
  Offered <- AllKinds
  MaxRequests = 3
  MaxRepeats = 1
  MaxFailures = 1
CHECK_DEADLOCK FALSE
INVARIANTS
  
  
  
  RefundsWithinPrice
PROPERTIES
  PaymentRecorded

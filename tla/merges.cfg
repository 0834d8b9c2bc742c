SPECIFICATION FairSpec
CONSTANTS
  Workers = {w1, w2}
  Orders = {o1, o2}
  Items = {i1, i2}
  None = None
  MaxList = 2
  MaxRequests = 2
  MaxFailures = 1
CHECK_DEADLOCK FALSE
INVARIANTS
  SubtotalsNeedContention
PROPERTIES
  LossNeedsContention
  PaidStaysPaid
  EveryRequestEnds

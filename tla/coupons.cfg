SPECIFICATION Spec
CONSTANTS
  Workers = {w1, w2}
  Users = {u1, u2, u3}
  Coupons = {c1, c2}
  Totals <- SomeTotals
  Limits = {1, 2}
  None = None
  MaxRequests = 4
  MaxFailures = 1
SYMMETRY Symmetry
CHECK_DEADLOCK FALSE
INVARIANTS
  CountTellsClaims
  RowLooksSound
  IssuedWithinTotal
PROPERTIES
  DeletedLeavesNothing
  NoSecondCoupon

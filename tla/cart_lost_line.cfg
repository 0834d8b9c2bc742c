SPECIFICATION Spec
CONSTANTS
  Sessions = {t1, t2}
  Workers = {w1, w2}
  Products = {tea, cake}
  HasSku = {tea}
  Imageless = {}
  Quantities = {1}
  FirstCarts = 1
  None = None
  MaxItems = 2
  MaxSends = 3
  MaxTimeouts = 0
  MaxFailures = 0
CHECK_DEADLOCK FALSE
PROPERTIES
  OrderTakesTheCart

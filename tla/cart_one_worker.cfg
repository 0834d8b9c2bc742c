SPECIFICATION Spec
CONSTANTS
  Sessions = {t1, t2}
  Workers = {w1}
  Products = {tea, cake, milk}
  HasSku = {tea}
  Imageless = {milk}
  Quantities = {1, 2}
  FirstCarts = 0
  None = None
  MaxItems = 3
  MaxSends = 4
  MaxTimeouts = 1
  MaxFailures = 1
SYMMETRY Symmetry
CHECK_DEADLOCK FALSE
PROPERTIES
  ImplementsCart

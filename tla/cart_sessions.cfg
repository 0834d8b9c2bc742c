SPECIFICATION FairSpec
CONSTANTS
  Sessions = {t1, t2}
  Workers = {w1, w2}
  Products = {tea, cake}
  HasSku = {tea}
  Imageless = {}
  Quantities = {1}
  FirstCarts = 0
  None = None
  MaxItems = 3
  MaxSends = 3
  MaxTimeouts = 1
  MaxFailures = 1
CHECK_DEADLOCK FALSE
INVARIANTS
  TypeOK
  SecondCartNeedsRush
  SecondLineNeedsContention
PROPERTIES
  LostLineNeedsContention
  EverySessionRests

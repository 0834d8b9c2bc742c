SPECIFICATION Spec
CONSTANTS
  Workers = {w1, w2}
  Printers = {p1, p2}
  Templates = {k1, k2}
  Tasks = {t1, t2}
  Supported = {p1}
  Bound <- Both
  Offered <- AllKinds
  None = None
  Gone = Gone
  MaxRequests = 3
  MaxLost = 1
  MaxFailures = 1
SYMMETRY Symmetry
CHECK_DEADLOCK FALSE
INVARIANTS
  LogsAreCovered
  CompletedWerePrinted
  PrintedOnce
  DefaultKept
PROPERTIES
  SwitchesAreAsked
  DeletedStaysDeleted

SPECIFICATION Spec
CONSTANTS
  Workers = {w1}
  Printers = {p1}
  Templates = {k1, k2}
  Tasks = {t1}
  Supported = {p1}
  Bound <- Both
  Offered <- TemplateKinds
  None = None
  Gone = Gone
  MaxRequests = 3
  MaxLost = 0
  MaxFailures = 0
CHECK_DEADLOCK FALSE
PROPERTIES
  SetDefaultWorks

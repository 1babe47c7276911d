\* Two monitors of one client, and concurrent requests.
SPECIFICATION Spec
CONSTANTS
  m1 = m1
  m2 = m2
  g1 = g1
  g2 = g2
  Monitors <- TwoMonitors
  Requesters <- TwoRequesters
  MaxRequests = 2
  MaxClock = 2
SYMMETRY Interchangeable
CHECK_DEADLOCK FALSE
INVARIANTS
  TypeOK
  ReportedOnce
  MemoryIsRight

\* Every dialect, two handlers and one slot.
CONSTANTS
  h1 = h1
  h2 = h2
  h3 = h3
  Handlers = {h1, h2}
  Requests <- MCRequests
  MaxConcurrentRequests = 1
  ProbeBytes = 1
  MaxBodyBytes = 3
  Capacity = 2
  MaxRequests = 3
SPECIFICATION Spec
SYMMETRY Symmetry
CHECK_DEADLOCK FALSE
INVARIANTS
  SlotsBalance
  BodiesBounded
  AcknowledgedIsAccounted
  CountersBalance

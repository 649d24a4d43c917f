\* A OneFS event is queued before its reply is flushed.
CONSTANTS
  h1 = h1
  h2 = h2
  h3 = h3
  Handlers = {h1}
  Requests <- MCRequests
  MaxConcurrentRequests = 1
  ProbeBytes = 1
  MaxBodyBytes = 3
  Capacity = 1
  MaxRequests = 2
SPECIFICATION Spec
CHECK_DEADLOCK FALSE
INVARIANT
  AckPrecedesQueueWork

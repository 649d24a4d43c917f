\* Three handlers compete for one slot.
CONSTANTS
  h1 = h1
  h2 = h2
  h3 = h3
  Handlers = {h1, h2, h3}
  Requests <- MCSlotRequests
  MaxConcurrentRequests = 1
  ProbeBytes = 1
  MaxBodyBytes = 3
  Capacity = 1
  MaxRequests = 3
SPECIFICATION FairSpec
CHECK_DEADLOCK FALSE
PROPERTIES
  LivenessIsAnswered
  EveryRequestEnds

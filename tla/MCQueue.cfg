\* Two handlers, two workers, two concurrent Stops.
CONSTANTS
  p1 = p1
  p2 = p2
  w1 = w1
  w2 = w2
  s1 = s1
  s2 = s2
  NoOne = NoOne
  Producers = {p1, p2}
  Workers = {w1, w2}
  Stoppers = {s1, s2}
  Capacity = 2
  MaxBatch = 2
  MaxOffers = 4
SPECIFICATION Spec
SYMMETRY Symmetry
CHECK_DEADLOCK FALSE
INVARIANTS
  TypeOK
  NoSendOnClosedChannel
  CloseFollowsEveryWrite
  Custody
  BatchesKeepOrder
  CountersMatchEvents
  CleanStopBalances
  CancelOnlyAfterDrain
PROPERTY
  ImplementsLedger

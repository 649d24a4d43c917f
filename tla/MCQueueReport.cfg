\* A worker is between the channel and inFlight while Stop reads both.
CONSTANTS
  p1 = p1
  p2 = p2
  w1 = w1
  w2 = w2
  s1 = s1
  s2 = s2
  NoOne = NoOne
  Producers = {p1}
  Workers = {w1}
  Stoppers = {s1}
  Capacity = 2
  MaxBatch = 2
  MaxOffers = 2
SPECIFICATION Spec
CHECK_DEADLOCK FALSE
INVARIANT
  ReportCoversUndrained

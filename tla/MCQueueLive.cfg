\* One handler, one worker, two concurrent Stops; the writer may hang.
CONSTANTS
  p1 = p1
  p2 = p2
  w1 = w1
  w2 = w2
  s1 = s1
  s2 = s2
  NoOne = NoOne
  Producers = {p1}
  Workers = {w1}
  Stoppers = {s1, s2}
  Capacity = 1
  MaxBatch = 2
  MaxOffers = 3
SPECIFICATION FairSpec
CHECK_DEADLOCK FALSE
PROPERTIES
  CallsReturn
  AcceptedIsSettled

\* Two workers write batches of one or two events.
CONSTANTS
  w1 = w1
  w2 = w2
  NoOne = NoOne
  Workers = {w1, w2}
  Configurations <- MCConfigurations
  MaxBatch = 2
  MaxEvents = 3
SPECIFICATION Spec
SYMMETRY Symmetry
CHECK_DEADLOCK FALSE
INVARIANTS
  WrittenIsTaken
  ReplayedAtMostOnce
  EveryEventIsTried
  FramesStayTogether
  OneConnection

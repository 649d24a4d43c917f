\* Three fields, a budget with room for all that cannot shrink, and one without.
CONSTANTS
  f1 = f1
  f2 = f2
  f3 = f3
  Fields = {f1, f2, f3}
  Values <- MCValues
  MaxField = 12
  Marker <- MCMarker
  Budgets = {20, 48}
SPECIFICATION FairSpec
CHECK_DEADLOCK FALSE
INVARIANTS
  RecordFits
  LongFieldsGoFirst
  TruncationIsReported
PROPERTIES
  LoopEnds

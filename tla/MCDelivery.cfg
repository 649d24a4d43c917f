\* Words of 4096 values; every truncation of every kind of document.
CONSTANTS
  Word = 4096
  MicrosPerSecond = 10
  Documents <- MCDocuments
  Fragile <- Skeletons
SPECIFICATION Spec
CHECK_DEADLOCK FALSE
INVARIANTS
  DecodedIsWhatArrived
  TruncatedMakesNothing
  AnsweredAsAsked
  RecordTimeIsEventTime
  RecordsNameObjectAndActor
  RecordKindIsEventKind

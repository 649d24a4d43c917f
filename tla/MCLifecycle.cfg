\* Both platforms, two handlers, three events and two SIGHUPs.
CONSTANTS
  h1 = h1
  h2 = h2
  Platforms = {"unix", "windows"}
  Settings <- MCSettings
  Handlers = {h1, h2}
  MaxEvents = 3
  MaxHups = 2
SPECIFICATION FairSpec
CHECK_DEADLOCK FALSE
INVARIANTS
  OrderlyShutdownLosesNothing
  ExitsThatLoseEvents
PROPERTIES
  StopEndsProcess
  HangupRotates

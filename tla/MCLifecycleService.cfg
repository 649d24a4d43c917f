\* The Windows service, with one handler and one event.
CONSTANTS
  h1 = h1
  h2 = h2
  Platforms = {"windows"}
  Settings <- MCSettings
  Handlers = {h1}
  MaxEvents = 1
  MaxHups = 0
SPECIFICATION Spec
CHECK_DEADLOCK FALSE
INVARIANTS
  ServiceStopDrains

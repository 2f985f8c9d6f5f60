SPECIFICATION FairSpec
CONSTANTS
  Calls = {c1, c2}
  MaxRows = 3
  PageSize = 2
  MaxClicks <- MCClicks
  MaxFaults = 1
INVARIANTS ConsoleTrue
PROPERTIES ConsoleSteps
CHECK_DEADLOCK FALSE

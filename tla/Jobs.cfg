SPECIFICATION MCSpec
CONSTANTS
  Calls = {c1, c2}
  Items = {x, y}
  MaxJobs = 2
  MaxClicks = 2
  MaxFaults = 1
INVARIANTS JobsSafe
PROPERTIES JobsEnd
CHECK_DEADLOCK FALSE

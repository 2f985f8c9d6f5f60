SPECIFICATION MCSpec
CONSTANTS
  Calls = {c1, c2}
  MaxClicks = 2
  MaxFaults = 1
INVARIANTS AccountsSafe
PROPERTIES AccountsStep
CHECK_DEADLOCK FALSE

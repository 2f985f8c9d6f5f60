SPECIFICATION Spec
CONSTANTS
  b1 = b1
  b2 = b2
  Tabs = {t1, t2}
  Admins = {a1, a2}
  Start = 2
  Listed <- MCListed
  MaxCodes = 2
  MaxTx = 2
  MaxClicks = 5
INVARIANTS LinkedToDestination
SYMMETRY Symmetry
CHECK_DEADLOCK FALSE

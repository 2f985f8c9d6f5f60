SPECIFICATION MCSpec
CONSTANTS
  b1 = b1
  b2 = b2
  Tabs = {t1, t2}
  Admins = {a1, a2}
  Start = 2
  Listed <- MCListed
  MaxCodes = 2
  MaxTx = 2
  MaxClicks = 4
  PageCalls = {c1, c2, c3}
  PageClicks = 3
  PageFaults = 1
  PageTalk = 6
INVARIANTS WithdrawSafe PagesTrue
PROPERTIES DecisionFinal
SYMMETRY Symmetry
CHECK_DEADLOCK FALSE

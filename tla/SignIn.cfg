SPECIFICATION MCSpec
CONSTANTS
  Flows = {f1, f2}
  Tiers <- MCTiers
  MaxNow = 1
  MaxVisits = 3
  Phones = {p1, p2}
  Limit = 1
  Calls = {c1, c2}
  Polls = {k1}
  MaxIds = 2
  MaxClicks = 3
  MaxFaults = 1
INVARIANTS SignInSafe LoginsSafe
PROPERTIES TabsSettle
CHECK_DEADLOCK FALSE

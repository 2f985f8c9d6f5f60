SPECIFICATION MCSpec
CONSTANTS
  Users = {u1}
  Requests = {r1, r2}
  Keys = {k1}
  MaxItems = 2
  Wealth = 2
  MaxExpiries = 2
  None = None
  NOrders = 2
  Sessions = {loop, web}
  Loop = loop
  loop = loop
  web = web
  Web = {web}
  Price = 1
  Quantity = 1
  BatchLimit = 2
  Outcomes = {"Canceled"}
  MayOmit = FALSE
  MaxAborts = 1
INVARIANTS ChargedForPending DoubleChargeNeedsGap RefundedOnce CanceledIsRefunded
PROPERTIES KeyIsFreed CreditIsExact

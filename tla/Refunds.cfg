SPECIFICATION MCSpec
CONSTANTS
  NOrders = 1
  Sessions = {loop, web}
  Loop = loop
  loop = loop
  web = web
  Web = {web}
  Price = 2
  Quantity = 2
  BatchLimit = 1
  Outcomes = {"Canceled", "Partial"}
  MayOmit = TRUE
  MaxAborts = 1
PROPERTIES CancelIsRefunded

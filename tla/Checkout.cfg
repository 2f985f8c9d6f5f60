SPECIFICATION FairSpec
CONSTANTS
  Calls = {c1, c2}
  Life = 1
  PollPeriod = 2
  MaxBal = 2
  MaxInv = 1
  MaxClicks = 2
  MaxFaults = 1
INVARIANTS CheckoutSafe
PROPERTIES PaymentNoticed
CHECK_DEADLOCK FALSE

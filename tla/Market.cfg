SPECIFICATION MCSpec
CONSTANTS
  Users = {1, 2}
  Accounts = {a1, a2}
  Only = a1
  a1 = a1
  a2 = a2
  Txs = {t1, t2}
  Requests = {r1, r2, r3}
  Third = r3
  r1 = r1
  r2 = r2
  r3 = r3
  Prices = {1, 2}
  Wealth = {2}
  Targets = {1, 2}
  Owner = 1
  None = None
INVARIANTS TypeOK ListingIsOwners RingNeedsSettlement
PROPERTIES OwnerMovesOnlyBySale SettledTwiceOnlyByWebhook AtomicMarket RequestsFinish

SPECIFICATION MCSpec
CONSTANTS
  Users = {u1}
  Txs = {t1, t2}
  Requests = {r1, r2, r3}
  Amounts = {1}
  InvoiceTypes = {"topup", "subscription", "smm"}
  None = None
INVARIANTS TypeOK WithdrawalAccounted FreshUnderLock CreditIsBacked ApprovedGivesValue Reconciled
PROPERTIES CreditedTwiceOnlyByWebhook SettledChangesOnlyByWebhook RequestsFinish

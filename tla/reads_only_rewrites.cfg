SPECIFICATION ReadSpec
CONSTANTS
  ann = ann
  bob = bob
  cyd = cyd
  None = None
  Users <- MCUsers
  Creator = ann
  ExpenseIds = {e1}
  SettlementIds = {s1}
  ReceiptIds = {}
  Bills <- MCBills
  Amounts = {1}
  Requests = {q1}
  Operations <- MoneyOps
INVARIANTS
  OnlyRewritesTear

SPECIFICATION Spec
CONSTANTS
  ann = ann
  bob = bob
  None = None
  Users <- MCUsers
  Creator = ann
  ExpenseIds = {e1}
  SettlementIds = {s1}
  ReceiptIds = {}
  Bills <- OneBill
  Amounts = {1}
  Requests = {q1, q2}
  Operations <- RaceOps
INVARIANTS
  MoneyHasItsGroup
PROPERTIES
  ConfirmedByPayee
  LockHolds
  ArchiveHolds

SPECIFICATION Spec
CONSTANTS
  ann = ann
  bob = bob
  None = None
  Users <- MCUsers
  Creator = ann
  ExpenseIds = {e1}
  SettlementIds = {s1}
  ReceiptIds = {r1}
  Bills <- ThreeBills
  Amounts = {1}
  Requests = {q1}
  Operations <- SerialOps
INVARIANTS
  TypeOK
  NetsCancel
PROPERTIES
  ImplementsRules
  ConfirmedIsFinal
  LeaveSquare
CHECK_DEADLOCK FALSE

SPECIFICATION SheetSpec
CONSTANTS
  Members = {1, 2, 3}
  ZeroDecimal = {}
  NoFigure = NoFigure
  Receipts <- SomeReceipts
  SlipTotals <- SomeSlips
INVARIANTS
  SharesAddUp
  ExtraInProportion
  SlipGoverns
CHECK_DEADLOCK FALSE

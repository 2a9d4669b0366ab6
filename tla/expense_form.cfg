SPECIFICATION Spec
CONSTANTS
  Clients = {"web", "phone"}
  Members = {1, 2}
  User = 1
  Currencies = {"EUR", "CLP"}
  ZeroDecimal = {"CLP"}
  NoFigure = NoFigure
  None = None
  Expenses <- SomeExpenses
  Held <- OneOfThem
  Parses <- SomeParses
  TypedAmounts <- SomeAmounts
  TypedCounts <- SomeCounts
  TypedOffsets <- SomeOffsets
  MaxEdits = 2
  MaxSaves = 2
INVARIANTS
  TypeOK
  FiledOnceUnlessConfirmed
  ReopensAsFiled
  CancelledStaysOut
PROPERTIES
  RescaleKeepsBalance
  AssignmentReconciles
CHECK_DEADLOCK FALSE

SPECIFICATION Spec
CONSTANTS
  Clients = {"web", "phone"}
  Habits <- SomeHabits
  MaxOpens = 3
  MaxWrites = 2
  MaxVersion = 3
INVARIANTS
  TypeOK
  OneRowPerOpening
  CatchesUp
CHECK_DEADLOCK FALSE

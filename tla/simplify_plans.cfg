SPECIFICATION Spec
CONSTANTS
  Members = {1, 2, 3, 4}
  MaxNet = 4
  Nets <- AnyNets
INVARIANTS
  PlanSettles
  PlanIsLean
PROPERTIES
  Terminates
CHECK_DEADLOCK FALSE

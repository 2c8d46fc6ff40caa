SPECIFICATION Spec
CONSTANTS
  NOps = 5
  Sizes = {1}
  Budgets <- MCRoomy
  AnyOrder = FALSE
  MinReserve = 3
  MaxRuns = 1
INVARIANTS ValuesIntact
CHECK_DEADLOCK FALSE

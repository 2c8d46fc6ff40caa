SPECIFICATION Spec
CONSTANTS
  NOps = 4
  Sizes = {1, 2}
  Budgets <- MCBudgets
  AnyOrder = TRUE
  MinReserve = 3
  MaxRuns = 2
INVARIANTS TypeOK NoLiveOverlap PlanFits ValuesRight EmitsAll PoolSteady
PROPERTIES OrderKept
CHECK_DEADLOCK FALSE

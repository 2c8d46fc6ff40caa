SPECIFICATION Spec
CONSTANTS
  Callers = {host}
  MaxCalls = 4
  MaxDown = 0
  Faults = {"slow_load"}
INVARIANTS  ResetDone

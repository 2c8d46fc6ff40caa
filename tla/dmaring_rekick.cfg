SPECIFICATION Spec
CONSTANTS
  NSlots = 2
  DpSlot = 2
  MaxLost = 1
  Callers = {caller}
  MaxGroups = 3
  FireDepth = 1
  Spans = {1, 2}
  ShortDeadline = TRUE
INVARIANT LawsKept

SPECIFICATION FairSpec
CONSTANTS
  NSlots = 2
  DpSlot = 2
  MaxLost = 1
  Callers = {caller}
  MaxGroups = 3
  FireDepth = 1
  Spans = {1, 2, 3}
  ShortDeadline = FALSE
INVARIANTS TypeOK RingInvariants LawsKept NoReuseInFlight ReadyIntact
PROPERTIES NeedDelivers CallsReturn

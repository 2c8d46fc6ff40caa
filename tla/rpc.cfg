SPECIFICATION FairSpec
CONSTANTS
  Callers = {host}
  MaxCalls = 3
  MaxDown = 2
  Faults = {}
INVARIANTS TypeOK AnswerMatches
PROPERTIES Implements CallsEnd

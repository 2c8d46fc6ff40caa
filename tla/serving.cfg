SPECIFICATION FairSpec
CONSTANTS
  Requests = {r1, r2, r3}
  Plain = {r2, r3}
  MAX_CONCURRENT = 2
  MAX_QUEUED = 1
  MaxSteps <- MCSteps
INVARIANTS TypeOK PermitsConserved SessionsClosed NoPoison Isolated
PROPERTIES RequestsEnd

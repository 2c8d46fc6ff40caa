SPECIFICATION Spec
CONSTANTS
  Requests = {r1, r2, r3}
  Plain = {r2}
  MAX_CONCURRENT = 1
  MAX_QUEUED = 1
  MaxSteps <- MCSteps
INVARIANTS PermitsReturned

SPECIFICATION FairSpec
CONSTANTS
  NWorkers = 3
  Depth = 2
  MaxJobs = 6
INVARIANTS TypeOK QueueIsFIFO RunOnce WaitSound CloseComplete
PROPERTIES JobsRun CallsEnd
CHECK_DEADLOCK FALSE

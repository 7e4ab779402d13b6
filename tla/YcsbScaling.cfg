CONSTANTS
  Names <- TwoNames
  Counts = {0, 1, 2}
  MaxRequests = 2
  MaxScalings = 1
SPECIFICATION FairSpec
INVARIANT TypeOK
PROPERTIES
  EventuallyRunning
  NothingRunsOn
CHECK_DEADLOCK FALSE

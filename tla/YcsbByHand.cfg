CONSTANTS
  Names <- OneName
  Counts = {0, 1}
  MaxRequests = 1
  MaxScalings = 1
SPECIFICATION FairSpec
PROPERTY StartedByHand
CHECK_DEADLOCK FALSE

CONSTANTS
  Server = {"s1"}
  Home <- OneNamespace
  Seen = {"nuodb"}
  Pipeline <- DefinedElastic
  Teardown <- SharedTeardown
  Fragile = {}
  Impatient = {}
  Sizes = {1}
  MaxRequests = 1
SPECIFICATION CleanSpec
PROPERTY DeletionReturns
CHECK_DEADLOCK FALSE

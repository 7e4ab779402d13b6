CONSTANTS
  Server = {"s1", "s2"}
  Home <- OneNamespace
  Seen = {"nuodb"}
  Pipeline <- SharedPipeline
  Teardown <- SharedTeardown
  Fragile = {}
  Impatient = {}
  Sizes = {2}
  MaxRequests = 2
SPECIFICATION CleanSpec
PROPERTIES
  EventuallyInstalled
  NothingRunsOn
CHECK_DEADLOCK FALSE

CONSTANTS
  Server = {"s1"}
  Home <- OneNamespace
  Seen = {"nuodb"}
  Pipeline <- ElasticPipeline
  Teardown <- ElasticTeardown
  Fragile = {"eck", "es", "kibana"}
  Impatient = {"s1"}
  Sizes = {2}
  MaxRequests = 1
SPECIFICATION CleanSpec
PROPERTIES
  EventuallyInstalled
  EventuallyDeleted
  NothingRunsOn
CHECK_DEADLOCK FALSE

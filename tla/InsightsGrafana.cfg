CONSTANTS
  Server = {"s1"}
  Home <- OneNamespace
  Seen = {"nuodb"}
  Pipeline <- DashboardPipeline
  Teardown <- DashboardTeardown
  Fragile = {"operator"}
  Impatient = {"s1"}
  Sizes = {1, 2}
  MaxRequests = 2
SPECIFICATION CleanSpec
INVARIANTS
  TypeOK
  DeletionRemembered
PROPERTIES
  KeepsRequests
  TornDownFirst
  EventuallyDeleted
  NothingRunsOn
CHECK_DEADLOCK FALSE

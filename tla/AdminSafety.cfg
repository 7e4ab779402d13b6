CONSTANTS
  Manifest <- Services
  Insights <- OneService
  Requests <- SwitchScale
  MaxReady = 0
  MaxRequests = 3
SPECIFICATION Spec
INVARIANTS
  TypeOK
  NeverForgotten
PROPERTIES
  FollowsRequests
  DeletesOnlyDisabled
CHECK_DEADLOCK FALSE

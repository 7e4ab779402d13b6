CONSTANTS
  Manifest <- Pods
  Insights <- OnePod
  Requests <- SwitchScale
  MaxReady = 1
  MaxRequests = 2
SPECIFICATION FairSpec
PROPERTIES
  LightsMatchSpecWhenWritten
  EventuallySettled
CHECK_DEADLOCK FALSE

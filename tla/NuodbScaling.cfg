CONSTANTS
  c1 = c1
  c2 = c2
  CR = {c1}
  Manifest <- TeManifest
  Requests <- ScaleTwo
  MaxReady = 2
  MaxRequests = 2
SPECIFICATION FairSpec
INVARIANT TypeOK
PROPERTIES
  LightsMatchSpecWhenWritten
  InitialisedOnce
  FollowsRequests
  EventuallyProvisioned
CHECK_DEADLOCK FALSE

CONSTANTS
  c1 = c1
  c2 = c2
  CR = {c1, c2}
  Manifest <- SharedManifest
  Requests <- NoScaling
  MaxReady = 1
  MaxRequests = 1
SPECIFICATION FairSpec
INVARIANT NeverForgotten
PROPERTIES
  EventuallyProvisioned
  NoOrphans
CHECK_DEADLOCK FALSE

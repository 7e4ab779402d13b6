CONSTANTS
  c1 = c1
  c2 = c2
  CR = {c1}
  Manifest <- TeManifest
  Requests <- ScaleFromZero
  MaxReady = 1
  MaxRequests = 2
SPECIFICATION FairSpec
PROPERTIES
  OperationalAtDesiredSpec
CHECK_DEADLOCK FALSE

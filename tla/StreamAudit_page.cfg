SPECIFICATION FairSpec
CONSTANTS
  s1 = s1
  Streams = {s1}
  Device <- OneDevice
  QUEUE = 2
  AUDIT = 2
  ANNOUNCE = 1
  BUCKET = 1
  DEFERRED = 0
  ATTEMPTS = 3
  PageOpen = TRUE
  MaxInputs = 0
  MaxPlain = 0
  MaxLifecycle = 1
  MaxTimeouts = 1
  MaxCrashes = 1
CHECK_DEADLOCK FALSE
INVARIANTS
  PageExplained
PROPERTIES
  PageConverges

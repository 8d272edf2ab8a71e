SPECIFICATION Spec
CONSTANTS
  s1 = s1
  s2 = s2
  Streams = {s1, s2}
  Device <- OneDevice
  QUEUE = 3
  AUDIT = 2
  ANNOUNCE = 1
  BUCKET = 1
  DEFERRED = 1
  ATTEMPTS = 2
  PageOpen = FALSE
  MaxInputs = 2
  MaxPlain = 1
  MaxLifecycle = 2
  MaxTimeouts = 0
  MaxCrashes = 0
SYMMETRY Symmetry
CHECK_DEADLOCK FALSE
INVARIANTS
  TypeOK
  AuditAccounted
  OpensFollowCloses
  InputAudited

SPECIFICATION FairSpec
CONSTANTS
  Peers = {p1}
  Devices = {d1}
  DeviceOf <- OneDevice
  Sessions = {s1}
  Methods = {"full", "operation", "prompt"}
  WRITE_QUEUE = 2
  MAX_STREAMS = 2
  MAX_RESOURCES = 2
  WRITE_SLOTS = 1
  CLEANUP_SLOTS = 1
  MaxWrites = 2
  MaxTime = 1
  Untils = {1}
CHECK_DEADLOCK FALSE
INVARIANT
  TypeOK
PROPERTIES
  KeepsPromise
  SubmittedAnswered
  WriteAnswered
  PermitsReturn

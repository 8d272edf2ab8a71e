SPECIFICATION Spec
CONSTANTS
  Peers = {p1, p2}
  Devices = {d1}
  DeviceOf <- OneDevice
  Sessions = {s1}
  Methods = {"control", "full"}
  WRITE_QUEUE = 2
  MAX_STREAMS = 2
  MAX_RESOURCES = 2
  WRITE_SLOTS = 1
  CLEANUP_SLOTS = 1
  MaxWrites = 2
  MaxTime = 0
  Untils = {1}
SYMMETRY Symmetry
CHECK_DEADLOCK FALSE
INVARIANTS
  HostWithinLimits
  ControlYieldsToFull
  NoSelfRefusal

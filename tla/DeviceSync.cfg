SPECIFICATION FairSpec
CONSTANTS
  Devices = {d1, d2}
  MAX_DEVICES = 1
  QUEUE = 1
  MaxCommands = 2
  MaxStarts = 2
CHECK_DEADLOCK FALSE
INVARIANTS
  TypeOK
  RevokedStaysGone
  Converges
  DeferralsBounded
PROPERTY
  EventuallySynced

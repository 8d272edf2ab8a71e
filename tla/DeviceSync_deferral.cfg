SPECIFICATION Spec
CONSTANTS
  Devices = {d1}
  MAX_DEVICES = 1
  QUEUE = 1
  MaxCommands = 2
  MaxStarts = 1
INVARIANT
  DeferredWasApplied
CHECK_DEADLOCK FALSE

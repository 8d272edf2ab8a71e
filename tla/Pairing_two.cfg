SPECIFICATION Spec
CONSTANTS
  Pairings = {p1, p2}
  TTL = 1
  TICKET_TTL = 1
  REGISTRATION_WINDOW = 1
  MAX_LIVE = 1
  MAX_RECORDS = 1
  FAILURE_LIMIT = 2
  MAX_POLLS = 1
  REGISTRATION_LIMIT = 1
  QUEUE = 1
  MaxTime = 2
  MaxTickets = 1
  MaxOther = 1
SYMMETRY Symmetry
INVARIANTS
  DesktopTold
  LimitsHold

SPECIFICATION FairSpec
CONSTANTS
  Pairings = {p1}
  TTL = 1
  TICKET_TTL = 1
  REGISTRATION_WINDOW = 2
  MAX_LIVE = 1
  MAX_RECORDS = 1
  FAILURE_LIMIT = 2
  MAX_POLLS = 1
  REGISTRATION_LIMIT = 1
  QUEUE = 1
  MaxTime = 4
  MaxTickets = 2
  MaxOther = 1
INVARIANTS
  TypeOK
  NoLostWakeup
  OneRegistrationInFlight
PROPERTIES
  EndedIsFinal
  RegisteredInWindow
  TicketSpentOnce
  OutcomeDelivered
  EveryPairingEnds

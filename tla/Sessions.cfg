SPECIFICATION Spec
CONSTANTS
  Devices = {d1, d2}
  Untils = {1}
  FULL_ENABLED = TRUE
  ENABLE_UNTIL = 2
  VIEW_IDLE = 1
  VIEW_ABSOLUTE = 2
  ELEVATION_MAX = 2
  FULL_MAX = 1
  CEREMONY_TTL = 1
  SESSIONS_PER_DEVICE = 1
  MAX_DEVICES = 2
  LOGIN_LIMIT = 1
  FAILURE_LIMIT = 2
  PEERS_PER_DEVICE = 2
  MAX_PEERS = 3
  MaxTime = 2
  MaxSessions = 2
  MaxChallenges = 3
  MaxPeers = 4
SYMMETRY Symmetry
INVARIANTS
  TypeOK
  NoOrphanSession
  ElevationCovered
  PeerBacked
  ChallengeOnce
  LimitsExact

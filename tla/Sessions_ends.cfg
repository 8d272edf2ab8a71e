SPECIFICATION FairSpec
CONSTANTS
  Devices = {d1, d2}
  Untils = {}
  FULL_ENABLED = FALSE
  ENABLE_UNTIL = 2
  VIEW_IDLE = 2
  VIEW_ABSOLUTE = 2
  ELEVATION_MAX = 2
  FULL_MAX = 1
  CEREMONY_TTL = 1
  SESSIONS_PER_DEVICE = 2
  MAX_DEVICES = 2
  LOGIN_LIMIT = 1
  FAILURE_LIMIT = 2
  PEERS_PER_DEVICE = 2
  MAX_PEERS = 2
  MaxTime = 2
  MaxSessions = 4
  MaxChallenges = 4
  MaxPeers = 1
PROPERTIES
  EndedForACause
  OverIsHungUp

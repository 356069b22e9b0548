CONSTANTS
  MAX_LIMIT = 3
  DEFAULT_LIMIT = 2
  MCP_DEFAULT_LIMIT = 1
  RRF_K = 60
  MaxRank = 3
  Denominator = 4765320
  MAX_CHUNKS = 2
  PageLimits = {0, 1}
  MaxPending = 2
  TARGET_CHUNK_CHARS = 5
  CHUNK_OVERLAP_CHARS = 2
  MAX_WINDOWS = 3
  Budgets <- Behaviours
SPECIFICATION FairSpec
INVARIANTS TypeOK WalksAreExact FeedMissesNothing RevokedNeverSurface FusionIsFair NoTextIsLost
PROPERTIES IndexHeals
CHECK_DEADLOCK FALSE

CONSTANTS
  KMRefreshRate = 10
  KMPreAnnounce = 3
  ResendShare = 3
  UINT64 = 32
  Lifetime = 2
  MaxSent = 20
SPECIFICATION KeySpec
CHECK_DEADLOCK FALSE
INVARIANT FlagNamesKey

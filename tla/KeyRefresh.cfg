CONSTANTS
  KMRefreshRate = 12
  KMPreAnnounce = 4
  ResendShare = 4
  UINT64 = 32
  Lifetime = 2
  MaxSent = 37
SPECIFICATION KeySpec
CHECK_DEADLOCK FALSE
INVARIANTS ConfirmedKeyIsShared DecryptedInTransit RefusedIsKnown
PROPERTY KeysAreRenewed

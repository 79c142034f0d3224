CONSTANTS
  Peer = {p, q}
  SocketId = {s}
  Faults = {"none"}
  Crypt = {"locked"}
  RcvQueueSize = 1
  BacklogSize = 1
  MaxReq = 2
  MaxArrivals = 4
  MaxCounter = 2
SPECIFICATION FairSpec
CHECK_DEADLOCK FALSE
INVARIANTS TablesAgree ReservationHeld
PROPERTIES CookieIsRecent CloseCompletes

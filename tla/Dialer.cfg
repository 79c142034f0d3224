CONSTANTS
  RcvQueueSize = 1
  MaxHandshakes = 3
SPECIFICATION DialSpec
CHECK_DEADLOCK FALSE
INVARIANT PeerIsTold
PROPERTIES NoConnectionLeaks ClosedWithItsConnection 

SPECIFICATION FairSpec
CONSTANTS
  None = None
  Publisher = {p1, p2}
  Subscriber = {s1, s2}
  IncomingSize = 1
  ListenerSize = 1
  MaxPacket = 2
INVARIANTS OnePublisher RelayedInOrder NothingMissed
CHECK_DEADLOCK FALSE
PROPERTIES StreamEnds

CONSTANTS
  NetworkQueueSize = 1
  ReadQueueSize = 2
  WriteQueueSize = 1
  PayloadSize = 2
  Lengths = {5}
  MaxPkt = 3
  MaxByte = 10
SPECIFICATION Spec
INVARIANTS ReadInOrder NoSilentLoss
PROPERTIES WrittenInOrder SilentPeerIsNoticed

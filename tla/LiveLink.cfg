CONSTANTS
  MaxWords = 2
  MAX = 15
  InitialSequenceNumber = 15
  ProbeInterval = 16
  DropThresholds = {1}
  LastWrite = 1
  MaxPush = 3
  MaxRetrans = 1
  PeriodicACKInterval = 1
  NAKIntervals = {1}
  LightACKPackets = 64
  MaxPkt = 3
  Latency = 1
  SendMaxTime = 2
  ReceiveMaxTime = 2
SPECIFICATION Spec
INVARIANT NoPrematureRelease
PROPERTY ImplementsChannel

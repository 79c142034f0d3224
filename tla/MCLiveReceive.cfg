CONSTANTS
  MaxWords = 2
  MAX = 13
  InitialSequenceNumber = 13
  PeriodicACKInterval = 1
  NAKIntervals = {2}
  LightACKPackets = 2
  DeliveryTimes = {1, 3}
  MaxTime = 3
  LastArrival = 1
  MaxPkt = 3
SPECIFICATION FairSpec
INVARIANTS
  BufferOrder PacketsAccounted LostAreTheGaps ScansAreTheLoops
PROPERTIES
  DeliveredInOrder ACKIsHonest NAKIsExact EventuallyLeavesBuffer

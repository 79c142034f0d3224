CONSTANTS
  MAX = 9
  InitialSequenceNumber = 9
  ProbeInterval = 4
  DropThresholds = {1, 2}
  MaxTime = 4
  LastWrite = 2
  MaxPush = 3
  MaxRetrans = 1
SPECIFICATION FairSpec
INVARIANTS QueuesInOrder SendAccounted
PROPERTY EventuallyReleased

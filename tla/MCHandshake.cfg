CONSTANTS
  DialerConfigs <- DialerConfigsMC
  ListenerConfigs <- ListenerConfigsMC
  Offers = {4, 5}
  MaxInductions = 2
SPECIFICATION Spec
CHECK_DEADLOCK FALSE
INVARIANTS PacketsSurvive QueryKeepsConfig  FirstPacketIsRead

SPECIFICATION FairSpec
CONSTANTS
  Size = 6
  LineLen = 3
  PacketLen = 2
  MaxLines = 2
  MaxPackets = 2
PROPERTIES
  TransmitQueueSpec
  SendEnds
CHECK_DEADLOCK FALSE

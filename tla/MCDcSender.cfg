CONSTANTS
  Frames = 5
  PacketCount <- MCPacketCount
  PacketSize = 2
  Threshold = 3
  Capacity = 1
  SendCanFail = TRUE
  MayClose = TRUE
SPECIFICATION FairSpec
INVARIANTS FramesNotInterleaved BufferedAmountExact NoLostWakeup
PROPERTY FramesSettle
CHECK_DEADLOCK FALSE

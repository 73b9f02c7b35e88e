CONSTANTS
  MaxCalls = 3
  PacketBytes <- MCPacketBytes
  Threshold = 2
  SendCanFail = TRUE
  MaxResumes = 1
  MayClose = TRUE
SPECIFICATION FairSpec
INVARIANTS FirstSendsInOrder RepeatsOnlyMissing
PROPERTY PublishServed
CHECK_DEADLOCK FALSE

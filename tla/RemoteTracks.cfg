CONSTANTS
  t1 = t1
  t2 = t2
  c1 = c1
  c2 = c2
  NoTrack = noTrack
  NoSubscriber = noSubscriber
  Tracks <- MCOneTrack
  Subscribers <- MCSubscribers
  Capacity = 2
  PacketCapacity = 1
  MaxPackets = 2
  MaxRestarts = 1
  MayUnpublish = TRUE
  MayTimeOut = TRUE
  MayClose = TRUE
SPECIFICATION Spec
INVARIANTS IndexSound SfuAgrees StreamsEndWithTrack
CHECK_DEADLOCK FALSE

CONSTANTS
  t1 = t1
  t2 = t2
  c1 = c1
  c2 = c2
  NoTrack = noTrack
  NoSubscriber = noSubscriber
  Tracks <- MCTracks
  Subscribers <- MCSubscribers
  Capacity = 2
  PacketCapacity = 1
  MaxPackets = 0
  MaxRestarts = 1
  MayUnpublish = TRUE
  MayTimeOut = FALSE
  MayClose = FALSE
SPECIFICATION Spec
INVARIANT ActiveIsRouted
CHECK_DEADLOCK FALSE

CONSTANTS
  t1 = t1
  t2 = t2
  NoTrack = noTrack
  Tracks <- MCTracks
  EventBufferCount = 2
  HandleLimit = 1
  MaxPushes = 1
  MaxRestarts = 2
  SfuMayRefuse = TRUE
  MayTimeOut = TRUE
  MayCloseRoom = TRUE
SPECIFICATION LocalTracksFairSpec
INVARIANTS NoOrphan PublishedIsServed
PROPERTY ShutdownEnds
CHECK_DEADLOCK FALSE

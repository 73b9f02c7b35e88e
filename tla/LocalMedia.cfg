CONSTANTS
  t1 = t1
  Tracks <- MCTracks
  FaultSets <- MCFaultSets
  MaxSessions = 3
  MaxEvents = 3
SPECIFICATION FairSpec
INVARIANTS TransceiverInPlace ServerAgrees
PROPERTIES TracksRestored ReconnectingEnds
CHECK_DEADLOCK FALSE

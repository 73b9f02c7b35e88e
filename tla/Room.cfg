CONSTANTS
  a1 = a1
  ApiCallers <- MCApiCallers
  MaxFaults = 2
  MaxAttempts = 2
  ResumeCanFail = TRUE
  RestartCanFail = TRUE
  ServerLeaves = TRUE
  UserClose = TRUE
SPECIFICATION FairSpec
INVARIANTS ApiUsesLatest NoStaleEvents
PROPERTIES 
  DisconnectClosesRoom ReconnectingEnds CycleTerminates FaultHandled
CHECK_DEADLOCK FALSE

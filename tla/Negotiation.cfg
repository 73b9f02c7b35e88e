CONSTANTS
  t1 = t1
  t2 = t2
  p1 = p1
  p2 = p2
  Debounce = debounce
  Free = free
  NoMsg = noMsg
  Tasks <- MCTasks
  Offerers <- MCOfferers
  Publishers <- MCPublishers
  FastPublish = {TRUE, FALSE}
  FaultSets <- MCFaultSets
  MaxRestarts = 1
  MaxCandidates = 1
  MaxChanges = 2
SPECIFICATION FairSpec
INVARIANTS RenegotiateWillBeRead InProgressHasTask CandidateConservation
PROPERTIES NegotiatorTerminates RetryHonoured AnswerMatchesOffer
CHECK_DEADLOCK FALSE

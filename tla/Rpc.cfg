CONSTANTS
  r1 = r1
  r2 = r2
  Calls <- MCCalls
  MaxFailures = 1
  MaxResumes = 1
  MaxTail = 1
  Cancellable <- MCCancellable
SPECIFICATION FairSpec
INVARIANT NoStaleEntries
PROPERTY KeepsPromise
CHECK_DEADLOCK FALSE

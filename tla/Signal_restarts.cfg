CONSTANTS
  app1 = app1
  app2 = app2
  nego = nego
  Engine = engine
  Free = free
  Senders <- MCSenders
  Queueable <- MCQueueable
  MaxSends = 2
  MaxFaults = 2
  MaxRestarts = 1
SPECIFICATION FairSpec
INVARIANTS Conserved SenderOrder
PROPERTIES QueueDelivered
CHECK_DEADLOCK FALSE

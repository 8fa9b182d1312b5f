SPECIFICATION FairSpec
CONSTANTS
  ThreadCount = 2
  Hosts = {"h"}
  MaxRequests = 3
INVARIANTS
  AnsweredOnce
  NoUseAfterDelete
PROPERTY
  DeleteReturns
CHECK_DEADLOCK FALSE

SPECIFICATION FairSpec
CONSTANTS
  Resources = {"a", "b"}
  Loaded = {"a"}
  MaxRequests = 3
  MaxBoots = 3
  MaxFaults = 1
INVARIANTS
  RequestsConserved
  SessionIndexKept
  BootRecovers
  StoredIsMounted
PROPERTIES
  RequestsAnswered
  FinalizeReturns
CHECK_DEADLOCK FALSE

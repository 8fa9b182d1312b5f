SPECIFICATION FairSpec
CONSTANTS
  Names <- MCNames
  Malformed = {"bad"}
  Paths <- MCPaths
  CanonicalPath <- MCCanonicalPath
  Worlds <- SafetyWorlds
  MAX_PRELOADER_REQUESTS = 4
  QUEUE_SLOTS = 2
  ExternalNames = {"b", "c"}
  MaxLost = 2
INVARIANTS
  NoAssertFails
  TreeIsSound
  WorkerNamesLiveRequests
  PostCreateOnLiveResource
  ReferenceCountsExact
  AgreesWithGet
  AllNamesLoaded
PROPERTIES
  PreloaderFinishes
  DeletePreloaderReturns

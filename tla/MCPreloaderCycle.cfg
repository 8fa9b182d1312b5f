SPECIFICATION FairSpec
CONSTANTS
  Names <- MCNames
  Malformed = {"bad"}
  Paths <- MCPaths
  CanonicalPath <- MCCanonicalPath
  Worlds <- CrossCycleWorlds
  MAX_PRELOADER_REQUESTS = 5
  QUEUE_SLOTS = 2
  ExternalNames = {}
  MaxLost = 1
PROPERTIES
  PreloaderFinishes

SPECIFICATION FairSpec
CONSTANTS
  Threads = {c1}
  Hosts = {h}
  Secure = {h}
  Addresses <- DualStack
  MaxConnections = 2
  MaxDescriptors = 3
  VersionRange = 2
  MaxGetRetries = 2
PROPERTIES
  ShutdownDrains
CHECK_DEADLOCK FALSE

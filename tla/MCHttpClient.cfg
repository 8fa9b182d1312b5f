SPECIFICATION Spec
CONSTANTS
  Threads = {c1, c2}
  Hosts = {h}
  Secure = {h}
  Addresses <- OnlyIPv6
  MaxConnections = 2
  MaxDescriptors = 2
  VersionRange = 2
  MaxGetRetries = 1
INVARIANTS
  SocketsOwnedOnce
  ConnectionsHeldByOne
  RetriesSuffice
SYMMETRY ThreadsSymmetry
CHECK_DEADLOCK FALSE

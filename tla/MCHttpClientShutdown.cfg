SPECIFICATION Spec
CONSTANTS
  Threads = {c1}
  Hosts = {h}
  Secure = {h}
  Addresses <- OnlyIPv6
  MaxConnections = 2
  MaxDescriptors = 2
  VersionRange = 2
  MaxGetRetries = 1
INVARIANTS
  NoneInUseAfterShutdown

CHECK_DEADLOCK FALSE

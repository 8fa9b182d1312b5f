SPECIFICATION Spec
CONSTANTS
  Resources = {"a", "b"}
  Loaded = {}
  MaxRequests = 2
  MaxBoots = 2
  MaxFaults = 0
INVARIANT StoredIsReadable
CHECK_DEADLOCK FALSE

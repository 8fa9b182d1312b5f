SPECIFICATION Spec
CONSTANTS
  Owners = {o1, o2}
  INITIAL_TIMER_CAPACITY = 1
  TIMER_CAPACITY_GROWTH = 3
  MAX_TIMER_CAPACITY = 3
  VersionRange = 16
  Delays = {0, 2}
  Steps = {1, 3}
  MaxTimers = 3
INVARIANTS
  IndicesConsistent
  HandleFindsItsTimer
  NeverOverdue
PROPERTIES
  RefinesPromise

SPECIFICATION Spec
CONSTANTS
  Names = {n1, n2}
  NoName = NoName
  QUEUE_SLOTS = 3
  COUNTER_RANGE = 6
  DEFAULT_CAPACITY = 1
  MAX_PENDING_DATA = 4
  Sizes = {1, 3}
  ReadErrors = TRUE
SYMMETRY NamesSymmetry
INVARIANTS
  RingPartition
  NoLostWakeup
  DeliversRequested
  ThrottleBound
  BytesCovered
PROPERTIES
  BufferStable

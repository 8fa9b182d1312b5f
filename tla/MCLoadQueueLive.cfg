SPECIFICATION FairSpec
CONSTANTS
  Names = {n1}
  NoName = NoName
  QUEUE_SLOTS = 3
  COUNTER_RANGE = 6
  DEFAULT_CAPACITY = 1
  MAX_PENDING_DATA = 4
  Sizes = {1, 3}
  ReadErrors = FALSE
PROPERTIES
  EveryLoadFinishes
  DeleteQueueReturns
  RefinesPromise

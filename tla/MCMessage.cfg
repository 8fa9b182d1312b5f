SPECIFICATION FairSpec
CONSTANTS
  Threads = {owner, p1, p2, c1}
  Owners = {owner}
  Posters = {p1, p2}
  Consumers = {c1}
  Blocking = {c1}
  Names = {n1}
  MAX_SOCKETS = 2
  PageMessages = 2
  Pages = {1, 2, 3}
  MaxPosts = 5
  MaxCreations = 2
INVARIANTS
  DisposedByTheLast
  MessageMemoryIntact
  EveryMessageOnce
  NoPageLost
PROPERTY
  EveryMessageHandled
CHECK_DEADLOCK FALSE

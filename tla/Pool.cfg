\* Two workers, a ring of two: it fills, empties and wraps.
CONSTANTS
  Workers = {w1, w2}
  Sockets = {c1, c2, c3}
  QueueSize = 2
  NoSocket = NoSocket
SPECIFICATION PoolFairSpec
INVARIANTS
  ContextOutlivesThreads
  EveryConnectionHasOneOwner
PROPERTIES
  IsSocketQueue
  ConnectionsAnswered
  StopReturnsUnlessOverslept
CHECK_DEADLOCK FALSE

\* Two workers and a queue of one; the application calls Server from the UI
\* thread or from a thread of its own.
CONSTANTS
  Workers = {w1, w2}
  Sockets = {c1, c2}
  QueueSize = 1
  NoSocket = NoSocket
  Sessions = {s1}
  NoSession = NoSession
  UrlBases = {}
  NoBase = NoBase
  Lists = {}
SPECIFICATION FairSpec
INVARIANTS
  TypeOK
  RoutesOutliveRequests
  StateMatchesPool
PROPERTIES
  StopClosesSessions
  DeadlocksAreFinal
  StopEnds
CHECK_DEADLOCK FALSE

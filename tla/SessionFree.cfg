\* Two HTTP threads, clients that overlap any two requests: what the locks of the
\* manager alone guarantee.  After a use of a freed session the process has no
\* defined behaviour, so the model stops there.
CONSTANTS
  Workers = {w1, w2}
  Sessions = {s1, s2}
  Windows = {v1, v2}
  NoSession = NoSession
  NoWindow = NoWindow
  AppProxy = AppProxy
  MayOverlap <- FreeClients
SPECIFICATION Spec
SYMMETRY Symmetry
INVARIANTS
  GoneWhenAnswered
  ManagerMatchesObjects
CHECK_DEADLOCK FALSE

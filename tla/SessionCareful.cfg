\* Two HTTP threads, clients that never overlap requests that can delete
\* each other's session, fair threads.  No symmetry: it is unsound for liveness.
CONSTANTS
  Workers = {w1, w2}
  Sessions = {s1, s2, s3}
  Windows = {v1}
  NoSession = NoSession
  NoWindow = NoWindow
  AppProxy = AppProxy
  MayOverlap <- CarefulClients
SPECIFICATION FairSpec
INVARIANTS
  TypeOK
  NoUseAfterFree
  SingleSession
  ProxyRestored
  CreateAnswered
PROPERTY RequestsAnswered

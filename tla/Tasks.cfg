\* Four HTTP threads calling on three sessions: up to three nested event loops, and
\* two calls queued behind each other on a session.
CONSTANTS
  Workers = {w1, w2, w3, w4}
  Sessions = {s1, s2, s3}
  NoWorker = NoWorker
SPECIFICATION FairSpec
INVARIANTS
  SessionTasksDoNotNest
  BlockedUntilRun
PROPERTIES
  IsSynchronousCall
  CallsReturn

\* A server that is stopped, reset and configured again with other options.
CONSTANTS
  Workers = {w1}
  Sockets = {c1}
  QueueSize = 1
  NoSocket = NoSocket
  Sessions = {s1}
  NoSession = NoSession
  UrlBases = {b1}
  NoBase = NoBase
  Lists = {l1}
SPECIFICATION Spec
INVARIANT OptionsInEffect
CHECK_DEADLOCK FALSE

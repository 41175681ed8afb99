\* Seven patterns, six of them registrable, two creators: every table that any
\* sequence of calls can build from them.
CONSTANTS
  a = a
  b = b
  Segments = {a, b}
  Star = Star
  Urls <- Paths
  Patterns <- Tried
  Registrable <- Allowed
  Creators = {c1, c2}
  NoCreator = NoCreator
SPECIFICATION Spec
INVARIANTS
  WellOrdered
  BestMatchAnswers
PROPERTY IsRouteMap

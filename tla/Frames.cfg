\* Two clients, an iframe in an iframe, paths of up to three.
CONSTANTS
  outer = outer
  inner = inner
  other = other
  Main = Main
  Frames <- TheFrames
  ParentOf <- TheParents
  Clients = {c1, c2}
  MaxPath = 3
  MaxId = 5
  NoId = NoId
  MaxWait = 1
SPECIFICATION FairSpec
INVARIANTS
  TypeOK
  NoOtherFrame
  PathsLeadUnlessDeleted
PROPERTY SearchesEnd
CHECK_DEADLOCK FALSE

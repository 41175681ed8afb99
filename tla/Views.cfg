\* Two clients, and an application that opens two more windows.
CONSTANTS
  Windows = {w1, w2}
  FirstWindow = w1
  Clients = {c1, c2}
  MaxId = 4
  NoView = NoView
  NoWindow = NoWindow
  ClosesOldView = TRUE
SPECIFICATION FairSpec
INVARIANTS
  TypeOK
  ElementsHaveViews
PROPERTIES
  OpenViewsKeepTheirIds
  DeletedViewsVanish
CHECK_DEADLOCK FALSE

\* Up to five loads, with redirections and failures in any place.
CONSTANTS MaxLoads = 5
SPECIFICATION FairSpec
INVARIANTS
  NoFinishIsMissed
PROPERTIES
  NavigationsAwaitTheirLoad
  WaitsEnd
CHECK_DEADLOCK FALSE

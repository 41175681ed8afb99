\* One load that never ends is enough; two leave room for one that is replaced.
CONSTANTS MaxLoads = 2
SPECIFICATION FairSpec
PROPERTY TimeoutsAreReported
CHECK_DEADLOCK FALSE

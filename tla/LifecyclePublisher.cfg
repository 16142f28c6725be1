CONSTANTS
  Flushers = {f1, f2}
  Nobody = Nobody
  MaxEvents = 3
  MaxFaults = 3
SPECIFICATION FairSpec
INVARIANTS PublishedInOrder
PROPERTIES TrailIsExact FlushCompletes
CHECK_DEADLOCK FALSE

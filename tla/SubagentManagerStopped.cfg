CONSTANTS
  Executors = {"asyncio"}
  AuditOn = TRUE
  Cancellers = {"stop"}
  MaySwallow = FALSE
  MaxCrashes = 0
SPECIFICATION Spec
INVARIANTS StoppedRunEnds
CHECK_DEADLOCK FALSE

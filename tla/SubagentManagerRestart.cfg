CONSTANTS
  Executors = {"process"}
  AuditOn = TRUE
  Cancellers = {"stop"}
  MaySwallow = FALSE
  MaxCrashes = 1
SPECIFICATION Spec
INVARIANTS RestartRecovers
CHECK_DEADLOCK FALSE

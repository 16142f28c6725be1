CONSTANTS
  Executors = {"asyncio", "process"}
  AuditOn = TRUE
  Cancellers = {"stop", "deadline"}
  MaySwallow = TRUE
  MaxCrashes = 1
SPECIFICATION FairSpec
INVARIANTS UncancelledRunReports EndedIsSettled ConfirmedIsGone
PROPERTIES KeepsContract StopReturns
CHECK_DEADLOCK FALSE

CONSTANTS
  r1 = r1
  r2 = r2
  r3 = r3
  s1 = s1
  s2 = s2
  Call = {c1, c2, c3}
  NoCall = NoCall
  Run = {r1, r2, r3}
  SessionOf <- MCSessionOf
  Brief = {"a"}
  GoalSessions = {s1}
  MaxConcurrent = 2
  MaxPerRun = 2
  MaxPerSession = 3
  MaxTokens = 4
  Reserve = 2
  Consumption = {1, 3}
  AuditOn = TRUE
  MaxCrashes = 1
  MaxFaults = 1
SPECIFICATION Spec
SYMMETRY Interchangeable
INVARIANTS ConcurrencyCap ChildCaps TokenCap NoTwins RequiredIsRegistered RaisedLeavesNothing
CHECK_DEADLOCK FALSE

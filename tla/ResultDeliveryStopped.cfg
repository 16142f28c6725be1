CONSTANTS
  User = {u1}
  Result = {r1}
  NoOne = NoOne
  QueueSize = 1
  DrainLimit = 2
  MaxCycles = 1
  MaxRounds = 2
  MaxStops = 1
  MaxCrashes = 0
  MaxFaults = 0
SPECIFICATION Spec
PROPERTIES StopKeepsWork
CHECK_DEADLOCK FALSE

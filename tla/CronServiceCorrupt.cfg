SPECIFICATION Spec
CONSTANTS
  a = a
  s = s
  UserJobs = {a}
  SystemJobs = {s}
  Period = 1
  MaxSleep = 1
  Faults = {"spoil"}
  Bad = Bad
  MaxTime = 2
  MaxEdits = 1
  MaxFaults = 1
PROPERTIES CorruptionKeepsJobs
CHECK_DEADLOCK FALSE

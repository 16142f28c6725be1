SPECIFICATION FairSpec
CONSTANTS
  a = a
  s = s
  UserJobs = {a}
  SystemJobs = {s}
  Period = 1
  MaxSleep = 1
  Faults = {"crash", "save", "spoil"}
  Bad = Bad
  MaxTime = 3
  MaxEdits = 3
  MaxFaults = 1
INVARIANTS NoJobVanishes GoneStaysGone
PROPERTIES RunOncePerDue DueIsRun
CHECK_DEADLOCK FALSE

CONSTANTS
  User = {u1}
  Result = {r1, r2}
  NoOne = NoOne
  QueueSize = 1
  DrainLimit = 2
  MaxCycles = 1
  MaxRounds = 2
  MaxStops = 1
  MaxCrashes = 1
  MaxFaults = 1
SPECIFICATION FairSpec
INVARIANTS NoSilentLoss ConversationOnce DeliveredIsHeard
PROPERTIES OldRoundsFirst EventuallyHeard
CHECK_DEADLOCK FALSE

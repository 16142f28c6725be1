SPECIFICATION FairSpec
CONSTANTS
  d1 = d1
  d2 = d2
  d3 = d3
  c1 = c1
  u1 = u1
  u2 = u2
  s1 = s1
  s2 = s2
  Delivery = {d1, d2, d3}
  CronRun = {c1}
  User = {u1, u2}
  Command = {d2}
  Shut = {d3}
  Session = {s1, s2}
  NoOne = NoOne
  Absent = Absent
  SessionOf <- MCSessionOf
  BatchSize = 2
  MaxAttempts = 2
  Turns = 1
  MaxStops = 1
  Budget = 2
INVARIANTS AtLeastOnce OneCopy NoNeedlessTurn DeferredHasHost
PROPERTIES AnswerComes QueueMoves
CHECK_DEADLOCK FALSE

CONSTANTS
  Tasks = {t1, t2, t3}
  NoTask = NoTask
  Runs = {r1, r2}
  Reports = {"grace_waiting", "cooperatively_exited", "termination_failed"}
  Outcomes = {"succeeded", "failed", "cancelled"}
  MaxGoals = 2
SPECIFICATION Spec
SYMMETRY Interchangeable
INVARIANTS ChainsAreAttempts GateIsLeaves GuardIsGate CompletedIsEarned StoppedIsConfirmed
PROPERTIES ObligationEndsOnce

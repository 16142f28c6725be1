CONSTANTS
  Tasks = {t1}
  Phases = {"initializing", "running_model"}
  Usages = {u0, u1}
  NoUsage = u0
  MaxRevision = 6
SPECIFICATION Spec
INVARIANTS OutboxKeysUnique OutboxTracksRecord OneEnd ClaimsBalance
PROPERTIES EndIsFinal
CHECK_DEADLOCK FALSE

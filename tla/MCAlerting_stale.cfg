\* Two administrators who edit at the same time.
SPECIFICATION Spec
CONSTANTS
  Logs = {l1}
  Times <- Clock
  Admins = {a1, a2}
  MaxRules = 2
  Threshold <- Thresholds
  Window <- Ones
  Cooldown <- Ones
  AlertQueue = 1
  Attempts = 2
  MaxEdits = 3
  MaxTests = 0
CHECK_DEADLOCK FALSE
INVARIANT RulesTakeEffect

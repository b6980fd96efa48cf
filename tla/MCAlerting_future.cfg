\* One log far ahead of the other.
SPECIFICATION Spec
CONSTANTS
  Logs = {l1, l2}
  Times <- FarApart
  Admins = {a1}
  MaxRules = 2
  Threshold <- Thresholds
  Window <- Ones
  Cooldown <- Ones
  AlertQueue = 1
  Attempts = 2
  MaxEdits = 2
  MaxTests = 0
CHECK_DEADLOCK FALSE
INVARIANT QuietOnlyInCooldown

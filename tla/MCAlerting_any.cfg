\* One administrator, two logs with any times, two rules.
SPECIFICATION FairSpec
CONSTANTS
  Logs = {l1, l2}
  Times <- Clock
  Admins = {a1}
  MaxRules = 2
  Threshold <- Thresholds
  Window <- Ones
  Cooldown <- Ones
  AlertQueue = 1
  Attempts = 2
  MaxEdits = 2
  MaxTests = 1
CHECK_DEADLOCK FALSE
INVARIANTS TypeOK CooldownHolds CountedOnce RulesTakeEffect FiresAreCounted
PROPERTIES QueueMovesOn

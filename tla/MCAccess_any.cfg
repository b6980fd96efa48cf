\* A browser, a script, two devices, two calls, two lives.
SPECIFICATION Spec
CONSTANTS
  Admins = {browser, script}
  Scripts = {script}
  Calls = {c1, c2}
  MaxDevices = 2
  TTL = 1
  MaxSessions = 1
  MaxLogins = 2
  MaxNow = 2
  MaxBoots = 2
CHECK_DEADLOCK FALSE
INVARIANTS TypeOK RevokedIsOut CreatedWorks ActivityIsKept SessionLasts RefusedOnlyWhenFull
PROPERTIES ImplementsTokens

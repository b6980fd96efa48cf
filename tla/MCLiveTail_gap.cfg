\* A client that reconnects between a broadcast and its commit.
SPECIFICATION Spec
CONSTANTS
  Clients = {c1}
  Records <- Two
  MaxFrames = 2
  Settings <- Reconnecting
  MaxReplay = 3
  MaxConns = 2
  MaxRestarts = 0
CHECK_DEADLOCK FALSE
INVARIANT NothingMissed

\* Two requests, pruning, a kill or a shutdown, and a second process.  A request of kind
\* "one" acts as a batch of one record, and MCIngest_live has it.
SPECIFICATION Spec
CONSTANTS
  Requests = {r1, r2}
  Kinds = {"sync", "batch", "mcp"}
  Bodies <- Batches
  QueueCap = 1
  MaxBatch = 2
  MaxLen = 2
  MaxRows = 1
  AgeCap = TRUE
  MaxBoots = 2
  MaxCrashes = 1
SYMMETRY Symmetry
INVARIANTS TypeOK AnswersAreTrue MetricsAgree Accounted IdsInv StoredAsBroadcast RedeployLosesNothing
PROPERTIES NeverOverwrites ImplementsLogFeed

\* Liveness: two requests, one process that may be shut down.
SPECIFICATION FairSpec
CONSTANTS
  Requests = {r1, r2}
  Kinds = {"one", "sync", "batch"}
  Bodies <- HalfValid
  QueueCap = 1
  MaxBatch = 2
  MaxLen = 2
  MaxRows = 0
  AgeCap = FALSE
  MaxBoots = 1
  MaxCrashes = 0
PROPERTIES SyncIsAnswered EveryRecordSettles ShutdownEnds
INVARIANTS AnswersAreTrue MetricsAgree

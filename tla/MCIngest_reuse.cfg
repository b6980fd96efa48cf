\* Ids across a redeploy, when the age cap has emptied the table.
SPECIFICATION Spec
CONSTANTS
  Requests = {r1, r2}
  Kinds = {"sync"}
  Bodies <- One
  QueueCap = 1
  MaxBatch = 1
  MaxLen = 2
  MaxRows = 0
  AgeCap = TRUE
  MaxBoots = 2
  MaxCrashes = 0
INVARIANT NoIdReuse

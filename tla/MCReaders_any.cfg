\* Two queries on a pool of one, an export whose client may stop reading.
SPECIFICATION FairSpec
CONSTANTS
  Queries = {q1, q2}
  Exports = {e1}
  q1 = q1
  q2 = q2
  Kinds <- AllOf
  Ids = {1, 2, 3}
  First = {1, 3}
  Hits = {2, 3}
  Window = {1, 2, 3}
  Device <- Devices
  Tag <- Tags
  TopNames = 1
  Size = 1
  MaxExports = 1
  Threads = 2
  PageLimit = 1
  Around = 1
  ChunkRows = 2
  ChunkBuffer = 1
  MaxChanges = 2
CHECK_DEADLOCK FALSE
INVARIANTS TypeOK ConnectionsBounded WalkShowsAll ContextIsGapless StatsAgree ExportIsWhole
PROPERTIES QueriesEnd

\* Handlers, writer and client interleaved at will; or records ingested one by one,
\* a ring of one or two, and clients that connect between the records.
SPECIFICATION FairSpec
CONSTANTS
  Clients = {c1}
  Records <- Three
  MaxFrames = 3
  Settings <- AnyOrSettled
  MaxReplay = 3
  MaxConns = 2
  MaxRestarts = 1
CHECK_DEADLOCK FALSE
INVARIANTS TypeOK OncePerConnection NoDuplicates NothingMissed
PROPERTIES SkippedWereReplayed StreamsEnd

------------------------------- MODULE Readers -------------------------------
(***************************************************************************)
(* The read path of logger_server: queries on a pool of connections, and   *)
(* exports that stream the whole table to a client, beside a writer that   *)
(* commits and prunes.                                                     *)
(*                                                                         *)
(* A statement sees the table as it is when it starts (WAL), and no query  *)
(* opens a transaction around several.  Of a row only its id is kept, and, *)
(* as constants, whether it is one of the Hits of the filters or within    *)
(* the Window of the stats, and its Device and Tag.                        *)
(***************************************************************************)
EXTENDS Integers, Sequences, FiniteSets, FiniteSetsExt

CONSTANTS
  Queries, Exports,   \* requests
  Kinds,              \* what each query may ask for: "walk", "context", "stats", "count"
  Ids, First, Hits,   \* ids, those stored at first, and those the filters select
  Window,             \* the ids between `since` and `until` of the stats
  Device, Tag,        \* of each id; devices and tags are numbers, in the order in
                      \* which SQLite takes groups of equal size
  TopNames,           \* the LIMIT of the breakdowns by device and by name
  Size,               \* reader_conns
  MaxExports,         \* MAX_CONCURRENT_EXPORTS
  Threads,            \* max_blocking_threads
  PageLimit,          \* the `limit` of a page
  Around,             \* `before` and `after` of the context
  ChunkRows, ChunkBuffer,
  MaxChanges          \* bound: commits and prunings

\* main.rs gives the runtime reader_conns + 4 blocking threads; query.rs clamps
\* `limit` to at least 1, `before` and `after` to at least 0.
ASSUME ReadersAssumption ==
  /\ \A q \in Queries : Kinds[q] \subseteq {"walk", "context", "stats", "count"}
  /\ Size \in Nat \ {0} /\ MaxExports \in Nat \ {0} /\ Threads \in Nat
  /\ Threads >= Size + MaxExports
  /\ First \subseteq Ids /\ Hits \subseteq Ids /\ Ids \subseteq Nat \ {0} /\ IsFiniteSet(Ids)
  /\ Window \subseteq Ids /\ {Device, Tag} \subseteq [Ids -> Nat] /\ TopNames \in Nat \ {0}
  /\ PageLimit \in Nat \ {0} /\ Around \in Nat
  /\ ChunkRows \in Nat \ {0} /\ ChunkBuffer \in Nat \ {0}

VARIABLES
  rows,      \* the table
  ever,      \* history: the ids that ever had a row
  changes,
  idle,      \* how many connections are in the pool
  permits,   \* Reader::permits
  slots,     \* Reader::exports
  query,
  export

vars == <<rows, ever, changes, idle, permits, slots, query, export>>

NoQuery == [pc |-> "new", kind |-> "none", at |-> 0, from |-> {}, got |-> <<>>]
Over == [NoQuery EXCEPT !.pc = "over"]
NoExport == [pc |-> "new", json |-> FALSE, snap |-> {}, last |-> 0, chan |-> <<>>, got |-> <<>>]

Init ==
  /\ rows = First /\ ever = First /\ changes = 0
  /\ idle = Size /\ permits = Size /\ slots = MaxExports
  /\ query = [q \in Queries |-> NoQuery]
  /\ export = [e \in Exports |-> NoExport]

----------------------------------------------------------------------------
(* The writer.                                                             *)

\* Ids are committed in any order, and never again after they were pruned.
Commit ==
  \E S \in SUBSET (Ids \ ever) \ {{}} :
    /\ changes < MaxChanges /\ changes' = changes + 1
    /\ rows' = rows \cup S /\ ever' = ever \cup S
    /\ UNCHANGED <<idle, permits, slots, query, export>>

Prune ==
  \E S \in SUBSET rows \ {{}} :
    /\ changes < MaxChanges /\ changes' = changes + 1
    /\ rows' = rows \ S
    /\ UNCHANGED <<ever, idle, permits, slots, query, export>>

----------------------------------------------------------------------------
(* with_conn.                                                              *)

At(q, place) == query[q].pc = place
Go(q, place) == query' = [query EXCEPT ![q].pc = place]
Finished(q) == query' = [query EXCEPT ![q] = Over]

\* The closure of a query runs on a blocking thread while it is at one of these.
OnThread == {"reading", "returning", "pushed"}
Busy == {q \in Queries : query[q].pc \in OnThread}
Streaming == {e \in Exports : export[e].pc = "rows"}

\* mutant: the runtime has no more threads than the pool has connections.
NoSpare == Cardinality(Busy) + Cardinality(Streaming) < Size
ThreadFree == Cardinality(Busy) + Cardinality(Streaming) < Threads

Ask(q) ==
  /\ At(q, "new")
  /\ \E k \in Kinds[q], i \in Ids :
       query' = [query EXCEPT ![q] = [pc |-> "waiting", kind |-> k, got |-> <<>>,
                                      from |-> IF k = "count" THEN {} ELSE rows,
                                      at |-> IF k = "context" THEN i ELSE Max(Ids) + 1]]
  /\ UNCHANGED <<rows, ever, changes, idle, permits, slots, export>>

Acquire(q) ==
  /\ At(q, "waiting") /\ permits > 0
  /\ permits' = permits - 1
  /\ Go(q, "queued")
  /\ UNCHANGED <<rows, ever, changes, idle, slots, export>>

\* mutant: a query that gives up while it waits returns a permit.
GiveBack(q) ==
  /\ At(q, "waiting")
  /\ permits' = permits + 1
  /\ Finished(q)
  /\ UNCHANGED <<rows, ever, changes, idle, slots, export>>

\* 408 after the timeout of the route, or the client is gone.  Past this point
\* neither has an effect: the closure owns the permit and runs to its end.
Cancel(q) ==
  /\ At(q, "waiting")
  /\ Finished(q)
  /\ UNCHANGED <<rows, ever, changes, idle, permits, slots, export>>

\* A connection of the pool, or a new one in the place of one a panic dropped.
Open(q) ==
  /\ At(q, "queued") /\ ThreadFree
  /\ idle' = IF idle > 0 THEN idle - 1 ELSE idle
  /\ Go(q, "reading")
  /\ UNCHANGED <<rows, ever, changes, permits, slots, export>>

OpenFails(q) ==
  /\ At(q, "queued") /\ ThreadFree /\ idle = 0
  /\ permits' = permits + 1
  /\ Finished(q)
  /\ UNCHANGED <<rows, ever, changes, idle, slots, export>>

\* The closure unwinds: the connection is dropped, and the permit with it.
Panic(q) ==
  /\ At(q, "reading")
  /\ permits' = permits + 1
  /\ Finished(q)
  /\ UNCHANGED <<rows, ever, changes, idle, slots, export>>

----------------------------------------------------------------------------
(* The statements.                                                         *)

Newest(n, S) == {i \in S : Cardinality({j \in S : j > i}) < n}
Oldest(n, S) == {i \in S : Cardinality({j \in S : j < i}) < n}

\* mutant: the rows before the match are read in ascending order.
Lowest(n, S) == {i \in S : Cardinality({j \in S : j < i}) < n}
Preceding(n, S) == Newest(n, S)

\* mutant: the cursor itself is in the next page.
UpTo(i) == {j \in rows : j <= i}
Below(i) == {j \in rows : j < i}

\* recent, search and by_name differ in the filter alone.
Page(q) == Newest(PageLimit, Below(query[q].at) \cap Hits)

\* GROUP BY: the groups the rows of S fall into, and how many are in one of them.
Groups(f, S) == {f[i] : i \in S}
Count(f, S, g) == Cardinality({i \in S : f[i] = g})

\* mutant: the smallest groups come first.
Behind(f, S, g) ==
  {h \in Groups(f, S) : \/ Count(f, S, h) < Count(f, S, g)
                        \/ Count(f, S, h) = Count(f, S, g) /\ h < g}

\* ORDER BY COUNT(*) DESC: the groups before g.
Ahead(f, S, g) ==
  {h \in Groups(f, S) : \/ Count(f, S, h) > Count(f, S, g)
                        \/ Count(f, S, h) = Count(f, S, g) /\ h < g}

\* The rows that the largest groups count.
Top(f, S) == {i \in S : Cardinality(Ahead(f, S, f[i])) < TopNames}

\* The statements a query of each kind makes: a walk one in each of its requests,
\* stats one for the total and three for the breakdowns by level, device and name,
\* each as the rows it counts.  What a count answers is left out.
Statements(q) ==
  LET i == query[q].at
      inside == rows \cap Window IN
    [walk    |-> [k \in 1..Len(query[q].got) + 1 |-> Page(q)],
     count   |-> <<{}>>,
     stats   |-> <<inside, inside, Top(Device, inside), Top(Tag, inside)>>,
     context |-> <<rows \cap {i}, Preceding(Around, Below(i)), Oldest(Around, {j \in rows : j > i})>>]
    [query[q].kind]

\* The context of a row that is not there ends with its first statement.
NotThere(q) == query[q].kind = "context" /\ query[q].got = <<>> /\ query[q].at \notin rows

Run(q) ==
  LET done == Append(query[q].got, Statements(q)[Len(query[q].got) + 1])
      last == NotThere(q) \/ Len(done) = Len(Statements(q)) IN
    /\ At(q, "reading")
    /\ query' = [query EXCEPT ![q].got = done,
                              ![q].pc = IF last THEN "returning" ELSE "reading"]
    /\ UNCHANGED <<rows, ever, changes, idle, permits, slots, export>>

\* A statement fails, and the answer is a 500; the connection is returned.
RunFails(q) ==
  /\ At(q, "reading")
  /\ query' = [query EXCEPT ![q] = [Over EXCEPT !.pc = "returning"]]
  /\ UNCHANGED <<rows, ever, changes, idle, permits, slots, export>>

----------------------------------------------------------------------------
(* The end of with_conn.                                                   *)

\* A client that walks asks for the rows below the last one until a page is
\* short.
PageOf(q) == query[q].got[Len(query[q].got)]
WalksOn(q) == query[q].kind = "walk" /\ Cardinality(PageOf(q)) = PageLimit
Finish(q) ==
  query' = [query EXCEPT ![q] =
              IF WalksOn(q) THEN [@ EXCEPT !.pc = "waiting", !.at = Min(PageOf(q))] ELSE Over]

\* mutant: the permit is dropped before the connection is back.
DropFirst(q) ==
  /\ \/ At(q, "returning") /\ permits' = permits + 1 /\ Go(q, "pushed") /\ UNCHANGED idle
     \/ At(q, "pushed") /\ idle' = idle + 1 /\ Finish(q) /\ UNCHANGED permits
  /\ UNCHANGED <<rows, ever, changes, slots, export>>

Return(q) ==
  /\ \/ At(q, "returning") /\ idle' = idle + 1 /\ Go(q, "pushed") /\ UNCHANGED permits
     \/ At(q, "pushed") /\ permits' = permits + 1 /\ Finish(q) /\ UNCHANGED idle
  /\ UNCHANGED <<rows, ever, changes, slots, export>>

Reader(q) == Acquire(q) \/ Open(q) \/ OpenFails(q) \/ Run(q) \/ Return(q)

Query(q) == Ask(q) \/ Cancel(q) \/ Panic(q) \/ RunFails(q) \/ Reader(q)

----------------------------------------------------------------------------
(* Exports.                                                                *)

Is(e, place) == export[e].pc = place
Move(e, place) == export' = [export EXCEPT ![e].pc = place]

AskExport(e) ==
  /\ Is(e, "new")
  /\ \E json \in BOOLEAN : export' = [export EXCEPT ![e].pc = "waiting", ![e].json = json]
  /\ UNCHANGED <<rows, ever, changes, idle, permits, slots, query>>

TakeSlot == slots > 0 /\ slots' = slots - 1 /\ UNCHANGED permits

AcquireSlot(e) ==
  /\ Is(e, "waiting") /\ TakeSlot
  /\ Move(e, "queued")
  /\ UNCHANGED <<rows, ever, changes, idle, query>>

CancelExport(e) ==
  /\ Is(e, "waiting")
  /\ Move(e, "over")
  /\ UNCHANGED <<rows, ever, changes, idle, permits, slots, query>>

\* A connection of its own, and the first step of its cursor: from here on it
\* sees this table.
OpenExport(e) ==
  /\ Is(e, "queued") /\ ThreadFree
  /\ export' = [export EXCEPT ![e].pc = "rows", ![e].snap = rows]
  /\ UNCHANGED <<rows, ever, changes, idle, permits, slots, query>>

\* The thread ends, and the permit with it: tx is dropped.
EndExport(e, place) ==
  /\ slots' = slots + 1
  /\ Move(e, place)
  /\ UNCHANGED <<rows, ever, changes, idle, permits, query>>

OpenExportFails(e) == Is(e, "queued") /\ ThreadFree /\ EndExport(e, "cut")

\* mutant: each chunk is read from the table as it is by then.
ToComeNow(e) == {i \in rows : i > export[e].last}
ToCome(e) == {i \in export[e].snap : i > export[e].last}

\* A chunk of rows, and whether it closes the JSON array.  Within a chunk the rows
\* are in the order of the one SELECT; what order there is between chunks is kept.
Send(e, S, closes) ==
  /\ Len(export[e].chan) < ChunkBuffer
  /\ export' = [export EXCEPT ![e].last = Max(S \cup {@}),
                              ![e].pc = IF S = ToCome(e) /\ Cardinality(S) < ChunkRows THEN "sent" ELSE @,
                              ![e].chan = IF S = {} /\ ~closes THEN @
                                          ELSE Append(@, [ids |-> S, closes |-> closes])]

\* blocking_send waits while the channel is full.
SendChunk(e) ==
  /\ Is(e, "rows") /\ Cardinality(ToCome(e)) >= ChunkRows
  /\ Send(e, Oldest(ChunkRows, ToCome(e)), FALSE)
  /\ UNCHANGED <<rows, ever, changes, idle, permits, slots, query>>

SendLast(e) ==
  /\ Is(e, "rows") /\ Cardinality(ToCome(e)) < ChunkRows
  /\ Send(e, ToCome(e), export[e].json)
  /\ slots' = slots + 1
  /\ UNCHANGED <<rows, ever, changes, idle, permits, query>>

\* The cursor fails at a row: rows not yet sent are dropped, and the body ends
\* without a word.
RowFails(e) == Is(e, "rows") /\ EndExport(e, "cut")

\* The client takes a chunk, when it likes.
ReadChunk(e) ==
  /\ export[e].chan # <<>>
  /\ export' = [export EXCEPT ![e].chan = Tail(@), ![e].got = Append(@, Head(export[e].chan))]
  /\ UNCHANGED <<rows, ever, changes, idle, permits, slots, query>>

\* The client goes away: the receiver is dropped, and a send fails.
Leave(e) ==
  /\ Is(e, "rows")
  /\ slots' = slots + 1
  /\ export' = [export EXCEPT ![e] = [NoExport EXCEPT !.pc = "over"]]
  /\ UNCHANGED <<rows, ever, changes, idle, permits, query>>

Export(e) ==
  \/ AskExport(e) \/ CancelExport(e)
  \/ AcquireSlot(e) \/ OpenExport(e) \/ OpenExportFails(e)
  \/ SendChunk(e) \/ SendLast(e) \/ RowFails(e)
  \/ ReadChunk(e) \/ Leave(e)

Next ==
  \/ Commit \/ Prune
  \/ \E q \in Queries : Query(q)
  \/ \E e \in Exports : Export(e)

\* Permits are given out in order, threads run what is queued, and a statement
\* ends.  Nothing obliges the client of an export to read.
Fairness == \A q \in Queries : WF_vars(Reader(q))

Spec == Init /\ [][Next]_vars
FairSpec == Spec /\ Fairness

----------------------------------------------------------------------------
(* Properties.                                                             *)

\* The rows a client of an export has read.
Body(e) == UNION {export[e].got[k].ids : k \in DOMAIN export[e].got}

QueryPlaces == {"new", "waiting", "queued", "reading", "returning", "pushed", "over"}

TypeOK ==
  /\ rows \subseteq ever /\ ever \subseteq Ids
  /\ permits \in 0..Size /\ slots \in 0..MaxExports
  /\ Cardinality(Busy) + Cardinality(Streaming) <= Threads
  /\ \A q \in Queries :
       /\ query[q].pc \in QueryPlaces /\ query[q].kind \in Kinds[q] \cup {"none"}
       /\ query[q].got \in Seq(SUBSET Ids)
  /\ \A e \in Exports :
       /\ export[e].pc \in {"new", "waiting", "queued", "rows", "sent", "cut", "over"}
       /\ Len(export[e].chan) <= ChunkBuffer
       /\ export[e].snap \subseteq ever

\* A pool of reader_conns connections never grows, whichever queries panicked,
\* were cancelled or opened a replacement.
ConnectionsBounded == idle + Cardinality({q \in Queries : query[q].pc \in {"reading", "returning"}}) <= Size

\* The rows that were stored from the request of a query to now.
Stayed(q) == query[q].from \cap rows

\* "Page by passing the last id you saw": a walk to the end shows each row that
\* the filter selects and that is stored all the while exactly once, whatever is
\* committed and pruned between the pages.
WalkShowsAll ==
  \A q \in Queries :
    query[q].kind = "walk" =>
      /\ \A j, k \in DOMAIN query[q].got : j < k =>
           \A x \in query[q].got[j], y \in query[q].got[k] : y < x
      /\ At(q, "returning") /\ ~WalksOn(q) =>
           Stayed(q) \cap Hits \subseteq UNION {query[q].got[k] : k \in DOMAIN query[q].got}

\* "The lines immediately around": between the first and the last line of a
\* context no line is missing that was stored all the while, although its three
\* statements see three tables.
ContextIsGapless ==
  \A q \in Queries :
    query[q].kind = "context" /\ At(q, "returning") /\ Len(query[q].got) = 3 =>
      LET shown == query[q].got[1] \cup query[q].got[2] \cup query[q].got[3] IN
        \A i \in Stayed(q) : i >= Min(shown) /\ i <= Max(shown) => i \in shown

\* A group of rows that stayed is left out of a breakdown only as a whole, and only
\* for TopNames others, each of which counts as many rows as stayed in that group.
TopCounted(f, part, stays) ==
  \A i \in stays \ part :
    /\ f[i] \notin Groups(f, part)
    /\ Cardinality(Groups(f, part)) >= TopNames
    /\ \A g \in Groups(f, part) : Count(f, part, g) >= Count(f, stays, f[i])

\* "Aggregates over a window", "the top 50 by count": the total and the levels count
\* every row of the window that was stored all the while, and a device or a tag is
\* left out for larger ones only, although the four statements see four tables.
StatsAgree ==
  \A q \in Queries :
    query[q].kind = "stats" /\ At(q, "returning") =>
      LET got == query[q].got
          stays == Stayed(q) \cap Window IN
        /\ stays \subseteq got[1] \cap got[2]
        /\ TopCounted(Device, got[3], stays)
        /\ TopCounted(Tag, got[4], stays)

\* What the client of an export has read is the beginning of one table, in order,
\* while others write; and a chunk that closes the JSON array is the last, and
\* with it the body is all of that table.
ExportIsWhole ==
  \A e \in Exports :
    LET got == export[e].got IN
      /\ \A j, k \in DOMAIN got : j < k => \A x \in got[j].ids, y \in got[k].ids : x < y
      /\ Body(e) \subseteq export[e].snap
      /\ \A x \in Body(e), y \in export[e].snap : y < x => y \in Body(e)
      /\ \A k \in DOMAIN got : got[k].closes => k = Len(got) /\ Body(e) = export[e].snap

\* Every query that waits ends, although clients of exports stop reading, and
\* queries panic.
QueriesEnd == \A q \in Queries : At(q, "waiting") ~> At(q, "over")
=============================================================================

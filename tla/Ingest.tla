------------------------------- MODULE Ingest -------------------------------
(***************************************************************************)
(* The write path of logger_server: the HTTP and MCP handlers that accept  *)
(* records, the in-memory id counter, the live broadcast, the bounded      *)
(* write queue, the writer thread that commits batches to SQLite, and the  *)
(* life of the process around them (shutdown, crash, restart).             *)
(*                                                                         *)
(* A record is named by <<r, k>>: the k-th record of write request r.  Its *)
(* text, level and context are abstracted to one bit, whether to_record    *)
(* accepts it.  Each handler runs on its own and may be interrupted        *)
(* between any two operations on shared state.                             *)
(***************************************************************************)
EXTENDS Naturals, Sequences, FiniteSets

CONSTANTS
  Requests,    \* the write requests of a behaviour, each received at most once
  Kinds,       \* the entry points they use, a subset of AllKinds
  Bodies,      \* what they carry: sequences of BOOLEAN, TRUE for a record that is valid
  QueueCap,    \* Config::ingest_queue
  MaxBatch,    \* MAX_BATCH of the writer
  MaxLen,      \* bound: records in a body
  MaxRows,     \* Config::max_rows, 0 for no row cap
  AgeCap,      \* whether Config::max_age is set
  MaxBoots,    \* bound: times the process is started
  MaxCrashes   \* bound: times it is killed

AllKinds == {"one", "sync", "batch", "mcp"}

ASSUME KindsAssumption == Kinds \subseteq AllKinds
ASSUME BodiesAssumption == \A b \in Bodies : b \in Seq(BOOLEAN) /\ Len(b) <= MaxLen
ASSUME BoundsAssumption ==
  /\ QueueCap \in Nat \ {0}
  /\ MaxBatch \in Nat \ {0}
  /\ MaxLen \in Nat \ {0}
  /\ MaxRows \in Nat
  /\ AgeCap \in BOOLEAN
  /\ MaxBoots \in Nat
  /\ MaxCrashes \in Nat

VARIABLES
  pc,        \* pc[r]: the next operation of the handler of request r
  form,      \* form[r]: the entry point and the body of r
  cur,       \* cur[r]: the record of the body the handler is at
  rid,       \* rid[r]: the id it allocated last
  reply,     \* reply[r]: the answer the client got
  ack,       \* ack[r]: the oneshot channel of a ?sync=true request
  nextId,    \* Store::next_id, the last id given out
  queue,     \* the channel between the handlers and the writer
  wpc,       \* where the writer thread is
  batch,     \* the items it has taken and not yet written
  acks,      \* the items of the last transaction still to be notified
  outcome,   \* whether that transaction was committed
  final,     \* whether the writer left its main loop for the final drain
  rows,      \* the logs table: a function from id to record
  feed,      \* the frames given to the hub since the process started
  observed,  \* the records the alert engine was shown
  ingested,  \* Metrics::ingested
  shed,      \* Metrics::shed
  proc,      \* the life of the process
  boots, crashes,  \* bound: times the process was started and killed
  took,      \* history: the records the queue accepted
  stored,    \* history: the records of committed transactions
  failed,    \* history: the records of transactions that were rolled back
  lost       \* history: the records that were queued when the process ended

reqVars    == <<pc, form, cur, rid, reply, ack>>
writerVars == <<wpc, batch, acks, outcome, final>>
metricVars == <<ingested, shed>>
lifeVars   == <<proc, boots, crashes>>
endVars    == <<stored, failed, lost>>
vars == <<reqVars, writerVars, metricVars, lifeVars, endVars,
          nextId, queue, rows, feed, observed, took>>

----------------------------------------------------------------------------
Rec  == Requests \X (1..MaxLen)
Item == [id : Nat \ {0}, rec : Rec]

Stages == {"idle", "alloc", "publish", "observe", "check", "send", "wait", "done", "past"}
WriterStages == {"off", "recv", "expired", "fill", "commit", "ack", "keep", "stopped"}
Forms == [kind : AllKinds, body : Seq(BOOLEAN)]

NoReply == [status |-> "none", accepted |-> 0, dropped |-> 0]
Statuses == {"none", "201", "202", "400", "500", "503"}
Replies == [status : Statuses, accepted : Nat, dropped : Nat]

Elements(s) == {s[k] : k \in DOMAIN s}
Recs(s) == {s[k].rec : k \in DOMAIN s}
Ids(s)  == {s[k].id : k \in DOMAIN s}

\* What has been accepted and is not yet written, oldest first.
Pending == batch \o queue

draining == proc = "flushing"

IsHttp(r) == form[r].kind # "mcp"
WantsAck(item) == form[item.rec[1]].kind = "sync"
Valid(r)  == form[r].body[cur[r]]
ItemOf(r) == [id |-> rid[r], rec |-> <<r, cur[r]>>]
Resting(r) == pc[r] \in {"idle", "done", "past"}

\* INSERT OR REPLACE of each item of b in order: the last item with an id wins.
Upsert(t, b) ==
  [i \in DOMAIN t \cup Ids(b) |->
     IF i \in Ids(b)
       THEN b[CHOOSE k \in DOMAIN b :
                /\ b[k].id = i
                /\ \A j \in DOMAIN b : b[j].id = i => j <= k].rec
       ELSE t[i]]

Only(t, ids) == [i \in ids |-> t[i]]

\* DELETE ... WHERE id <= (SELECT MAX(id) FROM logs) - MaxRows, as the ids left over.
WithinCap(ids) == {i \in ids : \A j \in ids : j < i + MaxRows}

----------------------------------------------------------------------------
Init ==
  /\ pc = [r \in Requests |-> "idle"]
  /\ form = [r \in Requests |-> [kind |-> "one", body |-> <<>>]]
  /\ cur = [r \in Requests |-> 1]
  /\ rid = [r \in Requests |-> 0]
  /\ reply = [r \in Requests |-> NoReply]
  /\ ack = [r \in Requests |-> "none"]
  /\ nextId = 0
  /\ queue = <<>>
  /\ wpc = "off"
  /\ batch = <<>>
  /\ acks = <<>>
  /\ outcome = TRUE
  /\ final = FALSE
  /\ rows = [i \in {} |-> <<>>]
  /\ feed = <<>>
  /\ observed = {}
  /\ ingested = 0
  /\ shed = 0
  /\ proc = "down"
  /\ boots = 0
  /\ crashes = 0
  /\ took = {}
  /\ stored = {}
  /\ failed = {}
  /\ lost = {}

----------------------------------------------------------------------------
(* The handlers.                                                           *)

\* The handler returns: the client is told status, and how many of the
\* records of a batch were accepted and dropped.
Answer(r, status, accepted, dropped) ==
  /\ pc' = [pc EXCEPT ![r] = "done"]
  /\ reply' = [reply EXCEPT ![r] =
       [status |-> status, accepted |-> accepted, dropped |-> dropped]]

\* A request arrives and passes authentication.  A connection accepted before
\* the shutdown signal may still deliver its request after it.
Arrive(r, k, b) ==
  /\ proc \in {"up", "closing"}
  /\ pc[r] = "idle"
  /\ form' = [form EXCEPT ![r] = [kind |-> k, body |-> b]]
  /\ UNCHANGED <<cur, rid, ack, nextId, queue, writerVars, rows, feed, observed,
                 metricVars, lifeVars, took, endVars>>

Receive(r) ==
  \E k \in Kinds, b \in Bodies :
    /\ k = "batch" => b # <<>>
    /\ k # "batch" => Len(b) = 1
    /\ k = "mcp" => b[1]
    /\ Arrive(r, k, b)
    /\ pc' = [pc EXCEPT ![r] = "alloc"]
    /\ UNCHANGED reply

\* An empty batch, and a write_log call without a message, are refused before
\* an id is allocated.
RejectEarly(r) ==
  \E k \in Kinds, b \in Bodies :
    /\ \/ k = "batch" /\ b = <<>>
       \/ k = "mcp" /\ b = <<FALSE>>
    /\ Arrive(r, k, b)
    /\ Answer(r, "400", 0, 0)

\* Store::next_id, an atomic fetch_add.
TakeNextId(r) ==
  /\ nextId' = nextId + 1
  /\ rid' = [rid EXCEPT ![r] = nextId + 1]

\* next_id, then to_record: a record that is refused has used up its id.
Allocate(r) ==
  /\ pc[r] = "alloc"
  /\ TakeNextId(r)
  /\ \/ /\ Valid(r)
        /\ pc' = [pc EXCEPT ![r] = "publish"]
        /\ UNCHANGED reply
     \/ /\ ~Valid(r)
        /\ Answer(r, "400", 0, 0)
  /\ UNCHANGED <<form, cur, ack, queue, writerVars, rows, feed, observed,
                 metricVars, lifeVars, took, endVars>>

\* Hub::publish.  write_log goes straight on to the queue.
Publish(r) ==
  /\ pc[r] = "publish"
  /\ feed' = Append(feed, ItemOf(r))
  /\ pc' = [pc EXCEPT ![r] = IF IsHttp(r) THEN "observe" ELSE "check"]
  /\ UNCHANGED <<form, cur, rid, reply, ack, nextId, queue, writerVars, rows, observed,
                 metricVars, lifeVars, took, endVars>>

\* AlertEngine::observe.
Observe(r) ==
  /\ pc[r] = "observe"
  /\ observed' = observed \cup {<<r, cur[r]>>}
  /\ pc' = [pc EXCEPT ![r] = "check"]
  /\ UNCHANGED <<form, cur, rid, reply, ack, nextId, queue, writerVars, rows, feed,
                 metricVars, lifeVars, took, endVars>>

\* Store::send, first half: the draining flag.  Its other branch, Overloaded, is
\* never taken: the flag is set once the last handler has returned (ServerDone).
CheckDraining(r) ==
  /\ pc[r] = "check"
  /\ ~draining
  /\ pc' = [pc EXCEPT ![r] = "send"]
  /\ UNCHANGED <<form, cur, rid, reply, ack, nextId, queue, writerVars, rows, feed,
                 observed, metricVars, lifeVars, took, endVars>>

RoomForOneMore == Len(queue) <= QueueCap  \* mutant: an off-by-one in the bound
QueueHasRoom == Len(queue) < QueueCap

\* Store::send, second half: try_send on the bounded channel.
Enqueue(r) ==
  /\ pc[r] = "send"
  /\ QueueHasRoom
  /\ queue' = Append(queue, ItemOf(r))
  /\ took' = took \cup {<<r, cur[r]>>}
  /\ ingested' = IF IsHttp(r) THEN ingested + 1 ELSE ingested
  /\ \/ /\ form[r].kind = "sync"
        /\ pc' = [pc EXCEPT ![r] = "wait"]
        /\ UNCHANGED <<cur, reply>>
     \/ /\ form[r].kind # "sync"
        /\ cur[r] < Len(form[r].body)
        /\ cur' = [cur EXCEPT ![r] = @ + 1]
        /\ pc' = [pc EXCEPT ![r] = "alloc"]
        /\ UNCHANGED reply
     \/ /\ form[r].kind # "sync"
        /\ cur[r] = Len(form[r].body)
        /\ Answer(r, "202", cur[r], 0)
        /\ UNCHANGED cur
  /\ UNCHANGED <<form, rid, ack, nextId, writerVars, rows, feed, observed, shed,
                 lifeVars, endVars>>

OnlyTheBoundary(r) == 1  \* mutant: only the record that met the full queue is reported
Dropped(r) == Len(form[r].body) - cur[r] + 1

\* mutant: the record dispatch has counted is counted again
ShedTwice(r) == IF IsHttp(r) THEN 1 + Dropped(r) ELSE 0
\* dispatch counts the record that was refused, ingest_batch the others.
ShedBy(r) == IF IsHttp(r) THEN 1 + (Dropped(r) - 1) ELSE 0

\* The channel is full: the rest of a batch is dropped with this record.
Shed(r) ==
  /\ pc[r] = "send"
  /\ ~QueueHasRoom
  /\ shed' = shed + ShedBy(r)
  /\ Answer(r, IF cur[r] = 1 THEN "503" ELSE "202", cur[r] - 1, Dropped(r))
  /\ UNCHANGED <<form, cur, rid, ack, nextId, queue, writerVars, rows, feed, observed,
                 ingested, lifeVars, took, endVars>>

\* wait.await of a ?sync=true request.
Await(r) ==
  /\ pc[r] = "wait"
  /\ \/ ack[r] = "ok" /\ Answer(r, "201", 1, 0)
     \/ ack[r] = "err" /\ Answer(r, "500", 0, 0)
  /\ UNCHANGED <<form, cur, rid, ack, nextId, queue, writerVars, rows, feed, observed,
                 metricVars, lifeVars, took, endVars>>

\* The client of a waiting request goes away, and its handler is dropped.
Abandon(r) ==
  /\ pc[r] = "wait"
  /\ pc' = [pc EXCEPT ![r] = "done"]
  /\ UNCHANGED <<form, cur, rid, reply, ack, nextId, queue, writerVars, rows, feed,
                 observed, metricVars, lifeVars, took, endVars>>

Handle(r) ==
  Allocate(r) \/ Publish(r) \/ Observe(r) \/ CheckDraining(r) \/ Enqueue(r) \/ Shed(r)
  \/ Await(r)

----------------------------------------------------------------------------
(* The writer thread.                                                      *)

handlerSide == <<reqVars, nextId, feed, observed, metricVars, lifeVars, took, lost>>

\* recv_timeout returns an item.
Recv ==
  /\ wpc = "recv"
  /\ queue # <<>>
  /\ batch' = <<Head(queue)>>
  /\ queue' = Tail(queue)
  /\ wpc' = "fill"
  /\ UNCHANGED <<handlerSide, acks, outcome, final, rows, stored, failed>>

\* recv_timeout gives up.
Expire ==
  /\ wpc = "recv"
  /\ queue = <<>>
  /\ wpc' = "expired"
  /\ UNCHANGED <<handlerSide, queue, batch, acks, outcome, final, rows, stored, failed>>

AtTimeout == TRUE    \* mutant: a timeout ends the main loop, as if disconnected
NotAtAll == FALSE    \* mutant: the flag is not read
LeaveLoop == draining

\* The draining flag is read after the timeout: leave the main loop, or go on.
AfterExpire ==
  /\ wpc = "expired"
  /\ wpc' = IF LeaveLoop THEN "fill" ELSE "keep"
  /\ final' = LeaveLoop
  /\ UNCHANGED <<handlerSide, queue, batch, acks, outcome, rows, stored, failed>>

\* try_recv, in the main loop and in the final drain.
Fill ==
  /\ wpc = "fill"
  /\ Len(batch) < MaxBatch
  /\ queue # <<>>
  /\ batch' = Append(batch, Head(queue))
  /\ queue' = Tail(queue)
  /\ UNCHANGED <<handlerSide, wpc, acks, outcome, final, rows, stored, failed>>

\* The batch is full or the queue was empty.  Only the final drain gets here
\* with nothing to write, and that ends the thread.
FillDone ==
  /\ wpc = "fill"
  /\ Len(batch) = MaxBatch \/ queue = <<>>
  /\ wpc' = IF batch = <<>> THEN "stopped" ELSE "commit"
  /\ UNCHANGED <<handlerSide, queue, batch, acks, outcome, final, rows, stored, failed>>

\* mutant: the items are notified and stay in the batch, to be written again
BatchKept(ok) == outcome' = ok /\ acks' = batch /\ batch' = batch /\ wpc' = "ack"
\* batch.drain: whatever the outcome, the items leave the batch.
BatchDone(ok) == outcome' = ok /\ acks' = batch /\ batch' = <<>> /\ wpc' = "ack"

\* insert_all: one transaction for the whole batch.
Commit ==
  /\ wpc = "commit"
  /\ rows' = Upsert(rows, batch)
  /\ stored' = stored \cup Recs(batch)
  /\ BatchDone(TRUE)
  /\ UNCHANGED <<handlerSide, queue, final, failed>>

\* mutant: no transaction, the inserts before the one that failed stay
HalfWritten == Upsert(rows, <<Head(batch)>>)
RolledBack == rows

\* Any statement of it fails: the transaction is rolled back, the batch is gone.
CommitFails ==
  /\ wpc = "commit"
  /\ rows' = RolledBack
  /\ failed' = failed \cup Recs(batch)
  /\ BatchDone(FALSE)
  /\ UNCHANGED <<handlerSide, queue, final, stored>>

AlwaysOk == "ok"  \* mutant: the ack is sent without looking at the result
AckOf == IF outcome THEN "ok" ELSE "err"

\* ack.send for the first item of the batch that is left, if it has a channel.
\* A handler that was dropped no longer listens.
Notify ==
  /\ wpc = "ack"
  /\ acks # <<>>
  /\ LET item == Head(acks) IN
       ack' = IF WantsAck(item)
                THEN [ack EXCEPT ![item.rec[1]] = AckOf]
                ELSE ack
  /\ acks' = Tail(acks)
  /\ UNCHANGED <<pc, form, cur, rid, reply, nextId, feed, observed, metricVars, lifeVars,
                 took, endVars, queue, wpc, batch, outcome, final, rows>>

NotifyDone ==
  /\ wpc = "ack"
  /\ acks = <<>>
  /\ wpc' = IF final THEN "fill" ELSE "keep"
  /\ UNCHANGED <<handlerSide, queue, batch, acks, outcome, final, rows, stored, failed>>

\* RETENTION_INTERVAL has passed: the age cap deletes the rows that are too
\* old, which may be any (a client may set ts), then the row cap the lowest
\* ids.  Either DELETE may fail on its own; the other still runs.
Prune ==
  \E old \in (IF AgeCap THEN SUBSET DOMAIN rows ELSE {{}}) :
    LET young == DOMAIN rows \ old IN
      \/ rows' = Only(rows, young)
      \/ MaxRows > 0 /\ rows' = Only(rows, WithinCap(young))

\* The end of a turn of the main loop: retention, if it is due.
KeepHouse ==
  /\ wpc = "keep"
  /\ wpc' = "recv"
  /\ Prune \/ UNCHANGED rows
  /\ UNCHANGED <<handlerSide, queue, batch, acks, outcome, final, stored, failed>>

Writer ==
  Recv \/ Expire \/ AfterExpire \/ Fill \/ FillDone \/ Commit \/ CommitFails
  \/ Notify \/ NotifyDone \/ KeepHouse

----------------------------------------------------------------------------
(* The process.                                                            *)

\* The memory of the process is gone; the database file stays.  Requests that
\* were being handled get no answer.
PowerOff ==
  /\ proc' = "down"
  /\ pc' = [r \in Requests |-> IF pc[r] = "idle" THEN "idle" ELSE "past"]
  /\ lost' = lost \cup Recs(Pending)
  /\ wpc' = "off"
  /\ queue' = <<>>
  /\ batch' = <<>>
  /\ acks' = <<>>
  /\ feed' = <<>>
  /\ ingested' = 0
  /\ shed' = 0
  /\ UNCHANGED <<form, cur, rid, reply, ack, nextId, outcome, final, rows, observed,
                 took, stored, failed, boots>>

SeedFromCount == nextId' = Cardinality(DOMAIN rows)  \* mutant: COUNT for MAX

\* Store::open: the counter resumes from COALESCE(MAX(id), 0).
SeedIds ==
  \E m \in DOMAIN rows \cup {0} :
    /\ \A i \in DOMAIN rows : i <= m
    /\ nextId' = m

Boot ==
  /\ proc = "down"
  /\ boots < MaxBoots
  /\ SeedIds
  /\ proc' = "up"
  /\ boots' = boots + 1
  /\ wpc' = "recv"
  /\ final' = FALSE
  /\ UNCHANGED <<reqVars, queue, batch, acks, outcome, rows, feed, observed, metricVars,
                 crashes, took, endVars>>

\* SIGTERM: the listener stops accepting connections.
Signal ==
  /\ proc = "up"
  /\ proc' = "closing"
  /\ UNCHANGED <<reqVars, nextId, queue, writerVars, rows, feed, observed, metricVars,
                 boots, crashes, took, endVars>>

AtTheSignal == TRUE  \* mutant: the writer is shut down without waiting for the server
AllReturned == \A r \in Requests : Resting(r)

\* server.await returns once the last handler has, and WriterHandle::shutdown
\* sets the draining flag.
ServerDone ==
  /\ proc = "closing"
  /\ AllReturned
  /\ proc' = "flushing"
  /\ UNCHANGED <<reqVars, nextId, queue, writerVars, rows, feed, observed, metricVars,
                 boots, crashes, took, endVars>>

\* The writer thread is joined and main returns.
Exit ==
  /\ proc = "flushing"
  /\ wpc = "stopped"
  /\ PowerOff
  /\ UNCHANGED crashes

Crash ==
  /\ proc # "down"
  /\ crashes < MaxCrashes
  /\ PowerOff
  /\ crashes' = crashes + 1

\* Bound: the last process has ended.
Over ==
  /\ proc = "down"
  /\ boots = MaxBoots
  /\ UNCHANGED vars

Next ==
  \/ \E r \in Requests : Receive(r) \/ RejectEarly(r) \/ Handle(r) \/ Abandon(r)
  \/ Writer
  \/ Boot \/ Signal \/ ServerDone \/ Exit \/ Crash
  \/ Over

Spec == Init /\ [][Next]_vars

\* The runtime polls every handler, the OS schedules the writer thread, and a
\* shutdown that has begun goes on.  Nothing obliges a request or a signal to come.
Fairness ==
  /\ \A r \in Requests : WF_vars(Handle(r))
  /\ WF_vars(Writer)
  /\ WF_vars(ServerDone)
  /\ WF_vars(Exit)

FairSpec == Spec /\ Fairness

----------------------------------------------------------------------------
(* The abstract log this implements: an item is pending until it is written, *)
(* whichever side of the channel it is on.                                 *)
Feed == INSTANCE LogFeed WITH
  Records <- Rec,
  up <- proc # "down",
  last <- nextId,
  open <- {rid[r] : r \in {q \in Requests : pc[q] = "publish"}},
  unsent <- {ItemOf(r) : r \in {q \in Requests : pc[q] \in {"observe", "check", "send"}}},
  pending <- Pending

----------------------------------------------------------------------------
(* What the write path promises.                                           *)

\* Every behaviour of the handlers, the queue and the writer thread is one of
\* the abstract log.
ImplementsLogFeed == Feed!FeedSpec

HandlersType ==
  /\ pc \in [Requests -> Stages]
  /\ form \in [Requests -> Forms]
  /\ cur \in [Requests -> Nat \ {0}]
  /\ rid \in [Requests -> Nat]
  /\ reply \in [Requests -> Replies]
  /\ ack \in [Requests -> {"none", "ok", "err"}]

WriterType ==
  /\ queue \in Seq(Item) /\ Len(queue) <= QueueCap
  /\ wpc \in WriterStages
  /\ batch \in Seq(Item) /\ Len(batch) <= MaxBatch
  /\ acks \in Seq(Item)
  /\ outcome \in BOOLEAN
  /\ final \in BOOLEAN

LogType ==
  /\ DOMAIN rows \subseteq Nat \ {0} /\ rows \in [DOMAIN rows -> Rec]
  /\ feed \in Seq(Item)
  /\ nextId \in Nat

CountsType ==
  /\ ingested \in Nat /\ shed \in Nat /\ boots \in Nat /\ crashes \in Nat
  /\ proc \in {"up", "closing", "flushing", "down"}
  /\ observed \subseteq Rec /\ took \subseteq Rec
  /\ stored \subseteq Rec /\ failed \subseteq Rec /\ lost \subseteq Rec

TypeOK == HandlersType /\ WriterType /\ LogType /\ CountsType

\* A stored row is never replaced by another record: INSERT OR REPLACE never
\* replaces, whatever was allocated concurrently, pruned or restarted before.
NeverOverwrites ==
  [][\A i \in DOMAIN rows \cap DOMAIN rows' : rows'[i] = rows[i]]_vars

\* A frame a live client was sent and the row a later query returns under the
\* same id are the same record.  The id is what Last-Event-ID replay and the
\* removal of its overlap compare.
StoredAsBroadcast ==
  \A k \in DOMAIN feed : feed[k].id \in DOMAIN rows => rows[feed[k].id] = feed[k].rec

\* A record the queue accepted is, exactly once, still pending, in a committed
\* transaction, in a failed one, or lost when the process ended.
Accounted ==
  /\ took = Recs(Pending) \cup stored \cup failed \cup lost
  /\ Recs(Pending) \cap (stored \cup failed \cup lost) = {}
  /\ stored \cap failed = {}
  /\ lost \cap (stored \cup failed) = {}
  /\ \A j, k \in DOMAIN Pending : Pending[j].rec = Pending[k].rec => j = k

\* 201 is said of a record that was committed and 500 of one that was not;
\* 202 and 503 tell a client precisely which records of its body were queued:
\* the first `accepted`, and none of the last `dropped`.  400 is said of a body
\* whose records before the one that was refused are queued all the same.
AnswersAreTrue ==
  \A r \in Requests :
    LET a == reply[r]
        size == Len(form[r].body) IN
      /\ a.status = "201" => <<r, 1>> \in stored
      /\ a.status = "500" => <<r, 1>> \in failed
      /\ a.status \in {"202", "503"} =>
           /\ \A k \in 1..size : <<r, k>> \in took <=> k <= a.accepted
           /\ a.accepted + a.dropped = size
      /\ a.status = "503" => a.accepted = 0
      /\ a.status = "400" => \A k \in 1..size : <<r, k>> \in took <=> k < cur[r]

\* When no handler runs, logger_ingested_total is the number of records the
\* HTTP handlers queued since the start, and logger_shed_total the number they
\* dropped, each counted once.
MetricsAgree ==
  proc # "down" /\ (\A r \in Requests : Resting(r)) =>
    LET answered == {r \in Requests : pc[r] = "done" /\ IsHttp(r)} IN
      /\ ingested = Cardinality({x \in took : x[1] \in answered})
      /\ shed = Cardinality(UNION {{r} \X (reply[r].accepted + 1 .. Len(form[r].body)) :
                  r \in {q \in answered : reply[q].status \in {"202", "503"}}})

\* As long as the process is never killed, no queued record is lost, whatever
\* the shutdown raced with.
RedeployLosesNothing == crashes = 0 => lost = {}

\* A ?sync=true client that waits is answered, unless the process ends.
SyncIsAnswered ==
  \A r \in Requests : pc[r] = "wait" ~> pc[r] \in {"done", "past"}

\* A queued record does not stay in memory forever.
EveryRecordSettles ==
  \A r \in Requests :
    (\E k \in 1..Len(form[r].body) : <<r, k>> \in Recs(Pending))
      ~> (\A k \in 1..Len(form[r].body) : <<r, k>> \notin Recs(Pending))

\* A shutdown that was signalled comes to its end.
ShutdownEnds == proc = "closing" ~> proc = "down"

----------------------------------------------------------------------------
(* The inductive invariant behind NeverOverwrites and StoredAsBroadcast.   *)

\* The handler of r holds an id whose record has not reached the queue.
InHand(r) == pc[r] \in {"publish", "observe", "check", "send"}

\* A handler is at a record its body has.
InBody == \A r \in Requests :
  /\ Len(form[r].body) <= MaxLen
  /\ ~Resting(r) => cur[r] <= Len(form[r].body)
  /\ InHand(r) => rid[r] # 0
  /\ pc[r] = "idle" => cur[r] = 1

BatchWhere == wpc \notin {"fill", "commit"} => batch = <<>>

OffWhenDown == proc = "down" =>
  /\ wpc = "off" /\ queue = <<>> /\ feed = <<>>
  /\ \A r \in Requests : pc[r] \in {"idle", "past"}

IdsIssued ==
  /\ \A i \in DOMAIN rows : i <= nextId
  /\ \A k \in DOMAIN feed : feed[k].id <= nextId
  /\ \A r \in Requests : InHand(r) => rid[r] \in 1..nextId

\* An id in hand is in nobody else's hand, not pending, and not a row.
HandsApart ==
  /\ \A r, s \in Requests : InHand(r) /\ InHand(s) /\ rid[r] = rid[s] => r = s
  /\ \A r \in Requests : InHand(r) => rid[r] \notin DOMAIN rows \cup Ids(Pending)

PendingApart ==
  /\ \A j, k \in DOMAIN Pending : Pending[j].id = Pending[k].id => j = k
  /\ \A k \in DOMAIN Pending : Pending[k].id \notin DOMAIN rows

\* Whatever is past the broadcast was broadcast, under one id and once.
BroadcastFirst ==
  /\ \A j, k \in DOMAIN feed : feed[j].id = feed[k].id => j = k
  /\ \A r \in Requests : pc[r] = "publish" => rid[r] \notin Ids(feed)
  /\ \A r \in Requests : InHand(r) /\ pc[r] # "publish" => ItemOf(r) \in Elements(feed)
  /\ \A k \in DOMAIN Pending : Pending[k] \in Elements(feed)

IdsInv ==
  /\ InBody
  /\ BatchWhere
  /\ OffWhenDown
  /\ IdsIssued
  /\ HandsApart
  /\ PendingApart
  /\ BroadcastFirst
  /\ StoredAsBroadcast

----------------------------------------------------------------------------
(* What a test says of it, and the code does not do.                       *)

\* "never reuse an id": the id one client was given is not given to another.
NoIdReuse ==
  \A r, s \in Requests :
    r # s /\ reply[r].status \in {"201", "202"} /\ rid[s] # 0 => rid[r] # rid[s]
=============================================================================

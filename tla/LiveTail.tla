------------------------------ MODULE LiveTail ------------------------------
(***************************************************************************)
(* The live tail of logger_server: Server-Sent Events connections that     *)
(* read the log LogFeed promises, live from the hub's ring of frames and,  *)
(* after a reconnect with Last-Event-ID, from the rows already stored.     *)
(*                                                                         *)
(* A record is a number, the order in which records were broadcast over    *)
(* all restarts.  The keep-alive comments of an idle stream and the retry  *)
(* hint change nothing and are left out.                                   *)
(***************************************************************************)
EXTENDS LogFeed, FiniteSets

CONSTANTS
  Clients,     \* the dashboards
  MaxReplay,   \* MAX_REPLAY
  Settings,    \* pairs of a ring size and a use, of which a behaviour has one
  MaxFrames,   \* bound: records broadcast
  MaxConns,    \* bound: connections of each client
  MaxRestarts  \* bound: restarts of the server

ASSUME TailAssumption ==
  /\ MaxReplay \in Nat \ {0}
  /\ Settings \subseteq [cap : Nat \ {0}, use : {"any", "in turn", "settled"}]
  /\ {MaxFrames, MaxConns, MaxRestarts} \subseteq Nat
  /\ Records = 1..MaxFrames

VARIABLES
  setting,  \* one of Settings, for good
  phase,    \* phase[c]: "off", "query" once subscribed, then "live"
  pos,      \* pos[c]: the index in feed of the frame its receiver is at
  high,     \* StreamCtx::high_water
  outbox,   \* the frames of the replay not yet written to the client
  reading,  \* whether the client takes what is written
  closing,  \* the shutdown watch channel
  lastId,   \* the browser's Last-Event-ID, 0 if it never got a line
  got,      \* history: the records the client received, in order
  base,     \* history: how many of them before this connection
  due,      \* history: the records broadcast under an id above its Last-Event-ID
  serial, conns, restarts  \* bounds: records, connections, restarts so far

connVars == <<phase, pos, high, outbox, base>>
tailVars == <<setting, connVars, reading, closing, lastId, got, due, serial, conns, restarts>>
vars == <<feedVars, tailVars>>

HubCap == setting.cap  \* frames the ring of the hub holds (LOGGER_SSE_CAPACITY)

\* How the server is used: at will; by handlers that ingest one record after the
\* other, and clients that do not stop reading without closing; or so and by
\* clients that connect only when every record was written.
InTurn == setting.use # "any"
Settled == setting.use = "settled"

Received(c) == {got[c][k] : k \in 1..Len(got[c])}

----------------------------------------------------------------------------
TailInit ==
  /\ setting \in Settings
  /\ phase = [c \in Clients |-> "off"]
  /\ pos = [c \in Clients |-> 1]
  /\ high = [c \in Clients |-> 0]
  /\ outbox = [c \in Clients |-> {}]
  /\ reading = [c \in Clients |-> TRUE]
  /\ closing = FALSE
  /\ lastId = [c \in Clients |-> 0]
  /\ got = [c \in Clients |-> <<>>]
  /\ base = [c \in Clients |-> 0]
  /\ due = [c \in Clients |-> {}]
  /\ serial = 0
  /\ conns = [c \in Clients |-> 0]
  /\ restarts = 0

Init == FeedInit /\ TailInit

----------------------------------------------------------------------------
(* The log, step by step that of LogFeed.                                  *)

Quiet == open = {} /\ unsent = {}

IngestStep ==
  \/ /\ InTurn => Quiet
     /\ last < MaxFrames
     /\ serial + Cardinality(open) < MaxFrames
     /\ Issue
     /\ UNCHANGED tailVars
  \/ /\ Broadcast(serial + 1)
     /\ serial' = serial + 1
     /\ due' = [c \in Clients |->
                  IF lastId[c] \in 1..feed'[Len(feed')].id - 1 THEN due[c] \cup {serial + 1}
                                                              ELSE due[c]]
     /\ UNCHANGED <<setting, connVars, reading, closing, lastId, got, conns, restarts>>
  \/ /\ Accept \/ Overload
     /\ UNCHANGED tailVars

\* The writer thread: a commit, a failed one, retention.
WriterStep == (Persist \/ Discard \/ Forget) /\ UNCHANGED tailVars

\* The process ends, and every connection with it.
Stop ==
  /\ Halt
  /\ phase' = [c \in Clients |-> "off"]
  /\ outbox' = [c \in Clients |-> {}]
  /\ closing' = FALSE
  /\ UNCHANGED <<setting, pos, high, base, reading, lastId, got, due, serial, conns, restarts>>

Start ==
  /\ Resume
  /\ restarts <= MaxRestarts
  /\ restarts' = restarts + 1
  /\ UNCHANGED <<setting, connVars, reading, closing, lastId, got, due, serial, conns>>

Signal ==
  /\ up
  /\ ~closing
  /\ closing' = TRUE
  /\ UNCHANGED <<setting, feedVars, connVars, reading, lastId, got, due, serial, conns, restarts>>

----------------------------------------------------------------------------
(* One connection.                                                         *)

\* stream: refused once shutdown has started, else the receiver is created.
Open(c) ==
  /\ up
  /\ phase[c] = "off"
  /\ conns[c] < MaxConns
  /\ ~closing
  /\ Settled => Quiet /\ pending = <<>>
  /\ phase' = [phase EXCEPT ![c] = "query"]
  /\ pos' = [pos EXCEPT ![c] = Len(feed) + 1]
  /\ base' = [base EXCEPT ![c] = Len(got[c])]
  /\ reading' = [reading EXCEPT ![c] = TRUE]
  /\ conns' = [conns EXCEPT ![c] = @ + 1]
  /\ UNCHANGED <<setting, feedVars, high, outbox, closing, lastId, got, due, serial, restarts>>

\* Reader::since_id: the MaxReplay lowest rows behind the given id.
SinceId(after) ==
  LET behind == {i \in DOMAIN rows : i > after} IN
    {i \in behind : Cardinality({j \in behind : j < i}) < MaxReplay}

\* mutants: the overlap is removed against Last-Event-ID alone, against the
\* newest id whether it was replayed or not, or against one id too many
HighWaterAtStart(after, ids) == after
HighWaterAtNewest(after, ids) == last
HighWaterPast(after, ids) ==
  1 + (CHOOSE m \in ids \cup {after} : \A i \in ids \cup {after} : i <= m)
HighWater(after, ids) ==
  CHOOSE m \in ids \cup {after} : \A i \in ids \cup {after} : i <= m

\* The replay is read, in one statement; without Last-Event-ID there is none.
Query(c) ==
  /\ phase[c] = "query"
  /\ LET ids == IF lastId[c] = 0 THEN {} ELSE SinceId(lastId[c]) IN
       /\ outbox' = [outbox EXCEPT ![c] = {[id |-> i, rec |-> rows[i]] : i \in ids}]
       /\ high' = [high EXCEPT ![c] = HighWater(lastId[c], ids)]
  /\ phase' = [phase EXCEPT ![c] = "live"]
  /\ UNCHANGED <<setting, feedVars, pos, base, reading, closing, lastId, got, due, serial, conns,
                 restarts>>

\* The body is polled only while the client takes what is written.
Polled(c) == phase[c] = "live" /\ reading[c]

Write(c, f) ==
  /\ got' = [got EXCEPT ![c] = Append(@, f.rec)]
  /\ lastId' = [lastId EXCEPT ![c] = f.id]

\* The replay comes first, in id order, whatever else is ready.
SendReplay(c) ==
  /\ Polled(c)
  /\ \E f \in outbox[c] :
       /\ \A g \in outbox[c] : f.id <= g.id
       /\ outbox' = [outbox EXCEPT ![c] = @ \ {f}]
       /\ Write(c, f)
  /\ UNCHANGED <<setting, feedVars, phase, pos, high, base, reading, closing, due, serial, conns,
                 restarts>>

Unnoticed == FALSE  \* mutant: the loop does not watch the shutdown channel
ShutdownSeen == closing

\* select! is biased: shutdown before a frame.
EndOnShutdown(c) ==
  /\ Polled(c)
  /\ outbox[c] = {}
  /\ ShutdownSeen
  /\ phase' = [phase EXCEPT ![c] = "off"]
  /\ UNCHANGED <<setting, feedVars, pos, high, outbox, base, reading, closing, lastId, got, due,
                 serial, conns, restarts>>

Receiving(c) ==
  /\ Polled(c)
  /\ outbox[c] = {}
  /\ ~ShutdownSeen
  /\ pos[c] <= Len(feed)

\* The ring holds the last HubCap frames: an older one was overwritten.
Lagged(c) == Len(feed) - pos[c] >= HubCap

\* mutant: a frame the replay has sent is sent again
NeverSkipped(c) == FALSE
Replayed(c) == feed[pos[c]].id <= high[c]

Deliver(c) ==
  /\ Receiving(c)
  /\ ~Lagged(c)
  /\ ~Replayed(c)
  /\ Write(c, feed[pos[c]])
  /\ pos' = [pos EXCEPT ![c] = @ + 1]
  /\ UNCHANGED <<setting, feedVars, phase, high, outbox, base, reading, closing, due, serial, conns,
                 restarts>>

Skip(c) ==
  /\ Receiving(c)
  /\ ~Lagged(c)
  /\ Replayed(c)
  /\ pos' = [pos EXCEPT ![c] = @ + 1]
  /\ UNCHANGED <<setting, feedVars, phase, high, outbox, base, reading, closing, lastId, got, due,
                 serial, conns, restarts>>

\* mutant: the stream goes on behind the frames that were overwritten
CarryOn(c) == pos' = [pos EXCEPT ![c] = Len(feed) - HubCap + 1] /\ phase' = phase
CloseStream(c) == phase' = [phase EXCEPT ![c] = "off"] /\ pos' = pos

\* RecvError::Lagged: the stream is closed, and the browser will reconnect.
Evict(c) ==
  /\ Receiving(c)
  /\ Lagged(c)
  /\ CloseStream(c)
  /\ UNCHANGED <<setting, feedVars, high, outbox, base, reading, closing, lastId, got, due,
                 serial, conns, restarts>>

\* The connection is lost, at any moment.
Drop(c) ==
  /\ phase[c] # "off"
  /\ phase' = [phase EXCEPT ![c] = "off"]
  /\ outbox' = [outbox EXCEPT ![c] = {}]
  /\ UNCHANGED <<setting, feedVars, pos, high, base, reading, closing, lastId, got, due, serial,
                 conns, restarts>>

\* The client stops reading, its socket fills, and the body is not polled.
Stall(c) ==
  /\ ~InTurn
  /\ Polled(c)
  /\ reading' = [reading EXCEPT ![c] = FALSE]
  /\ UNCHANGED <<setting, feedVars, connVars, closing, lastId, got, due, serial, conns, restarts>>

ReadOn(c) ==
  /\ phase[c] = "live"
  /\ ~reading[c]
  /\ reading' = [reading EXCEPT ![c] = TRUE]
  /\ UNCHANGED <<setting, feedVars, connVars, closing, lastId, got, due, serial, conns, restarts>>

Serve(c) ==
  Query(c) \/ SendReplay(c) \/ EndOnShutdown(c) \/ Deliver(c) \/ Skip(c) \/ Evict(c)

Next ==
  \/ IngestStep \/ WriterStep
  \/ Stop \/ Start \/ Signal
  \/ \E c \in Clients : Open(c) \/ Serve(c) \/ Drop(c) \/ Stall(c) \/ ReadOn(c)

Spec == Init /\ [][Next]_vars

\* A stream that is polled and can make progress makes it, each time.  Nothing
\* makes a client read, or connect, or a record arrive.
FairSpec == Spec /\ \A c \in Clients : SF_vars(Serve(c))

----------------------------------------------------------------------------
TypeOK ==
  /\ up \in BOOLEAN /\ last \in 0..MaxFrames
  /\ phase \in [Clients -> {"off", "query", "live"}]
  /\ pos \in [Clients -> 1..MaxFrames + 1]
  /\ high \in [Clients -> 0..MaxFrames]
  /\ \A c \in Clients : outbox[c] \subseteq [id : 1..MaxFrames, rec : Records]
  /\ reading \in [Clients -> BOOLEAN]
  /\ closing \in BOOLEAN
  /\ lastId \in [Clients -> 0..MaxFrames]
  /\ \A c \in Clients : got[c] \in Seq(Records) /\ base[c] \in 0..Len(got[c])
  /\ due \in [Clients -> SUBSET Records]
  /\ serial \in 0..MaxFrames /\ conns \in [Clients -> 0..MaxConns]
  /\ restarts \in 0..MaxRestarts + 1

\* Within one connection no line is sent twice, in whatever order handlers
\* broadcast and the writer commits while the replay is read.
OncePerConnection ==
  \A c \in Clients : \A j, k \in base[c] + 1 .. Len(got[c]) : got[c][j] = got[c][k] => j = k

\* Over all connections of a client no line is sent twice, over drops, evictions,
\* kills and restarts, when records are ingested in turn.
NoDuplicates ==
  InTurn => \A c \in Clients : \A j, k \in 1..Len(got[c]) : got[c][j] = got[c][k] => j = k

\* A client that has caught up with the live feed has received every stored
\* record that was broadcast under an id above its Last-Event-ID, over evictions,
\* drops and restarts, when records are ingested in turn.
NothingMissed ==
  \A c \in Clients :
    InTurn /\ phase[c] = "live" /\ outbox[c] = {} /\ pos[c] > Len(feed) =>
      \A i \in DOMAIN rows : rows[i] \in due[c] => rows[i] \in Received(c)

\* The records that are rows, or may still become rows.
Kept == {[id |-> i, rec |-> rows[i]] : i \in DOMAIN rows} \cup unsent
          \cup {pending[n] : n \in DOMAIN pending}

\* "Already delivered by the replay above": a frame that is skipped is one the
\* client has received, if it was due to it and is kept at all, when records are
\* ingested in turn.
SkippedWereReplayed ==
  [][\A c \in Clients :
       InTurn /\ Skip(c) /\ feed[pos[c]] \in Kept /\ feed[pos[c]].rec \in due[c] =>
         feed[pos[c]].rec \in Received(c)]_vars

\* "Terminates on shutdown": no open tail of a client that reads holds the server.
StreamsEnd == closing /\ InTurn ~> \A c \in Clients : phase[c] = "off"
=============================================================================

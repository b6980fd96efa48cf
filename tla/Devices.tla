------------------------------- MODULE Devices -------------------------------
(***************************************************************************)
(* The device registry of logger_server: the `devices` table, the token    *)
(* cache every write is authenticated against, and the activity that waits *)
(* in memory for the writer thread.                                        *)
(*                                                                         *)
(* A device is the number of its row; AUTOINCREMENT never gives one out    *)
(* again and rows are never deleted.  Its token is random, so the number   *)
(* stands for the token and for its digest too.                            *)
(***************************************************************************)
EXTENDS Life, Sequences, Functions

CONSTANTS
  Admins,      \* requests on the admin connection that may run at once
  Calls,       \* requests of devices
  MaxDevices   \* bound: rows of the table

ASSUME DevicesAssumption == MaxDevices \in Nat

NoActivity == [d \in {} |-> 0]

VARIABLES
  devices,   \* the table: per row whether revoked_at is NULL, and last_seen (0: NULL)
  cache,     \* by_hash: the devices whose token is accepted
  pending,   \* pending_seen: device to time
  admin,     \* where each administrator is, at which device, and whether its SELECT found it
  call,      \* where each call is, the device it has authenticated, and when
  last,      \* the writer has left its loop and does its last flush
  taken,     \* the activity flush_seen has taken and not yet written
  kept,      \* history: devices revoked in this life after a SELECT that failed
  noted      \* history: the last activity noted of each device in this life

devicesVars == <<devices, cache, pending, admin, call, last, taken, kept, noted>>
history == <<kept, noted>>
memory == <<cache, pending, admin, call, last, taken>>

Idle == [pc |-> "idle", dev |-> 0, found |-> FALSE]
New == [pc |-> "new", dev |-> 0, ts |-> 0]
Over == [pc |-> "over", dev |-> 0, ts |-> 0]
Active == {d \in DOMAIN devices : devices[d].active}

DevicesInit ==
  /\ devices = <<>> /\ cache = {} /\ pending = NoActivity /\ taken = NoActivity
  /\ admin = [a \in Admins |-> Idle] /\ call = [c \in Calls |-> New]
  /\ last = FALSE
  /\ kept = {} /\ noted = NoActivity

At(a, place) == admin[a].pc = place
Go(a, place, d, found) == admin' = [admin EXCEPT ![a] = [pc |-> place, dev |-> d, found |-> found]]
Done(a) == admin' = [admin EXCEPT ![a] = Idle]

----------------------------------------------------------------------------
(* The administrators.  with_admin holds the lock of the connection until  *)
(* its closure returns.                                                    *)

\* mutant: the connection without its Mutex.
NoLock == TRUE

LockFree == \A b \in Admins : At(b, "idle")

\* A request that was let in gets the lock: how long it waited changes nothing.
HasLock(a) == phase = "serving" /\ At(a, "idle") /\ LockFree

Insert(a) ==
  /\ HasLock(a) /\ Len(devices) < MaxDevices
  /\ devices' = Append(devices, [active |-> TRUE, seen |-> 0])
  /\ Go(a, "inserted", Len(devices) + 1, FALSE)
  /\ UNCHANGED <<cache, pending, call, last, taken, history>>

CacheInsert(a) ==
  /\ At(a, "inserted")
  /\ cache' = cache \cup {admin[a].dev}
  /\ Done(a)
  /\ UNCHANGED <<devices, pending, call, last, taken, history>>

\* mutant: the token leaves the cache before the row is updated.
EvictFirst(a, d) ==
  /\ HasLock(a)
  /\ \E found \in {FALSE, (d \in DOMAIN devices)} : Go(a, "selected", d, found)
  /\ cache' = cache \ {d}
  /\ UNCHANGED <<devices, pending, call, last, taken, history>>

\* `.ok()` makes a failed SELECT the same as no such row.
SelectHash(a, d) ==
  /\ HasLock(a)
  /\ \E found \in {FALSE, (d \in DOMAIN devices)} : Go(a, "selected", d, found)
  /\ UNCHANGED <<devices, cache, pending, call, last, taken, history>>

\* The row is revoked; without a digest the cache is left alone, and that is it.
Update(a) ==
  LET d == admin[a].dev IN
    /\ At(a, "selected") /\ d \in Active
    /\ devices' = [devices EXCEPT ![d].active = FALSE]
    /\ \/ /\ admin[a].found
          /\ Go(a, "updated", d, TRUE)
          /\ UNCHANGED kept
       \/ /\ ~admin[a].found
          /\ kept' = kept \cup {d}
          /\ Done(a)
    /\ UNCHANGED <<cache, pending, call, last, taken, noted>>

\* The UPDATE fails, or changes no row because the device is not an active one.
UpdateFails(a) ==
  /\ At(a, "selected")
  /\ Done(a)
  /\ UNCHANGED <<devices, cache, pending, call, last, taken, history>>

Evict(a) ==
  /\ At(a, "updated")
  /\ cache' = cache \ {admin[a].dev}
  /\ Done(a)
  /\ UNCHANGED <<devices, pending, call, last, taken, history>>

\* A create whose name is refused or whose INSERT fails changes nothing, and a
\* listing does not either.
Begin(a) == Insert(a) \/ \E d \in 1..MaxDevices : SelectHash(a, d)

Proceed(a) == CacheInsert(a) \/ Update(a) \/ UpdateFails(a) \/ Evict(a)

----------------------------------------------------------------------------
(* The calls of devices.                                                   *)

\* The token is in the cache; the time is read for note_seen.  Any other token
\* is answered 401.
Authenticate(c) ==
  /\ phase = "serving" /\ call[c].pc = "new"
  /\ \E d \in cache : call' = [call EXCEPT ![c] = [pc |-> "let in", dev |-> d, ts |-> now]]
  /\ UNCHANGED <<devices, cache, pending, admin, last, taken, history>>

\* A time that was read earlier may be noted later.
NoteSeen(c) ==
  LET d == call[c].dev IN
    /\ call[c].pc = "let in"
    /\ pending' = Put(pending, d, call[c].ts)
    /\ noted' = Put(noted, d, call[c].ts)
    /\ call' = [call EXCEPT ![c] = Over]
    /\ UNCHANGED <<devices, cache, admin, last, taken, kept>>

Device(c) == Authenticate(c) \/ NoteSeen(c)

----------------------------------------------------------------------------
(* The writer thread: flush_seen with the retention, and once more when the *)
(* queue is drained.                                                       *)

TakePending ==
  /\ taken' = pending /\ pending' = NoActivity
  /\ UNCHANGED <<devices, cache, admin, call, history>>

TakeSeen ==
  /\ phase # "down" /\ ~last /\ taken = NoActivity
  /\ TakePending
  /\ UNCHANGED last

TakeLast ==
  /\ phase = "draining" /\ ~last /\ taken = NoActivity
  /\ TakePending
  /\ last' = TRUE

\* Each statement commits by itself, in the order the map was drained in.
FlushOne ==
  \E d \in DOMAIN taken :
    /\ devices' = [devices EXCEPT ![d].seen = taken[d]]
    /\ taken' = Restrict(taken, DOMAIN taken \ {d})
    /\ UNCHANGED <<cache, pending, admin, call, last, history>>

\* A statement fails: the rest of what was taken is lost.
FlushFails ==
  /\ taken # NoActivity
  /\ taken' = NoActivity
  /\ noted' = Restrict(noted, DOMAIN noted \ (DOMAIN taken \ DOMAIN pending))
  /\ UNCHANGED <<devices, cache, pending, admin, call, last, kept>>

Writer == TakeSeen \/ TakeLast \/ FlushOne \/ FlushFails

----------------------------------------------------------------------------
(* The process.                                                            *)

\* mutant: load without its WHERE clause.
LoadedAll == DOMAIN devices

\* DeviceCache::load.
Loaded == Active

DevicesBoot ==
  /\ cache' = Loaded
  /\ noted' = NoActivity
  /\ UNCHANGED <<devices, pending, admin, call, last, taken, kept>>

\* mutant: the writer is told to drain when the signal comes.
AtTheSignal == TRUE

NoRequests == (\A a \in Admins : At(a, "idle")) /\ (\A c \in Calls : call[c].pc # "let in")

\* What a process has in memory goes with it.
MemoryGone ==
  /\ cache' = {} /\ pending' = NoActivity /\ taken' = NoActivity
  /\ admin' = [a \in Admins |-> Idle] /\ call' = [c \in Calls |-> IF call[c].pc = "let in" THEN Over ELSE call[c]]
  /\ last' = FALSE
  /\ kept' = {}
  /\ UNCHANGED devices

WriterDone == last /\ taken = NoActivity

DevicesEnd == WriterDone /\ MemoryGone /\ UNCHANGED noted

DevicesKilled == MemoryGone /\ noted' = NoActivity

----------------------------------------------------------------------------
(* Properties.                                                             *)

IsActivity(f) ==
  /\ f \in [DOMAIN f -> 1..MaxNow]
  /\ DOMAIN f \subseteq DOMAIN devices

DevicesTypeOK ==
  /\ devices \in Seq([active : BOOLEAN, seen : 0..MaxNow]) /\ Len(devices) <= MaxDevices
  /\ cache \subseteq DOMAIN devices
  /\ IsActivity(pending) /\ IsActivity(taken) /\ IsActivity(noted)
  /\ admin \in [Admins -> [pc : {"idle", "inserted", "selected", "updated"},
                           dev : 0..MaxDevices, found : BOOLEAN]]
  /\ call \in [Calls -> {New, Over} \cup [pc : {"let in"}, dev : DOMAIN devices, ts : 1..MaxNow]]
  /\ last \in BOOLEAN
  /\ kept \subseteq DOMAIN devices \ Active

\* The devices an administrator is at, at a place of its request.
AtWork(place) == {admin[a].dev : a \in {b \in Admins : At(b, place)}}

\* A token has, or may have, been told to somebody: its row is there, and the
\* request that inserted it is over.
Granted == DOMAIN devices \ AtWork("inserted")

\* "Its token stops working on the next request": when a row is revoked, and no
\* request is about to evict its token and answer 204, no call authenticates with
\* it, whatever administrators did at the same time.  The one exception is a
\* revocation whose SELECT failed, until the next start.
RevokedIsOut == (DOMAIN devices \ Active) \cap cache \subseteq AtWork("updated") \cup kept

\* A token that was answered 201 works as long as its row is not revoked, also
\* when a revocation of it failed half way and after a restart.
CreatedWorks == phase # "down" => Granted \cap Active \subseteq cache

\* The last activity noted of a device is in the pending map, or else taken and
\* about to be written, or else in its row: no flush overtakes or drops what
\* was noted meanwhile, and nothing is left in memory by a graceful shutdown.
ActivityIsKept ==
  \A d \in DOMAIN noted :
    noted[d] = IF d \in DOMAIN pending THEN pending[d]
               ELSE IF d \in DOMAIN taken THEN taken[d]
               ELSE devices[d].seen

----------------------------------------------------------------------------
(* The registry implements Tokens.                                         *)

\* While the process is down a token is what the next load makes of it.
Honoured == IF phase = "down" THEN Active ELSE cache

TokenSpec == INSTANCE Tokens WITH Token <- 1..MaxDevices, granted <- Granted, honoured <- Honoured

\* Every behaviour of the registry is one of Tokens: a token is never honoured
\* again once it was not, through crashes between table and cache and loads.
ImplementsTokens == TokenSpec!Spec
=============================================================================

----------------------------- MODULE FeedProofs -----------------------------
(***************************************************************************)
(* Ingest implements LogFeed, for every value of its constants: what the   *)
(* handlers, the channel and the writer thread do to the log is what the   *)
(* abstract log allows, step by step.                                      *)
(***************************************************************************)
EXTENDS AccountProofs

\* The ids and the frames that LogFeed sees in the handlers' hands.
Open == {rid[r] : r \in {q \in Requests : pc[q] = "publish"}}
Sending == {ItemOf(r) : r \in {q \in Requests : pc[q] \in {"observe", "check", "send"}}}

\* A step that leaves all that LogFeed sees is a stuttering step of it.
LEMMA Unseen ==
  ASSUME UNCHANGED <<nextId, Open, Sending, feed, Pending, rows>>,
         proc' = "down" <=> proc = "down"
  PROVE  UNCHANGED Feed!feedVars
<1>1. UNCHANGED <<proc # "down", nextId, feed, Pending, rows>>
  OBVIOUS
<1>2. {rid[r] : r \in {q \in Requests : pc[q] = "publish"}}' =
        {rid[r] : r \in {q \in Requests : pc[q] = "publish"}}
  BY DEF Open
<1>3. {ItemOf(r) : r \in {q \in Requests : pc[q] \in {"observe", "check", "send"}}}' =
        {ItemOf(r) : r \in {q \in Requests : pc[q] \in {"observe", "check", "send"}}}
  BY DEF Sending
<1>. QED  BY <1>1, <1>2, <1>3 DEF Feed!feedVars

\* What a step of one handler makes of the ids and frames in the handlers' hands.
LEMMA HandsMove ==
  ASSUME Inv, NEW r \in Requests,
         \A q \in Requests \ {r} : pc'[q] = pc[q] /\ ItemOf(q)' = ItemOf(q)
  PROVE  LET opens(s) == s = "publish"
             sends(s) == s \in {"observe", "check", "send"}
         IN  /\ Open' = (IF opens(pc[r]) THEN Open \ {rid[r]} ELSE Open)
                          \cup (IF opens(pc'[r]) THEN {rid'[r]} ELSE {})
             /\ Sending' = (IF sends(pc[r]) THEN Sending \ {ItemOf(r)} ELSE Sending)
                             \cup (IF sends(pc'[r]) THEN {ItemOf(r)'} ELSE {})
<1>1. \A q \in Requests \ {r} : rid'[q] = rid[q]
  BY DEF ItemOf
<1>2. \A q \in Requests \ {r} : pc[q] = "publish" /\ pc[r] = "publish" => rid[q] # rid[r]
  BY DEF Inv, IdsInv, HandsApart, InHand
<1>3. \A q \in Requests \ {r} : ItemOf(q) # ItemOf(r)
  <2>1. ASSUME NEW q \in Requests \ {r}, ItemOf(q) = ItemOf(r)  PROVE FALSE
    <3>1. ItemOf(q).rec = ItemOf(r).rec
      BY <2>1
    <3>. QED  BY <3>1 DEF ItemOf
  <2>. QED  BY <2>1
<1>4. \A i : i \in Open' <=> \E q \in Requests : pc'[q] = "publish" /\ i = rid'[q]
  BY DEF Open
<1>5. \A i : i \in Open <=> \E q \in Requests : pc[q] = "publish" /\ i = rid[q]
  BY DEF Open
<1>6. \A x : x \in Sending' <=>
        \E q \in Requests : pc'[q] \in {"observe", "check", "send"} /\ x = ItemOf(q)'
  BY DEF Sending
<1>7. \A x : x \in Sending <=>
        \E q \in Requests : pc[q] \in {"observe", "check", "send"} /\ x = ItemOf(q)
  BY DEF Sending
<1>8. Open' = (IF pc[r] = "publish" THEN Open \ {rid[r]} ELSE Open)
                \cup (IF pc'[r] = "publish" THEN {rid'[r]} ELSE {})
  BY <1>1, <1>2, <1>4, <1>5
<1>9. Sending' = (IF pc[r] \in {"observe", "check", "send"} THEN Sending \ {ItemOf(r)} ELSE Sending)
                   \cup (IF pc'[r] \in {"observe", "check", "send"} THEN {ItemOf(r)'} ELSE {})
  BY <1>3, <1>6, <1>7
<1>. QED  BY <1>8, <1>9

----------------------------------------------------------------------------
(* The steps of the handlers.                                              *)

LEMMA AllocateIssues ==
  ASSUME Inv, NEW r \in Requests, Allocate(r)
  PROVE  Feed!Issue
<1>0. pc \in [Requests -> Stages] /\ rid \in [Requests -> Nat] /\ nextId \in Nat
  BY DEF Inv, TypeOK, HandlersType, LogType
<1>1. /\ pc[r] = "alloc" /\ nextId' = nextId + 1 /\ rid' = [rid EXCEPT ![r] = nextId + 1]
      /\ pc' = [pc EXCEPT ![r] = "publish"] \/ pc' = [pc EXCEPT ![r] = "done"]
      /\ UNCHANGED <<proc, cur, feed, batch, queue, rows>>
  BY DEF Allocate, TakeNextId, Answer, lifeVars, writerVars
<1>2. \A q \in Requests \ {r} : pc'[q] = pc[q] /\ ItemOf(q)' = ItemOf(q)
  BY <1>0, <1>1 DEF ItemOf
<1>3. pc'[r] \in {"publish", "done"} /\ rid'[r] = nextId + 1
  BY <1>0, <1>1
<1>4. Open' = Open \cup {nextId + 1} \/ Open' = Open
  BY <1>1, <1>2, <1>3, HandsMove
<1>5. Sending' = Sending
  BY <1>1, <1>2, <1>3, HandsMove
<1>6. Pending' = Pending
  BY <1>1 DEF Pending
<1>7. proc # "down"
  BY <1>1 DEF Inv, IdsInv, OffWhenDown
<1>. QED  BY <1>1, <1>4, <1>5, <1>6, <1>7 DEF Feed!Issue, Open, Sending

LEMMA PublishBroadcasts ==
  ASSUME Inv, NEW r \in Requests, Publish(r)
  PROVE  \E x \in Rec : Feed!Broadcast(x)
<1>0. pc \in [Requests -> Stages]
  BY DEF Inv, TypeOK, HandlersType
<1>1. /\ pc[r] = "publish" /\ feed' = Append(feed, ItemOf(r))
      /\ pc' = [pc EXCEPT ![r] = "observe"] \/ pc' = [pc EXCEPT ![r] = "check"]
      /\ UNCHANGED <<proc, nextId, cur, rid, batch, queue, rows>>
  BY DEF Publish, lifeVars, writerVars
<1>2. \A q \in Requests : /\ q # r => pc'[q] = pc[q]
                          /\ ItemOf(q)' = ItemOf(q)
  BY <1>0, <1>1 DEF ItemOf
<1>3. pc'[r] \in {"observe", "check"}
  BY <1>0, <1>1
<1>4. Open' = Open \ {rid[r]} /\ rid[r] \in Open
  <2>1. rid[r] \in Open
    BY <1>1 DEF Open
  <2>. QED  BY <1>1, <1>2, <1>3, <2>1, HandsMove
<1>5. Sending' = Sending \cup {ItemOf(r)}
  BY <1>1, <1>2, <1>3, HandsMove
<1>6. Pending' = Pending
  BY <1>1 DEF Pending
<1>7. <<r, cur[r]>> \in Rec
  BY <1>1, AtRecord DEF Resting, Inv, IdsInv, TypeInv
<1>8. ItemOf(r) = [id |-> rid[r], rec |-> <<r, cur[r]>>]
  BY DEF ItemOf
<1>9. Feed!Broadcast(<<r, cur[r]>>)
  BY <1>1, <1>4, <1>5, <1>6, <1>8 DEF Feed!Broadcast, Open, Sending
<1>. QED  BY <1>7, <1>9 DEF Feed!Broadcast

LEMMA EnqueueAccepts ==
  ASSUME Inv, NEW r \in Requests, Enqueue(r) \/ Shed(r)
  PROVE  Feed!Accept \/ Feed!Overload
<1>0. pc \in [Requests -> Stages] /\ cur \in [Requests -> Nat \ {0}]
  BY DEF Inv, TypeOK, HandlersType
<1>1. /\ pc[r] = "send" /\ UNCHANGED <<proc, nextId, rid, feed, rows>>
      /\ \E s \in {"wait", "alloc", "done"} : pc' = [pc EXCEPT ![r] = s]
      /\ \E k : cur' = [cur EXCEPT ![r] = k]
  <2>1. cur = [cur EXCEPT ![r] = cur[r]]
    BY <1>0
  <2>. QED  BY <2>1 DEF Enqueue, Shed, Answer, lifeVars
<1>2. \A q \in Requests \ {r} : pc'[q] = pc[q] /\ ItemOf(q)' = ItemOf(q)
  BY <1>0, <1>1 DEF ItemOf
<1>3. pc'[r] \in {"wait", "alloc", "done"}
  BY <1>0, <1>1
<1>4. Open' = Open
  BY <1>1, <1>2, <1>3, HandsMove
<1>5. Sending' = Sending \ {ItemOf(r)} /\ ItemOf(r) \in Sending
  <2>1. ItemOf(r) \in Sending
    BY <1>1 DEF Sending
  <2>. QED  BY <1>1, <1>2, <1>3, <2>1, HandsMove
<1>6. CASE Enqueue(r)
  <2>1. Pending' = Append(Pending, ItemOf(r))
    BY <1>6, PendingSteps
  <2>. QED  BY <1>1, <1>4, <1>5, <2>1 DEF Feed!Accept, Open, Sending
<1>7. CASE Shed(r)
  <2>1. Pending' = Pending
    BY <1>7 DEF Shed, Pending, writerVars
  <2>. QED  BY <1>1, <1>4, <1>5, <2>1 DEF Feed!Overload, Open, Sending
<1>. QED  BY <1>6, <1>7

\* The other steps of a handler are its own business.
LEMMA HandlerUnseen ==
  ASSUME Inv, NEW r \in Requests,
         \/ Receive(r) \/ RejectEarly(r) \/ Observe(r) \/ CheckDraining(r) \/ Await(r)
         \/ Abandon(r)
  PROVE  UNCHANGED Feed!feedVars
<1>0. pc \in [Requests -> Stages]
  BY DEF Inv, TypeOK, HandlersType
<1>1. UNCHANGED <<proc, nextId, cur, rid, feed, batch, queue, rows>>
  BY DEF Receive, RejectEarly, Arrive, Observe, CheckDraining, Await, Abandon, lifeVars, writerVars
<1>2. \/ pc[r] \in {"idle", "wait"} /\ \E s \in {"alloc", "done"} : pc' = [pc EXCEPT ![r] = s]
      \/ pc[r] \in {"observe", "check"} /\ \E s \in {"check", "send"} : pc' = [pc EXCEPT ![r] = s]
  BY DEF Receive, RejectEarly, Arrive, Observe, CheckDraining, Await, Abandon, Answer
<1>3. \A q \in Requests : /\ q # r => pc'[q] = pc[q]
                          /\ ItemOf(q)' = ItemOf(q)
  BY <1>0, <1>1, <1>2 DEF ItemOf
<1>4. \/ pc[r] \in {"idle", "wait"} /\ pc'[r] \in {"alloc", "done"}
      \/ pc[r] \in {"observe", "check"} /\ pc'[r] \in {"check", "send"}
  BY <1>0, <1>2
<1>5. pc[r] \in {"observe", "check"} => ItemOf(r) \in Sending
  BY DEF Sending
<1>6. Open' = Open
  BY <1>3, <1>4, HandsMove
<1>7. Sending' = Sending
  BY <1>3, <1>4, <1>5, HandsMove
<1>8. Pending' = Pending
  BY <1>1 DEF Pending
<1>. QED  BY <1>1, <1>6, <1>7, <1>8, Unseen

----------------------------------------------------------------------------
(* The steps of the writer thread and of the process.                      *)

\* The writer thread and the process leave what the handlers hold.
LEMMA HandsSame ==
  ASSUME UNCHANGED <<pc, cur, rid>>
  PROVE  Open' = Open /\ Sending' = Sending
BY DEF Open, Sending, ItemOf

\* The batch is the oldest part of the buffer.
LEMMA BatchIsPrefix ==
  ASSUME WriterType, batch # <<>>
  PROVE  /\ Len(batch) \in 1..Len(Pending)
         /\ SubSeq(Pending, 1, Len(batch)) = batch
         /\ SubSeq(Pending, Len(batch) + 1, Len(Pending)) = queue
<1>1. batch \in Seq(Item) /\ queue \in Seq(Item) /\ Len(batch) \in Nat \ {0} /\ Len(queue) \in Nat
  BY EmptySeq, LenProperties DEF WriterType
<1>2. Pending \in Seq(Item) /\ Len(Pending) = Len(batch) + Len(queue)
  BY <1>1, ConcatProperties DEF Pending
<1>3. SubSeq(Pending, 1, Len(batch)) = batch
  BY <1>1, <1>2, PendingParts
<1>4. SubSeq(Pending, Len(batch) + 1, Len(Pending)) = queue
  BY <1>1, <1>2, PendingParts
<1>. QED  BY <1>1, <1>2, <1>3, <1>4

\* Where no id of the batch is a row's, replacing and adding are the same.
LEMMA UpsertAdds ==
  ASSUME WriterType, PendingApart
  PROVE  /\ Ids(batch) \cap DOMAIN rows = {}
         /\ Upsert(rows, batch) = Feed!AddRows(rows, batch)
<1>1. \A k \in DOMAIN batch : batch[k].id \notin DOMAIN rows
  BY PendingParts DEF PendingApart
<1>2. \A j, k \in DOMAIN batch : batch[j].id = batch[k].id => j = k
  BY PartsApart
<1>3. /\ DOMAIN Upsert(rows, batch) = DOMAIN rows \cup Ids(batch)
      /\ \A k \in DOMAIN batch : Upsert(rows, batch)[batch[k].id] = batch[k].rec
      /\ \A i \in DOMAIN rows : i \notin Ids(batch) => Upsert(rows, batch)[i] = rows[i]
  BY BatchUpsert
<1>4. Feed!AddRows(rows, batch) =
        [i \in DOMAIN rows \cup Ids(batch) |->
           IF i \in DOMAIN rows THEN rows[i]
           ELSE batch[CHOOSE k \in DOMAIN batch : batch[k].id = i].rec]
  BY DEF Feed!AddRows, Feed!IdsOf, Ids
<1>5. ASSUME NEW i \in DOMAIN rows \cup Ids(batch)
      PROVE  Upsert(rows, batch)[i] = Feed!AddRows(rows, batch)[i]
  <2>1. CASE i \in DOMAIN rows
    BY <1>1, <1>3, <1>4, <2>1 DEF Ids
  <2>2. CASE i \notin DOMAIN rows
    <3>1. PICK k \in DOMAIN batch : batch[k].id = i
      BY <2>2 DEF Ids
    <3>2. (CHOOSE j \in DOMAIN batch : batch[j].id = i) = k
      BY <1>2, <3>1
    <3>. QED  BY <1>3, <1>4, <2>2, <3>1, <3>2
  <2>. QED  BY <2>1, <2>2
<1>6. Ids(batch) \cap DOMAIN rows = {}
  BY <1>1 DEF Ids
<1>. QED  BY <1>3, <1>4, <1>5, <1>6 DEF Upsert

LEMMA CommitPersists ==
  ASSUME Inv, WriterPlace, Commit
  PROVE  Feed!Persist
<1>1. batch # <<>> /\ WriterType /\ PendingApart
  BY DEF Commit, WriterPlace, Inv, IdsInv, TypeOK
<1>2. /\ UNCHANGED <<proc, pc, cur, rid, nextId, feed>>
      /\ rows' = Upsert(rows, batch) /\ Pending' = queue
  BY PendingSteps DEF Commit, handlerSide, reqVars, lifeVars
<1>3. Open' = Open /\ Sending' = Sending
  BY <1>2, HandsSame
<1>4. Feed!IdsOf(batch) \cap DOMAIN rows = {}
  BY <1>1, UpsertAdds DEF Feed!IdsOf, Ids
<1>5. rows' = Feed!AddRows(rows, batch)
  BY <1>1, <1>2, UpsertAdds
<1>. QED  BY <1>1, <1>2, <1>3, <1>4, <1>5, BatchIsPrefix DEF Feed!Persist, Open, Sending

LEMMA FailureDiscards ==
  ASSUME Inv, WriterPlace, CommitFails
  PROVE  Feed!Discard
<1>1. batch # <<>> /\ WriterType
  BY DEF CommitFails, WriterPlace, Inv, TypeOK
<1>2. /\ UNCHANGED <<proc, pc, cur, rid, nextId, feed, rows>>
      /\ Pending' = queue
  BY PendingSteps DEF CommitFails, RolledBack, handlerSide, reqVars, lifeVars
<1>3. Open' = Open /\ Sending' = Sending
  BY <1>2, HandsSame
<1>. QED  BY <1>1, <1>2, <1>3, BatchIsPrefix DEF Feed!Discard, Open, Sending

LEMMA RetentionForgets ==
  ASSUME Inv, KeepHouse
  PROVE  Feed!Forget \/ UNCHANGED Feed!feedVars
<1>1. UNCHANGED <<proc, pc, cur, rid, nextId, feed>> /\ Pending' = Pending
  BY PendingSteps DEF KeepHouse, handlerSide, reqVars, lifeVars
<1>2. Open' = Open /\ Sending' = Sending
  BY <1>1, HandsSame
<1>3. proc # "down"
  BY DEF KeepHouse, Inv, IdsInv, OffWhenDown
<1>4. rows' = rows \/ \E ids \in SUBSET DOMAIN rows : rows' = [i \in ids |-> rows[i]]
  BY DEF KeepHouse, Prune, WithinCap, Only
<1>5. CASE rows' = rows
  BY <1>1, <1>2, <1>5, Unseen
<1>6. CASE \E ids \in SUBSET DOMAIN rows : rows' = [i \in ids |-> rows[i]]
  BY <1>1, <1>2, <1>3, <1>6 DEF Feed!Forget, Open, Sending
<1>. QED  BY <1>4, <1>5, <1>6

LEMMA WriterUnseen ==
  ASSUME Inv,
         Recv \/ Expire \/ AfterExpire \/ Fill \/ FillDone \/ Notify \/ NotifyDone
  PROVE  UNCHANGED Feed!feedVars
<1>1. UNCHANGED <<proc, pc, cur, rid, nextId, feed, rows>>
  BY DEF Recv, Expire, AfterExpire, Fill, FillDone, Notify, NotifyDone, handlerSide, reqVars,
         lifeVars
<1>2. Recv \/ Fill \/ UNCHANGED <<batch, queue>>
  BY DEF Expire, AfterExpire, FillDone, Notify, NotifyDone
<1>3. Pending' = Pending
  BY <1>2, PendingSteps
<1>. QED  BY <1>1, <1>3, HandsSame, Unseen

LEMMA PowerOffHalts ==
  ASSUME Inv, proc # "down", PowerOff
  PROVE  Feed!Halt
<1>1. Pending' = <<>>
  BY PendingSteps DEF PowerOff
<1>2. proc' = "down" /\ feed' = <<>> /\ nextId' = nextId /\ rows' = rows
  BY DEF PowerOff
<1>3. \A r \in Requests : pc'[r] \in {"idle", "past"}
  BY DEF PowerOff
<1>4. Open' = {} /\ Sending' = {}
  BY <1>3 DEF Open, Sending
<1>. QED  BY <1>1, <1>2, <1>4 DEF Feed!Halt, Open, Sending

LEMMA BootResumes ==
  ASSUME Inv, Boot
  PROVE  Feed!Resume
<1>1. /\ proc = "down" /\ proc' = "up"
      /\ UNCHANGED <<pc, cur, rid, feed, batch, queue, rows>>
  BY DEF Boot, reqVars
<1>2. \E m \in DOMAIN rows \cup {0} : (\A i \in DOMAIN rows : i <= m) /\ nextId' = m
  BY DEF Boot, SeedIds
<1>3. Open' = Open /\ Sending' = Sending /\ Pending' = Pending
  BY <1>1, HandsSame DEF Pending
<1>. QED  BY <1>1, <1>2, <1>3 DEF Feed!Resume, Open, Sending

----------------------------------------------------------------------------
(* The refinement.                                                         *)

LEMMA FeedStart == Init => Feed!FeedInit
<1> SUFFICES ASSUME Init PROVE Feed!FeedInit
  OBVIOUS
<1>1. \A r \in Requests : pc[r] = "idle"
  BY DEF Init
<1>2. Open = {} /\ Sending = {}
  BY <1>1 DEF Open, Sending
<1>3. Pending = <<>>
  BY ConcatEmptySeq, EmptySeq DEF Init, Pending
<1>. QED  BY <1>2, <1>3 DEF Init, Feed!FeedInit, Open, Sending

LEMMA FeedStep == Inv /\ WriterPlace /\ [Next]_vars => [Feed!FeedNext]_(Feed!feedVars)
<1> SUFFICES ASSUME Inv, WriterPlace, [Next]_vars
             PROVE  Feed!FeedNext \/ UNCHANGED Feed!feedVars
  OBVIOUS
<1> USE DEF Feed!FeedNext
<1>1. ASSUME NEW r \in Requests, Receive(r) \/ RejectEarly(r) \/ Handle(r) \/ Abandon(r)
      PROVE  Feed!FeedNext \/ UNCHANGED Feed!feedVars
  BY <1>1, AllocateIssues, PublishBroadcasts, EnqueueAccepts, HandlerUnseen DEF Handle
<1>2. CASE Writer
  BY <1>2, CommitPersists, FailureDiscards, RetentionForgets, WriterUnseen DEF Writer
<1>3. CASE Boot
  BY <1>3, BootResumes
<1>4. CASE Exit \/ Crash
  BY <1>4, PowerOffHalts DEF Exit, Crash
<1>5. CASE Signal \/ ServerDone \/ UNCHANGED vars
  <2>1. UNCHANGED <<pc, cur, rid, nextId, feed, batch, queue, rows>>
    BY <1>5 DEF Signal, ServerDone, vars, reqVars, writerVars
  <2>2. proc' = "down" <=> proc = "down"
    BY <1>5 DEF Signal, ServerDone, vars, lifeVars
  <2>3. Pending' = Pending
    BY <2>1 DEF Pending
  <2>. QED  BY <2>1, <2>2, <2>3, HandsSame, Unseen
<1>. QED  BY <1>1, <1>2, <1>3, <1>4, <1>5 DEF Next, Over

\* The write path implements the abstract log: readers and tails may rely on
\* LogFeed alone, whatever the handlers, the queue and the writer interleave to.
THEOREM IngestImplementsLogFeed == Spec => ImplementsLogFeed
<1>1. AccountInv => Inv /\ WriterPlace
  BY DEF AccountInv
<1>2. Spec => [](Inv /\ WriterPlace)
  BY <1>1, Accounts, PTL
<1>. QED  BY <1>2, FeedStart, FeedStep, PTL DEF Spec, ImplementsLogFeed, Feed!FeedSpec
=============================================================================

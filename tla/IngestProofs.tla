---------------------------- MODULE IngestProofs ----------------------------
(***************************************************************************)
(* Proofs about Ingest, for any number of requests, any bodies, any queue  *)
(* and batch size, and any number of restarts and crashes.                 *)
(***************************************************************************)
EXTENDS Ingest, SequenceTheorems, TLAPS

TypeInv == TypeOK /\ InBody

----------------------------------------------------------------------------
(* Types.                                                                  *)

\* The record a busy handler is at is one its body has, and its item is typed.
LEMMA AtRecord ==
  ASSUME TypeInv, NEW r \in Requests
  PROVE  /\ Len(form[r].body) \in Nat
         /\ ~Resting(r) => cur[r] \in 1..Len(form[r].body) /\ <<r, cur[r]>> \in Rec
         /\ InHand(r) => ItemOf(r) \in Item
<1>1. form[r].body \in Seq(BOOLEAN)
  BY DEF TypeInv, TypeOK, HandlersType, Forms
<1>2. Len(form[r].body) \in Nat
  BY <1>1, LenProperties
<1>3. cur[r] \in Nat \ {0} /\ rid[r] \in Nat
  BY DEF TypeInv, TypeOK, HandlersType
<1>4. ~Resting(r) => cur[r] \in 1..Len(form[r].body) /\ cur[r] \in 1..MaxLen
  BY <1>2, <1>3, BoundsAssumption DEF TypeInv, InBody
<1>5. ~Resting(r) => <<r, cur[r]>> \in Rec
  BY <1>4 DEF Rec
<1>6. InHand(r) => ItemOf(r) \in Item
  BY <1>3, <1>5 DEF InHand, Resting, ItemOf, Item, TypeInv, InBody
<1>. QED  BY <1>2, <1>4, <1>5, <1>6

\* Before the first start every variable has its type.
LEMMA TypeInit == Init => TypeInv
<1> SUFFICES ASSUME Init PROVE TypeInv
  OBVIOUS
<1> USE DEF Init
<1>1. [kind |-> "one", body |-> <<>>] \in Forms
  BY EmptySeq DEF Forms, AllKinds
<1>2. NoReply \in Replies
  BY DEF NoReply, Replies, Statuses
<1>3. "idle" \in Stages
  BY DEF Stages
<1>4. HandlersType
  BY <1>1, <1>2, <1>3 DEF HandlersType
<1>5. <<>> \in Seq(Item) /\ Len(<<>>) = 0
  BY EmptySeq
<1>6. WriterType
  <2>1. Len(queue) <= QueueCap /\ Len(batch) <= MaxBatch
    BY <1>5, BoundsAssumption
  <2>2. outcome \in BOOLEAN /\ final \in BOOLEAN
    OBVIOUS
  <2>. QED  BY <1>5, <2>1, <2>2 DEF WriterType, WriterStages
<1>7. LogType /\ CountsType
  BY <1>5 DEF LogType, CountsType
<1>8. InBody
  BY BoundsAssumption, EmptySeq DEF InBody, Resting, InHand
<1>. QED  BY <1>4, <1>6, <1>7, <1>8 DEF TypeInv, TypeOK

\* What a step leaves alone stays typed.
LEMMA TypeFrames ==
  ASSUME TypeInv
  PROVE  /\ UNCHANGED reqVars => HandlersType' /\ InBody'
         /\ UNCHANGED <<queue, writerVars>> => WriterType'
         /\ UNCHANGED <<nextId, rows, feed>> => LogType'
         /\ UNCHANGED <<observed, metricVars, lifeVars, took, endVars>> => CountsType'
<1> USE DEF TypeInv, TypeOK
<1>1. UNCHANGED reqVars => HandlersType' /\ InBody'
  BY DEF reqVars, HandlersType, InBody, Resting, InHand
<1>2. UNCHANGED <<queue, writerVars>> => WriterType'
  BY DEF writerVars, WriterType
<1>3. UNCHANGED <<nextId, rows, feed>> => LogType'
  BY DEF LogType
<1>4. UNCHANGED <<observed, metricVars, lifeVars, took, endVars>> => CountsType'
  BY DEF metricVars, lifeVars, endVars, CountsType
<1>. QED  BY <1>1, <1>2, <1>3, <1>4

\* A handler that goes on to s and changes nothing of its request stays typed.
LEMMA MoveType ==
  ASSUME TypeInv, NEW r \in Requests, NEW s \in Stages,
         pc' = [pc EXCEPT ![r] = s],
         UNCHANGED <<form, cur, rid, reply, ack>>,
         s # "idle",
         s \in {"done", "past"} \/ ~Resting(r),
         s \in {"publish", "observe", "check", "send"} => InHand(r)
  PROVE  HandlersType' /\ InBody'
<1> USE DEF TypeInv, TypeOK
<1>1. HandlersType'
  BY DEF HandlersType
<1>2. ASSUME NEW q \in Requests
      PROVE  /\ Len(form[q].body) <= MaxLen
             /\ pc'[q] = IF q = r THEN s ELSE pc[q]
  BY DEF InBody, HandlersType
<1>3. InBody'
  BY <1>2 DEF InBody, Resting, InHand
<1>. QED  BY <1>1, <1>3

\* A handler that answers and changes nothing else of its request stays typed.
LEMMA AnswerType ==
  ASSUME TypeInv, NEW r \in Requests, NEW s \in Statuses, NEW a \in Nat, NEW d \in Nat,
         Answer(r, s, a, d)
  PROVE  /\ pc' \in [Requests -> Stages] /\ reply' \in [Requests -> Replies]
         /\ UNCHANGED <<form, cur, rid, ack>> => HandlersType' /\ InBody'
<1> USE DEF TypeInv, TypeOK
<1>1. pc' \in [Requests -> Stages]
  BY DEF Answer, HandlersType, Stages
<1>2. reply' \in [Requests -> Replies]
  BY DEF Answer, HandlersType, Replies
<1>3. ASSUME UNCHANGED <<form, cur, rid, ack>>  PROVE HandlersType'
  BY <1>1, <1>2, <1>3 DEF HandlersType
<1>4. \A q \in Requests : pc'[q] = IF q = r THEN "done" ELSE pc[q]
  BY DEF Answer, HandlersType
<1>5. ASSUME UNCHANGED <<form, cur, rid, ack>>  PROVE InBody'
  BY <1>4, <1>5 DEF InBody, Resting, InHand
<1>. QED  BY <1>1, <1>2, <1>3, <1>5

\* The steps of the handlers.
LEMMA HandlersTypeNext ==
  ASSUME TypeInv, NEW r \in Requests,
         Receive(r) \/ RejectEarly(r) \/ Handle(r) \/ Abandon(r)
  PROVE  TypeInv'
<1> USE DEF TypeInv, TypeOK
<1>1. CASE Receive(r)
  <2>1. PICK k \in Kinds, b \in Bodies :
          /\ b # <<>> \/ Len(b) = 1
          /\ Arrive(r, k, b)
          /\ pc' = [pc EXCEPT ![r] = "alloc"] /\ reply' = reply
    BY <1>1 DEF Receive
  <2>2. [kind |-> k, body |-> b] \in Forms /\ Len(b) \in 1..MaxLen
    <3>1. k \in AllKinds /\ b \in Seq(BOOLEAN) /\ Len(b) <= MaxLen
      BY KindsAssumption, BodiesAssumption
    <3>2. Len(b) \in Nat /\ Len(b) # 0
      BY <2>1, <3>1, EmptySeq, LenProperties
    <3>. QED  BY <3>1, <3>2, BoundsAssumption DEF Forms
  <2>3. HandlersType'
    BY <2>1, <2>2 DEF HandlersType, Arrive, Stages
  <2>4. InBody'
    BY <2>1, <2>2 DEF InBody, Arrive, Resting, InHand, HandlersType
  <2>5. WriterType' /\ LogType' /\ CountsType'
    BY <2>1, TypeFrames DEF Arrive
  <2>. QED  BY <2>3, <2>4, <2>5
<1>2. CASE RejectEarly(r)
  <2>1. PICK k \in Kinds, b \in Bodies : Arrive(r, k, b) /\ Answer(r, "400", 0, 0)
    BY <1>2 DEF RejectEarly
  <2>2. [kind |-> k, body |-> b] \in Forms /\ Len(b) <= MaxLen
    BY KindsAssumption, BodiesAssumption DEF Forms
  <2>3. pc' \in [Requests -> Stages] /\ reply' \in [Requests -> Replies]
    BY <2>1, AnswerType DEF Statuses
  <2>4. HandlersType'
    BY <2>1, <2>2, <2>3 DEF HandlersType, Arrive
  <2>5. \A q \in Requests : /\ pc'[q] = IF q = r THEN "done" ELSE pc[q]
                            /\ form'[q] = IF q = r THEN [kind |-> k, body |-> b] ELSE form[q]
    BY <2>1 DEF Answer, Arrive, HandlersType
  <2>6. InBody'
    BY <2>1, <2>2, <2>5 DEF InBody, Arrive, Resting, InHand
  <2>7. WriterType' /\ LogType' /\ CountsType'
    BY <2>1, TypeFrames DEF Arrive
  <2>. QED  BY <2>4, <2>6, <2>7
<1>3. CASE Allocate(r)
  <2>1. /\ pc[r] = "alloc" /\ UNCHANGED <<form, cur, ack>>
        /\ nextId' = nextId + 1 /\ rid' = [rid EXCEPT ![r] = nextId + 1]
    BY <1>3 DEF Allocate, TakeNextId
  <2>2. nextId \in Nat
    BY DEF LogType
  <2>3. /\ pc' = [pc EXCEPT ![r] = "publish"] \/ pc' = [pc EXCEPT ![r] = "done"]
        /\ reply' \in [Requests -> Replies]
    BY <1>3, AnswerType DEF Allocate, Answer, HandlersType, Statuses
  <2>4. HandlersType'
    <3>1. rid' \in [Requests -> Nat]
      BY <2>1, <2>2 DEF HandlersType
    <3>2. pc' \in [Requests -> Stages]
      BY <2>3 DEF HandlersType, Stages
    <3>. QED  BY <2>1, <2>3, <3>1, <3>2 DEF HandlersType
  <2>5. ASSUME NEW q \in Requests
        PROVE  /\ pc'[q] = pc[q] \/ (q = r /\ pc'[q] \in {"publish", "done"})
               /\ rid'[q] = IF q = r THEN nextId + 1 ELSE rid[q]
    <3>1. rid'[q] = IF q = r THEN nextId + 1 ELSE rid[q]
      BY <2>1 DEF HandlersType
    <3>2. pc'[q] = pc[q] \/ (q = r /\ pc'[q] \in {"publish", "done"})
      BY <2>3 DEF HandlersType
    <3>. QED  BY <3>1, <3>2
  <2>6. InBody'
    BY <2>1, <2>2, <2>5 DEF InBody, Resting, InHand
  <2>7. WriterType' /\ CountsType' /\ LogType'
    BY <1>3, <2>1, <2>2, TypeFrames DEF Allocate, LogType
  <2>. QED  BY <2>4, <2>6, <2>7
<1>4. CASE Publish(r)
  <2>1. ~Resting(r) /\ InHand(r) /\ ItemOf(r) \in Item
    BY <1>4, AtRecord DEF Publish, InHand, Resting
  <2>2. HandlersType' /\ InBody'
    <3>1. CASE IsHttp(r)
      BY <1>4, <2>1, <3>1, MoveType DEF Publish, Stages
    <3>2. CASE ~IsHttp(r)
      BY <1>4, <2>1, <3>2, MoveType DEF Publish, Stages
    <3>. QED  BY <3>1, <3>2
  <2>3. feed' \in Seq(Item)
    BY <1>4, <2>1, AppendProperties DEF Publish, LogType
  <2>4. WriterType' /\ CountsType' /\ LogType'
    BY <1>4, <2>3, TypeFrames DEF Publish, LogType
  <2>. QED  BY <2>2, <2>4
<1>5. CASE Observe(r)
  <2>1. ~Resting(r) /\ InHand(r) /\ <<r, cur[r]>> \in Rec
    BY <1>5, AtRecord DEF Observe, InHand, Resting
  <2>2. HandlersType' /\ InBody'
    BY <1>5, <2>1, MoveType DEF Observe, Stages
  <2>3. WriterType' /\ LogType'
    BY <1>5, TypeFrames DEF Observe
  <2>4. CountsType'
    BY <1>5, <2>1 DEF Observe, CountsType, metricVars, lifeVars, endVars
  <2>. QED  BY <2>2, <2>3, <2>4
<1>6. CASE CheckDraining(r)
  <2>1. ~Resting(r) /\ InHand(r)
    BY <1>6 DEF CheckDraining, InHand, Resting
  <2>2. HandlersType' /\ InBody'
    BY <1>6, <2>1, MoveType DEF CheckDraining, Stages
  <2>. QED  BY <1>6, <2>2, TypeFrames DEF CheckDraining
<1>7. CASE Enqueue(r)
  <2>1. /\ ~Resting(r) /\ InHand(r) /\ ItemOf(r) \in Item /\ <<r, cur[r]>> \in Rec
        /\ Len(form[r].body) \in Nat /\ cur[r] \in 1..Len(form[r].body)
    BY <1>7, AtRecord DEF Enqueue, InHand, Resting
  <2>2. HandlersType' /\ InBody'
    <3>1. CASE form[r].kind = "sync"
      BY <1>7, <2>1, <3>1, MoveType DEF Enqueue, Stages
    <3>2. CASE form[r].kind # "sync" /\ cur[r] < Len(form[r].body)
      <4>1. /\ cur' = [cur EXCEPT ![r] = cur[r] + 1] /\ pc' = [pc EXCEPT ![r] = "alloc"]
            /\ UNCHANGED <<form, rid, reply, ack>>
        BY <1>7, <2>1, <3>2 DEF Enqueue
      <4>2. HandlersType'
        BY <2>1, <4>1 DEF HandlersType, Stages
      <4>3. \A q \in Requests : /\ pc'[q] = IF q = r THEN "alloc" ELSE pc[q]
                                /\ cur'[q] = IF q = r THEN cur[r] + 1 ELSE cur[q]
        BY <4>1 DEF HandlersType
      <4>4. InBody'
        BY <2>1, <3>2, <4>1, <4>3 DEF InBody, Resting, InHand
      <4>. QED  BY <4>2, <4>4
    <3>3. CASE form[r].kind # "sync" /\ cur[r] = Len(form[r].body)
      BY <1>7, <2>1, <3>3, AnswerType DEF Enqueue, Statuses
    <3>. QED  BY <2>1, <3>1, <3>2, <3>3
  <2>3. queue' \in Seq(Item) /\ Len(queue') <= QueueCap
    BY <1>7, <2>1, AppendProperties, LenProperties, BoundsAssumption
    DEF Enqueue, QueueHasRoom, WriterType
  <2>4. WriterType' /\ LogType'
    BY <1>7, <2>3, TypeFrames DEF Enqueue, WriterType, writerVars
  <2>5. CountsType'
    <3>1. ingested' \in Nat
      BY <1>7 DEF Enqueue, CountsType
    <3>2. took' \subseteq Rec
      BY <1>7, <2>1 DEF Enqueue, CountsType
    <3>. QED  BY <1>7, <3>1, <3>2 DEF Enqueue, CountsType, lifeVars, endVars
  <2>. QED  BY <2>2, <2>4, <2>5
<1>8. CASE Shed(r)
  <2>1. /\ Len(form[r].body) \in Nat /\ cur[r] \in 1..Len(form[r].body)
    BY <1>8, AtRecord DEF Shed, Resting
  <2>2. Dropped(r) \in Nat /\ ShedBy(r) \in Nat /\ cur[r] - 1 \in Nat
    BY <2>1 DEF Dropped, ShedBy
  <2>3. HandlersType' /\ InBody'
    <3>1. CASE cur[r] = 1
      BY <1>8, <2>2, <3>1, AnswerType DEF Shed, Statuses
    <3>2. CASE cur[r] # 1
      BY <1>8, <2>2, <3>2, AnswerType DEF Shed, Statuses
    <3>. QED  BY <3>1, <3>2
  <2>4. WriterType' /\ LogType'
    BY <1>8, TypeFrames DEF Shed
  <2>5. CountsType'
    BY <1>8, <2>2 DEF Shed, CountsType, lifeVars, endVars
  <2>. QED  BY <2>3, <2>4, <2>5
<1>9. CASE Await(r)
  <2>1. HandlersType' /\ InBody'
    BY <1>9, AnswerType DEF Await, Statuses
  <2>. QED  BY <1>9, <2>1, TypeFrames DEF Await
<1>10. CASE Abandon(r)
  <2>1. HandlersType' /\ InBody'
    BY <1>10, MoveType DEF Abandon, Stages
  <2>. QED  BY <1>10, <2>1, TypeFrames DEF Abandon
<1>. QED  BY <1>1, <1>2, <1>3, <1>4, <1>5, <1>6, <1>7, <1>8, <1>9, <1>10 DEF Handle

\* The records of typed items are records.
LEMMA RecsType ==
  ASSUME NEW s \in Seq(Item)
  PROVE  Recs(s) \subseteq Rec
<1>1. \A k \in DOMAIN s : s[k].rec \in Rec
  <2>1. \A k \in DOMAIN s : s[k] \in Item
    BY LenProperties, ElementOfSeq
  <2>. QED  BY <2>1 DEF Item
<1>. QED  BY <1>1 DEF Recs


\* The buffer of accepted items is the batch followed by the channel.
LEMMA PendingParts ==
  ASSUME WriterType
  PROVE  /\ Pending \in Seq(Item)
         /\ Len(batch) \in Nat /\ Len(queue) \in Nat
         /\ DOMAIN batch = 1..Len(batch) /\ DOMAIN queue = 1..Len(queue)
         /\ DOMAIN Pending = 1..Len(batch) + Len(queue)
         /\ \A k \in 1..Len(batch) : Pending[k] = batch[k]
         /\ \A k \in 1..Len(queue) : Pending[Len(batch) + k] = queue[k]
<1>1. batch \in Seq(Item) /\ queue \in Seq(Item)
  BY DEF WriterType
<1>2. Len(batch) \in Nat /\ Len(queue) \in Nat
  BY <1>1, LenProperties
<1>3. DOMAIN batch = 1..Len(batch) /\ DOMAIN queue = 1..Len(queue)
  BY <1>1, LenProperties
<1>4. /\ Pending \in Seq(Item)
      /\ Len(Pending) = Len(batch) + Len(queue)
      /\ \A i \in 1 .. Len(batch) + Len(queue) :
           Pending[i] = IF i <= Len(batch) THEN batch[i] ELSE queue[i - Len(batch)]
  BY <1>1, ConcatProperties DEF Pending
<1>5. DOMAIN Pending = 1..Len(batch) + Len(queue)
  BY <1>4, LenProperties
<1>6. \A k \in 1..Len(batch) : Pending[k] = batch[k]
  BY <1>2, <1>4
<1>7. \A k \in 1..Len(queue) : Pending[Len(batch) + k] = queue[k]
  BY <1>2, <1>4
<1>. QED  BY <1>2, <1>3, <1>4, <1>5, <1>6, <1>7

\* Two pending items with one id are the same item of the batch or of the channel.
LEMMA PartsApart ==
  ASSUME WriterType, PendingApart
  PROVE  /\ \A j, k \in DOMAIN batch : batch[j].id = batch[k].id => j = k
         /\ \A j, k \in DOMAIN queue : queue[j].id = queue[k].id => j = k
         /\ \A j \in DOMAIN batch, k \in DOMAIN queue : batch[j].id # queue[k].id
<1> DEFINE B == Len(batch)
<1>1. \A j, k \in 1..B + Len(queue) : Pending[j].id = Pending[k].id => j = k
  BY PendingParts DEF PendingApart
<1>2. /\ B \in Nat /\ Len(queue) \in Nat
      /\ DOMAIN batch = 1..B /\ DOMAIN queue = 1..Len(queue)
      /\ \A k \in 1..B : Pending[k] = batch[k] /\ k \in 1..B + Len(queue)
      /\ \A k \in 1..Len(queue) : Pending[B + k] = queue[k] /\ B + k \in 1..B + Len(queue)
  BY PendingParts
<1> HIDE DEF B
<1>3. \A j, k \in DOMAIN batch : batch[j].id = batch[k].id => j = k
  BY <1>1, <1>2
<1>4. ASSUME NEW j \in DOMAIN queue, NEW k \in DOMAIN queue, queue[j].id = queue[k].id
      PROVE  j = k
  <2>1. B + j = B + k
    BY <1>1, <1>2, <1>4
  <2>. QED  BY <1>2, <2>1
<1>5. ASSUME NEW j \in DOMAIN batch, NEW k \in DOMAIN queue, batch[j].id = queue[k].id
      PROVE  FALSE
  <2>1. j = B + k
    BY <1>1, <1>2, <1>5
  <2>. QED  BY <1>2, <2>1
<1>. QED  BY <1>3, <1>4, <1>5

\* What INSERT OR REPLACE does to a table when no two items have the same id.
LEMMA UpsertApart ==
  ASSUME NEW t, NEW b \in Seq(Item), \A j, k \in DOMAIN b : b[j].id = b[k].id => j = k
  PROVE  /\ DOMAIN Upsert(t, b) = DOMAIN t \cup Ids(b)
         /\ \A k \in DOMAIN b : Upsert(t, b)[b[k].id] = b[k].rec
         /\ \A i \in DOMAIN t : i \notin Ids(b) => Upsert(t, b)[i] = t[i]
<1>1. DOMAIN Upsert(t, b) = DOMAIN t \cup Ids(b)
  BY DEF Upsert
<1>2. ASSUME NEW k \in DOMAIN b
      PROVE  Upsert(t, b)[b[k].id] = b[k].rec
  <2>1. DOMAIN b \subseteq Nat
    BY LenProperties
  <2>2. b[k].id \in Ids(b)
    BY DEF Ids
  <2>3. \A h \in DOMAIN b :
          (b[h].id = b[k].id /\ \A j \in DOMAIN b : b[j].id = b[k].id => j <= h) <=> h = k
    BY <2>1
  <2>4. k = CHOOSE h \in DOMAIN b :
              b[h].id = b[k].id /\ \A j \in DOMAIN b : b[j].id = b[k].id => j <= h
    BY <2>3
  <2>. QED  BY <2>2, <2>4 DEF Upsert
<1>3. \A i \in DOMAIN t : i \notin Ids(b) => Upsert(t, b)[i] = t[i]
  BY DEF Upsert
<1>. QED  BY <1>1, <1>2, <1>3

\* A committed batch becomes rows, each of its items under its own id.
LEMMA BatchUpsert ==
  ASSUME WriterType, PendingApart
  PROVE  /\ DOMAIN Upsert(rows, batch) = DOMAIN rows \cup Ids(batch)
         /\ \A k \in DOMAIN batch : Upsert(rows, batch)[batch[k].id] = batch[k].rec
         /\ \A i \in DOMAIN rows : i \notin Ids(batch) => Upsert(rows, batch)[i] = rows[i]
<1>1. batch \in Seq(Item)
  BY DEF WriterType
<1>2. \A j, k \in DOMAIN batch : batch[j].id = batch[k].id => j = k
  BY PartsApart
<1>. QED  BY <1>1, <1>2, UpsertApart

\* The steps of the writer.
LEMMA WriterTypeNext ==
  ASSUME TypeInv, BatchWhere, PendingApart, Writer
  PROVE  TypeInv'
<1> USE DEF TypeInv, TypeOK
<1>0. /\ queue \in Seq(Item) /\ batch \in Seq(Item) /\ acks \in Seq(Item)
      /\ Len(queue) \in Nat /\ Len(batch) \in Nat
  BY LenProperties DEF WriterType
<1>1. CASE Recv
  <2>1. Head(queue) \in Item /\ Tail(queue) \in Seq(Item) /\ Len(Tail(queue)) <= QueueCap
    BY <1>0, <1>1, HeadTailProperties, BoundsAssumption DEF Recv, WriterType
  <2>2. <<Head(queue)>> \in Seq(Item) /\ Len(<<Head(queue)>>) <= MaxBatch
    BY <2>1, BoundsAssumption
  <2>3. WriterType'
    BY <1>1, <2>1, <2>2 DEF Recv, WriterType, WriterStages
  <2>. QED  BY <1>1, <2>3, TypeFrames
            DEF Recv, handlerSide, reqVars, metricVars, lifeVars, endVars
<1>2. CASE Expire
  <2>1. WriterType'
    BY <1>2 DEF Expire, WriterType, WriterStages
  <2>. QED  BY <1>2, <2>1, TypeFrames
            DEF Expire, handlerSide, reqVars, metricVars, lifeVars, endVars
<1>3. CASE AfterExpire
  <2>1. WriterType'
    <3>1. final' \in BOOLEAN
      BY <1>3 DEF AfterExpire, LeaveLoop, draining
    <3>. QED  BY <1>3, <3>1 DEF AfterExpire, WriterType, WriterStages
  <2>. QED  BY <1>3, <2>1, TypeFrames
            DEF AfterExpire, handlerSide, reqVars, metricVars, lifeVars, endVars
<1>4. CASE Fill
  <2>1. Head(queue) \in Item /\ Tail(queue) \in Seq(Item) /\ Len(Tail(queue)) <= QueueCap
    BY <1>0, <1>4, HeadTailProperties, BoundsAssumption DEF Fill, WriterType
  <2>2. Append(batch, Head(queue)) \in Seq(Item) /\ Len(Append(batch, Head(queue))) <= MaxBatch
    BY <1>0, <1>4, <2>1, AppendProperties, BoundsAssumption DEF Fill
  <2>3. WriterType'
    BY <1>4, <2>1, <2>2 DEF Fill, WriterType, WriterStages
  <2>. QED  BY <1>4, <2>3, TypeFrames
            DEF Fill, handlerSide, reqVars, metricVars, lifeVars, endVars
<1>5. CASE FillDone
  <2>1. WriterType'
    BY <1>5 DEF FillDone, WriterType, WriterStages
  <2>. QED  BY <1>5, <2>1, TypeFrames
            DEF FillDone, handlerSide, reqVars, metricVars, lifeVars, endVars
<1>6. ASSUME Commit \/ CommitFails
      PROVE  WriterType' /\ HandlersType' /\ InBody'
  <2>1. /\ batch' = <<>> /\ acks' = batch /\ wpc' = "ack" /\ outcome' \in BOOLEAN
        /\ UNCHANGED <<queue, final>> /\ UNCHANGED reqVars
    BY <1>6 DEF Commit, CommitFails, BatchDone, handlerSide
  <2>2. <<>> \in Seq(Item) /\ Len(<<>>) <= MaxBatch
    BY EmptySeq, BoundsAssumption
  <2>3. WriterType'
    BY <1>0, <2>1, <2>2 DEF WriterType, WriterStages
  <2>. QED  BY <2>1, <2>3, TypeFrames
<1>7. CASE Commit
  <2>1. \A k \in DOMAIN batch : batch[k] \in Item
    BY <1>0, LenProperties, ElementOfSeq
  <2>2. \A i \in Ids(batch) : \E k \in DOMAIN batch : i = batch[k].id
    BY DEF Ids
  <2>3. /\ DOMAIN Upsert(rows, batch) = DOMAIN rows \cup Ids(batch)
        /\ \A k \in DOMAIN batch : Upsert(rows, batch)[batch[k].id] = batch[k].rec
        /\ \A i \in DOMAIN rows : i \notin Ids(batch) => Upsert(rows, batch)[i] = rows[i]
    BY BatchUpsert
  <2>4. Ids(batch) \subseteq Nat \ {0}
    BY <2>1, <2>2 DEF Item
  <2>5. \A i \in DOMAIN rows \cup Ids(batch) : Upsert(rows, batch)[i] \in Rec
    BY <2>1, <2>2, <2>3 DEF Item, LogType
  <2>6. Upsert(rows, batch) \in [DOMAIN Upsert(rows, batch) -> Rec]
    <3>1. Upsert(rows, batch) = [i \in DOMAIN rows \cup Ids(batch) |-> Upsert(rows, batch)[i]]
      BY DEF Upsert
    <3>. QED  BY <2>3, <2>5, <3>1
  <2>7. LogType'
    BY <1>7, <2>3, <2>4, <2>6 DEF Commit, LogType, handlerSide
  <2>8. Recs(batch) \subseteq Rec
    BY <1>0, RecsType
  <2>9. CountsType'
    BY <1>7, <2>8 DEF Commit, CountsType, handlerSide, metricVars, lifeVars
  <2>. QED  BY <1>6, <1>7, <2>7, <2>9
<1>8. CASE CommitFails
  <2>1. LogType'
    BY <1>8 DEF CommitFails, RolledBack, LogType, handlerSide
  <2>2. Recs(batch) \subseteq Rec
    BY <1>0, RecsType
  <2>3. CountsType'
    BY <1>8, <2>2 DEF CommitFails, CountsType, handlerSide, metricVars, lifeVars
  <2>. QED  BY <1>6, <1>8, <2>1, <2>3
<1>9. CASE Notify
  <2>1. ack' = ack \/ \E q \in Requests : ack' = [ack EXCEPT ![q] = AckOf]
    <3>1. Head(acks) \in Item
      BY <1>0, <1>9, HeadTailProperties DEF Notify
    <3>2. Head(acks).rec[1] \in Requests
      BY <3>1 DEF Item, Rec
    <3>. QED  BY <1>9, <3>2 DEF Notify
  <2>2. ack' \in [Requests -> {"none", "ok", "err"}]
    BY <2>1 DEF HandlersType, AckOf
  <2>3. HandlersType' /\ InBody'
    BY <1>9, <2>2 DEF Notify, HandlersType, InBody, Resting, InHand
  <2>4. Tail(acks) \in Seq(Item)
    BY <1>0, <1>9, HeadTailProperties DEF Notify
  <2>5. WriterType'
    BY <1>9, <2>4 DEF Notify, WriterType
  <2>. QED  BY <1>9, <2>3, <2>5, TypeFrames DEF Notify
<1>10. CASE NotifyDone
  <2>1. WriterType'
    BY <1>10 DEF NotifyDone, WriterType, WriterStages
  <2>. QED  BY <1>10, <2>1, TypeFrames
            DEF NotifyDone, handlerSide, reqVars, metricVars, lifeVars, endVars
<1>11. CASE KeepHouse
  <2>1. WriterType'
    BY <1>11 DEF KeepHouse, WriterType, WriterStages
  <2>2. rows' = rows \/ \E ids \in SUBSET DOMAIN rows : rows' = Only(rows, ids)
    BY <1>11 DEF KeepHouse, Prune, WithinCap
  <2>3. LogType'
    <3>1. CASE rows' = rows
      BY <1>11, <3>1 DEF KeepHouse, LogType, handlerSide
    <3>2. ASSUME NEW ids \in SUBSET DOMAIN rows, rows' = Only(rows, ids)
          PROVE  LogType'
      BY <1>11, <3>2 DEF KeepHouse, LogType, handlerSide, Only
    <3>. QED  BY <2>2, <3>1, <3>2
  <2>. QED  BY <1>11, <2>1, <2>3, TypeFrames
            DEF KeepHouse, handlerSide, reqVars, metricVars, lifeVars, endVars
<1>. QED  BY <1>1, <1>2, <1>3, <1>4, <1>5, <1>7, <1>8, <1>9, <1>10, <1>11 DEF Writer

\* The steps of the process.
LEMMA ProcessTypeNext ==
  ASSUME TypeInv, Boot \/ Signal \/ ServerDone \/ Exit \/ Crash
  PROVE  TypeInv'
<1> USE DEF TypeInv, TypeOK
<1>1. CASE Boot
  <2>1. HandlersType' /\ InBody'
    BY <1>1, TypeFrames DEF Boot
  <2>2. WriterType'
    BY <1>1 DEF Boot, WriterType, WriterStages
  <2>3. nextId' \in Nat
    BY <1>1 DEF Boot, SeedIds, LogType
  <2>4. LogType'
    BY <1>1, <2>3 DEF Boot, LogType
  <2>5. CountsType'
    BY <1>1 DEF Boot, CountsType, metricVars, endVars
  <2>. QED  BY <2>1, <2>2, <2>4, <2>5
<1>2. CASE Signal \/ ServerDone
  <2>1. CountsType'
    BY <1>2 DEF Signal, ServerDone, CountsType, metricVars, endVars
  <2>. QED  BY <1>2, <2>1, TypeFrames DEF Signal, ServerDone
<1>3. ASSUME PowerOff, boots' = boots, crashes' \in Nat
      PROVE  TypeInv'
  <2>1. /\ pc' = [r \in Requests |-> IF pc[r] = "idle" THEN "idle" ELSE "past"]
        /\ UNCHANGED <<form, cur, rid, reply, ack>>
    BY <1>3 DEF PowerOff
  <2>2. HandlersType'
    BY <2>1 DEF HandlersType, Stages
  <2>3. \A r \in Requests : /\ pc'[r] = IF pc[r] = "idle" THEN "idle" ELSE "past"
                            /\ Len(form[r].body) <= MaxLen
    BY <2>1 DEF InBody
  <2>4. InBody'
    BY <2>1, <2>3 DEF InBody, Resting, InHand
  <2>5. <<>> \in Seq(Item) /\ Len(<<>>) <= QueueCap /\ Len(<<>>) <= MaxBatch
    BY EmptySeq, BoundsAssumption
  <2>6. WriterType'
    BY <1>3, <2>5 DEF PowerOff, WriterType, WriterStages
  <2>7. LogType'
    BY <1>3, <2>5 DEF PowerOff, LogType
  <2>8. Recs(Pending) \subseteq Rec
    BY PendingParts, RecsType
  <2>9. CountsType'
    BY <1>3, <2>8 DEF PowerOff, CountsType
  <2>. QED  BY <2>2, <2>4, <2>6, <2>7, <2>9
<1>4. CASE Exit \/ Crash
  BY <1>3, <1>4 DEF Exit, Crash, CountsType, PowerOff
<1>. QED  BY <1>1, <1>2, <1>4

----------------------------------------------------------------------------
(* Ids.                                                                    *)

Inv == TypeOK /\ IdsInv

\* How the steps of the queue and the writer change the buffer as a whole.
LEMMA PendingSteps ==
  ASSUME Inv
  PROVE  /\ Recv \/ Fill => Pending' = Pending
         /\ \A r \in Requests : Enqueue(r) => Pending' = Append(Pending, ItemOf(r))
         /\ Commit \/ CommitFails => Pending' = queue
         /\ UNCHANGED <<batch, queue>> => Pending' = Pending
         /\ batch' = <<>> /\ queue' = <<>> => Pending' = <<>>
<1>1. batch \in Seq(Item) /\ queue \in Seq(Item)
  BY DEF Inv, TypeOK, WriterType
<1>2. ASSUME queue # <<>>
      PROVE  /\ Head(queue) \in Item /\ Tail(queue) \in Seq(Item)
             /\ <<Head(queue)>> \in Seq(Item)
             /\ <<Head(queue)>> \o Tail(queue) = queue
  <2>1. Head(queue) \in Item /\ Tail(queue) \in Seq(Item)
    BY <1>1, <1>2, HeadTailProperties
  <2>2. <<Head(queue)>> \in Seq(Item)
    BY <2>1
  <2>3. <<Head(queue)>> \o Tail(queue) = queue
    <3>1. /\ <<Head(queue)>> \o Tail(queue) \in Seq(Item)
          /\ Len(<<Head(queue)>> \o Tail(queue)) = 1 + Len(Tail(queue))
          /\ \A i \in 1 .. 1 + Len(Tail(queue)) :
               (<<Head(queue)>> \o Tail(queue))[i] =
                 IF i <= 1 THEN <<Head(queue)>>[i] ELSE Tail(queue)[i - 1]
      BY <2>1, <2>2, ConcatProperties
    <3>2. /\ Len(queue) \in Nat /\ Len(Tail(queue)) = Len(queue) - 1
          /\ \A i \in 1 .. Len(Tail(queue)) : Tail(queue)[i] = queue[i + 1]
      BY <1>1, <1>2, HeadTailProperties, LenProperties
    <3>3. Len(<<Head(queue)>> \o Tail(queue)) = Len(queue)
      BY <3>1, <3>2
    <3>4. ASSUME NEW i \in 1..Len(queue)
          PROVE  (<<Head(queue)>> \o Tail(queue))[i] = queue[i]
      <4>1. CASE i = 1
        BY <3>1, <3>2, <4>1
      <4>2. CASE i # 1
        <5>1. i - 1 \in 1..Len(Tail(queue)) /\ i \in 1 .. 1 + Len(Tail(queue)) /\ ~(i <= 1)
          BY <3>2, <4>2
        <5>2. Tail(queue)[i - 1] = queue[i]
          BY <3>2, <5>1
        <5>. QED  BY <3>1, <5>1, <5>2
      <4>. QED  BY <4>1, <4>2
    <3>. QED  BY <1>1, <3>1, <3>3, <3>4, SeqEqual
  <2>. QED  BY <2>1, <2>2, <2>3
<1>3. ASSUME Recv  PROVE Pending' = Pending
  <2>1. batch = <<>> /\ Pending = queue
    BY <1>1, <1>3, ConcatEmptySeq DEF Recv, Inv, IdsInv, BatchWhere, Pending
  <2>. QED  BY <1>2, <1>3, <2>1 DEF Recv, Pending
<1>4. ASSUME Fill  PROVE Pending' = Pending
  <2>1. Pending' = Append(batch, Head(queue)) \o Tail(queue)
    BY <1>4 DEF Fill, Pending
  <2>2. Append(batch, Head(queue)) = batch \o <<Head(queue)>>
    BY <1>1, <1>2, <1>4, AppendIsConcat DEF Fill
  <2>3. (batch \o <<Head(queue)>>) \o Tail(queue) = batch \o (<<Head(queue)>> \o Tail(queue))
    BY <1>1, <1>2, <1>4, ConcatAssociative DEF Fill
  <2>. QED  BY <1>2, <1>4, <2>1, <2>2, <2>3 DEF Fill, Pending
<1>5. ASSUME NEW r \in Requests, Enqueue(r)  PROVE Pending' = Append(Pending, ItemOf(r))
  <2>1. ItemOf(r) \in Item
    BY <1>5, AtRecord DEF Enqueue, InHand, Inv, IdsInv, TypeInv
  <2>2. <<ItemOf(r)>> \in Seq(Item) /\ Pending \in Seq(Item)
    BY <1>1, <2>1, ConcatProperties DEF Pending
  <2>3. Pending' = batch \o (queue \o <<ItemOf(r)>>)
    BY <1>1, <1>5, <2>1, AppendIsConcat DEF Enqueue, Pending, writerVars
  <2>4. (batch \o queue) \o <<ItemOf(r)>> = batch \o (queue \o <<ItemOf(r)>>)
    BY <1>1, <2>2, ConcatAssociative
  <2>5. Append(Pending, ItemOf(r)) = Pending \o <<ItemOf(r)>>
    BY <2>1, <2>2, AppendIsConcat
  <2>. QED  BY <2>3, <2>4, <2>5 DEF Pending
<1>6. ASSUME Commit \/ CommitFails  PROVE Pending' = queue
  BY <1>1, <1>6, ConcatEmptySeq DEF Commit, CommitFails, BatchDone, Pending
<1>7. UNCHANGED <<batch, queue>> => Pending' = Pending
  BY DEF Pending
<1>8. batch' = <<>> /\ queue' = <<>> => Pending' = <<>>
  BY EmptySeq, ConcatEmptySeq DEF Pending
<1>. QED  BY <1>3, <1>4, <1>5, <1>6, <1>7, <1>8

\* What IdsInv says of the ids, without the parts about the process.
IdsApart == IdsIssued /\ HandsApart /\ PendingApart /\ BroadcastFirst /\ StoredAsBroadcast

\* An id that is pending was issued.
LEMMA PendingIssued ==
  ASSUME IdsIssued, BroadcastFirst
  PROVE  \A k \in DOMAIN Pending : Pending[k].id <= nextId
BY DEF IdsIssued, BroadcastFirst, Elements

\* A step that issues nothing, broadcasts nothing and writes nothing, and puts
\* nothing in anyone's hand, keeps the ids apart.
LEMMA StillApart ==
  ASSUME IdsApart,
         UNCHANGED <<nextId, rows, feed>>,
         \A r \in Requests : InHand(r)' =>
           /\ InHand(r) /\ ItemOf(r)' = ItemOf(r) /\ rid'[r] = rid[r]
           /\ pc'[r] = "publish" <=> pc[r] = "publish",
         \A k \in DOMAIN Pending' : Pending'[k] \in Elements(Pending),
         \A j, k \in DOMAIN Pending' : Pending'[j].id = Pending'[k].id => j = k
  PROVE  IdsApart'
<1> USE DEF IdsApart
<1>1. IdsIssued'
  BY DEF IdsIssued
<1>2. \A k \in DOMAIN Pending' : \E j \in DOMAIN Pending : Pending'[k] = Pending[j]
  BY DEF Elements
<1>3. Ids(Pending)' \subseteq Ids(Pending)
  BY <1>2 DEF Ids
<1>4. HandsApart'
  BY <1>3 DEF HandsApart
<1>5. PendingApart'
  BY <1>2 DEF PendingApart
<1>6. BroadcastFirst'
  <2>1. \A r \in Requests : pc'[r] = "publish" => InHand(r)'
    BY DEF InHand
  <2>2. \A r \in Requests : pc'[r] = "publish" => rid'[r] \notin Ids(feed')
    BY <2>1 DEF BroadcastFirst
  <2>3. \A r \in Requests : InHand(r)' /\ pc'[r] # "publish" => ItemOf(r)' \in Elements(feed')
    BY DEF BroadcastFirst
  <2>4. \A k \in DOMAIN Pending' : Pending'[k] \in Elements(feed')
    BY <1>2 DEF BroadcastFirst
  <2>5. \A j, k \in DOMAIN feed' : feed'[j].id = feed'[k].id => j = k
    BY DEF BroadcastFirst
  <2>. QED  BY <2>2, <2>3, <2>4, <2>5 DEF BroadcastFirst
<1>7. StoredAsBroadcast'
  BY DEF StoredAsBroadcast
<1>. QED  BY <1>1, <1>4, <1>5, <1>6, <1>7

\* A fresh id is nobody's.
LEMMA AllocateApart ==
  ASSUME Inv, IdsApart, NEW r \in Requests, Allocate(r)
  PROVE  IdsApart'
<1> USE DEF IdsApart
<1>1. /\ nextId \in Nat /\ nextId' = nextId + 1
      /\ rid' = [rid EXCEPT ![r] = nextId + 1]
      /\ UNCHANGED <<form, cur, batch, queue, rows, feed>>
      /\ pc[r] = "alloc"
      /\ pc' = [pc EXCEPT ![r] = "publish"] \/ pc' = [pc EXCEPT ![r] = "done"]
  BY DEF Allocate, TakeNextId, Answer, Inv, TypeOK, LogType, writerVars
<1>2. Pending' = Pending
  BY <1>1, PendingSteps
<1>3. /\ \A i \in DOMAIN rows : i \in Nat /\ i <= nextId
      /\ \A k \in DOMAIN feed : feed[k].id \in Nat /\ feed[k].id <= nextId
      /\ \A k \in DOMAIN Pending : Pending[k].id \in Nat /\ Pending[k].id <= nextId
  <2>1. \A k \in DOMAIN feed : feed[k].id \in Nat
    <3>1. \A k \in DOMAIN feed : feed[k] \in Item
      BY LenProperties, ElementOfSeq DEF Inv, TypeOK, LogType
    <3>. QED  BY <3>1 DEF Item
  <2>2. \A k \in DOMAIN Pending : Pending[k] \in Item
    BY PendingParts, LenProperties, ElementOfSeq DEF Inv, TypeOK
  <2>. QED  BY <2>1, <2>2, PendingIssued DEF IdsIssued, Inv, TypeOK, LogType, Item
<1>4. /\ \A q \in Requests : q # r => pc'[q] = pc[q] /\ rid'[q] = rid[q]
      /\ rid'[r] = nextId + 1 /\ pc'[r] \in {"publish", "done"}
      /\ pc \in [Requests -> Stages] /\ rid \in [Requests -> Nat]
  <2>1. pc \in [Requests -> Stages] /\ rid \in [Requests -> Nat]
    BY DEF Inv, TypeOK, HandlersType
  <2>2. rid'[r] = nextId + 1 /\ \A q \in Requests : q # r => rid'[q] = rid[q]
    BY <1>1, <2>1
  <2>3. pc'[r] \in {"publish", "done"} /\ \A q \in Requests : q # r => pc'[q] = pc[q]
    BY <1>1, <2>1
  <2>. QED  BY <2>1, <2>2, <2>3
<1>5. \A q \in Requests : q # r /\ InHand(q)' => InHand(q) /\ ItemOf(q)' = ItemOf(q)
  BY <1>1, <1>4 DEF InHand, ItemOf
<1>6. IdsIssued'
  BY <1>1, <1>3, <1>4, <1>5 DEF IdsIssued
<1>7. HandsApart'
  <2>1. rid'[r] \notin DOMAIN rows \cup Ids(Pending)
    BY <1>1, <1>3, <1>4 DEF Ids
  <2>2. \A q \in Requests : q # r /\ InHand(q)' => rid'[q] # rid'[r]
    BY <1>1, <1>4, <1>5 DEF IdsIssued
  <2>. QED  BY <1>1, <1>2, <1>4, <1>5, <2>1, <2>2 DEF HandsApart
<1>8. PendingApart'
  BY <1>1, <1>2 DEF PendingApart
<1>9. BroadcastFirst'
  <2>1. rid'[r] \notin Ids(feed)
    BY <1>1, <1>3, <1>4 DEF Ids
  <2>2. \A q \in Requests : pc'[q] = "publish" => rid'[q] \notin Ids(feed')
    BY <1>1, <1>4, <2>1 DEF BroadcastFirst
  <2>3. \A q \in Requests : InHand(q)' /\ pc'[q] # "publish" => ItemOf(q)' \in Elements(feed')
    BY <1>1, <1>4, <1>5 DEF BroadcastFirst, InHand
  <2>. QED  BY <1>1, <1>2, <2>2, <2>3 DEF BroadcastFirst
<1>10. StoredAsBroadcast'
  BY <1>1 DEF StoredAsBroadcast
<1>. QED  BY <1>6, <1>7, <1>8, <1>9, <1>10

\* A broadcast is the first under its id, and no row has that id yet.
LEMMA PublishApart ==
  ASSUME Inv, IdsApart, NEW r \in Requests, Publish(r)
  PROVE  IdsApart'
<1> USE DEF IdsApart
<1>1. /\ feed' = Append(feed, ItemOf(r)) /\ pc[r] = "publish"
      /\ UNCHANGED <<form, cur, rid, batch, queue, rows, nextId>>
      /\ pc' = [pc EXCEPT ![r] = "observe"] \/ pc' = [pc EXCEPT ![r] = "check"]
  BY DEF Publish, writerVars
<1>2. Pending' = Pending
  BY <1>1, PendingSteps
<1>3. feed \in Seq(Item) /\ ItemOf(r) \in Item /\ InHand(r)
  BY <1>1, AtRecord DEF Inv, TypeOK, LogType, InHand, TypeInv, IdsInv
<1>4. /\ DOMAIN feed = 1..Len(feed) /\ DOMAIN feed' = 1..Len(feed) + 1 /\ Len(feed) \in Nat
      /\ \A k \in DOMAIN feed : feed'[k] = feed[k]
      /\ feed'[Len(feed) + 1] = ItemOf(r)
  <2>1. /\ feed' \in Seq(Item) /\ Len(feed') = Len(feed) + 1
        /\ \A k \in 1..Len(feed) : feed'[k] = feed[k]
        /\ feed'[Len(feed) + 1] = ItemOf(r)
    BY <1>1, <1>3, AppendProperties
  <2>2. /\ DOMAIN feed = 1..Len(feed) /\ DOMAIN feed' = 1..Len(feed') /\ Len(feed) \in Nat
    BY <1>3, <2>1, LenProperties
  <2>. QED  BY <2>1, <2>2
<1>5. \A k \in DOMAIN feed' : k \in DOMAIN feed \/ k = Len(feed) + 1
  BY <1>4
<1>6. ItemOf(r).id = rid[r] /\ ItemOf(r).rec = <<r, cur[r]>>
  BY DEF ItemOf
<1>7. \A x \in Elements(feed) \cup {ItemOf(r)} : x \in Elements(feed')
  BY <1>4 DEF Elements
<1>8. /\ \A q \in Requests : q # r => pc'[q] = pc[q]
      /\ pc'[r] \in {"observe", "check"}
  BY <1>1 DEF Inv, TypeOK, HandlersType
<1>9. \A q \in Requests : /\ InHand(q)' <=> InHand(q)
                          /\ ItemOf(q)' = ItemOf(q)
  BY <1>1, <1>3, <1>8 DEF InHand, ItemOf
<1>10. IdsIssued'
  BY <1>1, <1>3, <1>4, <1>5, <1>6, <1>9 DEF IdsIssued
<1>11. HandsApart'
  BY <1>1, <1>2, <1>9 DEF HandsApart
<1>12. PendingApart'
  BY <1>1, <1>2 DEF PendingApart
<1>13. BroadcastFirst'
  <2>1. \A k \in DOMAIN feed : feed[k].id # rid[r]
    BY <1>1 DEF BroadcastFirst, Ids
  <2>2. \A j, k \in DOMAIN feed' : feed'[j].id = feed'[k].id => j = k
    BY <1>4, <1>5, <1>6, <2>1 DEF BroadcastFirst
  <2>3. ASSUME NEW q \in Requests, pc'[q] = "publish"  PROVE rid'[q] \notin Ids(feed')
    <3>1. q # r /\ pc[q] = "publish" /\ InHand(q) /\ rid'[q] = rid[q]
      BY <1>1, <1>8, <2>3 DEF InHand
    <3>2. rid[q] # rid[r]
      BY <1>3, <3>1 DEF HandsApart
    <3>3. \A k \in DOMAIN feed : feed[k].id # rid[q]
      BY <3>1 DEF BroadcastFirst, Ids
    <3>4. \A k \in DOMAIN feed' : feed'[k].id # rid[q]
      BY <1>4, <1>5, <1>6, <3>2, <3>3
    <3>. QED  BY <3>1, <3>4 DEF Ids
  <2>4. \A q \in Requests : InHand(q)' /\ pc'[q] # "publish" => ItemOf(q)' \in Elements(feed')
    BY <1>7, <1>8, <1>9 DEF BroadcastFirst
  <2>5. \A k \in DOMAIN Pending' : Pending'[k] \in Elements(feed')
    BY <1>2, <1>7 DEF BroadcastFirst
  <2>. QED  BY <2>2, <2>3, <2>4, <2>5 DEF BroadcastFirst
<1>14. StoredAsBroadcast'
  <2>1. rid[r] \notin DOMAIN rows
    BY <1>3 DEF HandsApart
  <2>. QED  BY <1>1, <1>4, <1>5, <1>6, <2>1 DEF StoredAsBroadcast
<1>. QED  BY <1>10, <1>11, <1>12, <1>13, <1>14

\* An item that is queued leaves its handler's hand.
LEMMA EnqueueApart ==
  ASSUME Inv, IdsApart, NEW r \in Requests, Enqueue(r)
  PROVE  IdsApart'
<1> USE DEF IdsApart
<1>1. /\ pc[r] = "send" /\ UNCHANGED <<rid, form, nextId, rows, feed>>
      /\ pc' = [pc EXCEPT ![r] = pc'[r]] /\ pc'[r] \in {"wait", "alloc", "done"}
      /\ \A q \in Requests : q # r => cur'[q] = cur[q]
  <2>1. pc \in [Requests -> Stages] /\ cur \in [Requests -> Nat \ {0}]
    BY DEF Inv, TypeOK, HandlersType
  <2>2. /\ pc[r] = "send" /\ UNCHANGED <<rid, form, nextId, rows, feed>>
        /\ \/ pc' = [pc EXCEPT ![r] = "wait"] \/ pc' = [pc EXCEPT ![r] = "alloc"]
           \/ pc' = [pc EXCEPT ![r] = "done"]
        /\ cur' = cur \/ cur' = [cur EXCEPT ![r] = cur[r] + 1]
    BY DEF Enqueue, Answer
  <2>. QED  BY <2>1, <2>2
<1>2. InHand(r) /\ ItemOf(r) \in Item /\ Pending \in Seq(Item)
  BY <1>1, AtRecord, PendingParts DEF InHand, Inv, TypeOK, TypeInv, IdsInv
<1>3. /\ Len(Pending) \in Nat
      /\ DOMAIN Pending = 1..Len(Pending) /\ DOMAIN Pending' = 1..Len(Pending) + 1
      /\ \A k \in DOMAIN Pending : Pending'[k] = Pending[k]
      /\ Pending'[Len(Pending) + 1] = ItemOf(r)
  <2>1. Pending' = Append(Pending, ItemOf(r))
    BY PendingSteps
  <2>2. /\ Pending' \in Seq(Item) /\ Len(Pending') = Len(Pending) + 1
        /\ \A k \in 1..Len(Pending) : Pending'[k] = Pending[k]
        /\ Pending'[Len(Pending) + 1] = ItemOf(r)
    BY <1>2, <2>1, AppendProperties
  <2>3. Len(Pending) \in Nat /\ DOMAIN Pending = 1..Len(Pending)
    BY <1>2, LenProperties
  <2>4. DOMAIN Pending' = 1..Len(Pending')
    BY <2>2, LenProperties
  <2>. QED  BY <2>2, <2>3, <2>4
<1>4. /\ \A k \in DOMAIN Pending' : k \in DOMAIN Pending \/ k = Len(Pending) + 1
      /\ ItemOf(r).id = rid[r]
  BY <1>3 DEF ItemOf
<1>5. \A q \in Requests :
        InHand(q)' => q # r /\ InHand(q) /\ pc'[q] = pc[q] /\ ItemOf(q)' = ItemOf(q)
  BY <1>1 DEF InHand, ItemOf, Inv, TypeOK, HandlersType
<1>6. IdsIssued'
  BY <1>1, <1>5 DEF IdsIssued
<1>7. HandsApart'
  <2>1. ASSUME NEW q \in Requests, InHand(q)'  PROVE rid[q] \notin Ids(Pending)'
    <3>1. rid[q] # rid[r]
      BY <1>2, <1>5, <2>1 DEF HandsApart
    <3>2. \A k \in DOMAIN Pending : Pending[k].id # rid[q]
      BY <1>5, <2>1 DEF HandsApart, Ids
    <3>3. \A k \in DOMAIN Pending' : Pending'[k].id # rid[q]
      BY <1>3, <1>4, <3>1, <3>2
    <3>. QED  BY <3>3 DEF Ids
  <2>. QED  BY <1>1, <1>5, <2>1 DEF HandsApart
<1>8. PendingApart'
  <2>1. rid[r] \notin DOMAIN rows /\ \A k \in DOMAIN Pending : Pending[k].id # rid[r]
    BY <1>2 DEF HandsApart, Ids
  <2>. QED  BY <1>1, <1>3, <1>4, <2>1 DEF PendingApart
<1>9. BroadcastFirst'
  <2>1. ItemOf(r) \in Elements(feed)
    BY <1>1, <1>2 DEF BroadcastFirst
  <2>2. \A k \in DOMAIN Pending' : Pending'[k] \in Elements(feed')
    BY <1>1, <1>3, <1>4, <2>1 DEF BroadcastFirst
  <2>3. \A q \in Requests : pc'[q] = "publish" => rid'[q] \notin Ids(feed')
    BY <1>1, <1>5 DEF BroadcastFirst, InHand
  <2>4. \A q \in Requests : InHand(q)' /\ pc'[q] # "publish" => ItemOf(q)' \in Elements(feed')
    BY <1>1, <1>5 DEF BroadcastFirst
  <2>. QED  BY <1>1, <2>2, <2>3, <2>4 DEF BroadcastFirst
<1>10. StoredAsBroadcast'
  BY <1>1 DEF StoredAsBroadcast
<1>. QED  BY <1>6, <1>7, <1>8, <1>9, <1>10

\* A step that leaves the handlers and the buffer as they are.
LEMMA SameApart ==
  ASSUME IdsApart, UNCHANGED <<form, cur, rid, pc, nextId, rows, feed, Pending>>
  PROVE  IdsApart'
<1>1. \A r \in Requests : InHand(r)' =>
        /\ InHand(r) /\ ItemOf(r)' = ItemOf(r) /\ rid'[r] = rid[r]
        /\ pc'[r] = "publish" <=> pc[r] = "publish"
  BY DEF InHand, ItemOf
<1>2. \A k \in DOMAIN Pending' : Pending'[k] \in Elements(Pending)
  BY DEF Elements
<1>3. \A j, k \in DOMAIN Pending' : Pending'[j].id = Pending'[k].id => j = k
  BY DEF IdsApart, PendingApart
<1>. QED  BY <1>1, <1>2, <1>3, StillApart

\* A handler that moves on without an operation on ids.
LEMMA MoveApart ==
  ASSUME IdsApart, NEW r \in Requests, NEW s \in Stages,
         pc \in [Requests -> Stages], pc' = [pc EXCEPT ![r] = s],
         UNCHANGED <<cur, rid, nextId, rows, feed, Pending>>,
         InHand(r)' => InHand(r) /\ pc[r] # "publish" /\ s # "publish"
  PROVE  IdsApart'
<1>1. \A q \in Requests : InHand(q)' =>
        /\ InHand(q) /\ ItemOf(q)' = ItemOf(q) /\ rid'[q] = rid[q]
        /\ pc'[q] = "publish" <=> pc[q] = "publish"
  BY DEF InHand, ItemOf
<1>2. \A k \in DOMAIN Pending' : Pending'[k] \in Elements(Pending)
  BY DEF Elements
<1>3. \A j, k \in DOMAIN Pending' : Pending'[j].id = Pending'[k].id => j = k
  BY DEF IdsApart, PendingApart
<1>. QED  BY <1>1, <1>2, <1>3, StillApart

\* A failed transaction takes its batch out of the buffer.
LEMMA CommitFailsApart ==
  ASSUME Inv, IdsApart, CommitFails
  PROVE  IdsApart'
<1>1. UNCHANGED <<form, cur, rid, pc, nextId, rows, feed>> /\ Pending' = queue
  BY PendingSteps DEF CommitFails, RolledBack, handlerSide, reqVars
<1>2. \A k \in DOMAIN queue : queue[k] \in Elements(Pending)
  BY PendingParts DEF Inv, TypeOK, Elements
<1>3. \A j, k \in DOMAIN queue : queue[j].id = queue[k].id => j = k
  BY PartsApart DEF Inv, TypeOK, IdsApart
<1>4. \A r \in Requests : InHand(r)' =>
        /\ InHand(r) /\ ItemOf(r)' = ItemOf(r) /\ rid'[r] = rid[r]
        /\ pc'[r] = "publish" <=> pc[r] = "publish"
  BY <1>1 DEF InHand, ItemOf
<1>. QED  BY <1>1, <1>2, <1>3, <1>4, StillApart

\* The ids of a committed batch were in nobody's hand, and are no longer pending.
LEMMA CommitApart ==
  ASSUME Inv, IdsApart, Commit
  PROVE  IdsApart'
<1> USE DEF IdsApart
<1>1. /\ UNCHANGED <<form, cur, rid, pc, nextId, feed>>
      /\ Pending' = queue /\ rows' = Upsert(rows, batch)
  BY PendingSteps DEF Commit, handlerSide, reqVars
<1>2. /\ DOMAIN rows' = DOMAIN rows \cup Ids(batch)
      /\ \A k \in DOMAIN batch : rows'[batch[k].id] = batch[k].rec
      /\ \A i \in DOMAIN rows : i \notin Ids(batch) => rows'[i] = rows[i]
  BY <1>1, BatchUpsert DEF Inv, TypeOK
<1>3. /\ \A k \in DOMAIN batch : batch[k] \in Elements(Pending) /\ batch[k].id \in Ids(Pending)
      /\ \A k \in DOMAIN queue : queue[k] \in Elements(Pending) /\ queue[k].id \in Ids(Pending)
  <2>1. \A k \in DOMAIN batch : \E j \in DOMAIN Pending : batch[k] = Pending[j]
    BY PendingParts DEF Inv, TypeOK
  <2>2. \A k \in DOMAIN queue : \E j \in DOMAIN Pending : queue[k] = Pending[j]
    BY PendingParts DEF Inv, TypeOK
  <2>. QED  BY <2>1, <2>2 DEF Elements, Ids
<1>4. \A k \in DOMAIN batch : \E j \in DOMAIN feed : batch[k] = feed[j]
  <2>1. \A x \in Elements(Pending) : \E j \in DOMAIN feed : x = feed[j]
    BY DEF BroadcastFirst, Elements
  <2>. QED  BY <1>3, <2>1
<1>5. \A i \in Ids(batch) : \E k \in DOMAIN batch : batch[k].id = i
  BY DEF Ids
<1>6. \A r \in Requests : (InHand(r)' <=> InHand(r)) /\ ItemOf(r)' = ItemOf(r)
  BY <1>1 DEF InHand, ItemOf
<1>7. IdsIssued'
  <2>1. \A i \in Ids(batch) : i <= nextId
    BY <1>4, <1>5 DEF IdsIssued
  <2>. QED  BY <1>1, <1>2, <1>6, <2>1 DEF IdsIssued
<1>8. HandsApart'
  <2>1. Ids(batch) \subseteq Ids(Pending) /\ Ids(queue) \subseteq Ids(Pending)
    BY <1>3 DEF Ids
  <2>. QED  BY <1>1, <1>2, <1>6, <2>1 DEF HandsApart
<1>9. PendingApart'
  <2>1. /\ \A j, k \in DOMAIN queue : queue[j].id = queue[k].id => j = k
        /\ \A k \in DOMAIN queue : queue[k].id \notin Ids(batch)
    BY <1>5, PartsApart DEF Inv, TypeOK
  <2>2. \A k \in DOMAIN queue : queue[k].id \notin DOMAIN rows
    <3>1. \A k \in DOMAIN queue : \E j \in DOMAIN Pending : queue[k] = Pending[j]
      BY <1>3 DEF Elements
    <3>. QED  BY <3>1 DEF PendingApart
  <2>. QED  BY <1>1, <1>2, <2>1, <2>2 DEF PendingApart
<1>10. BroadcastFirst'
  <2>1. \A x \in Elements(Pending) : x \in Elements(feed)
    BY DEF BroadcastFirst, Elements
  <2>. QED  BY <1>1, <1>3, <1>6, <2>1 DEF BroadcastFirst
<1>11. StoredAsBroadcast'
  <2>1. ASSUME NEW k \in DOMAIN feed, feed[k].id \in DOMAIN rows'
        PROVE  rows'[feed[k].id] = feed[k].rec
    <3>1. CASE feed[k].id \in Ids(batch)
      <4>1. PICK j \in DOMAIN batch : batch[j].id = feed[k].id
        BY <1>5, <3>1
      <4>2. batch[j] = feed[k]
        BY <1>4, <4>1 DEF BroadcastFirst
      <4>. QED  BY <1>2, <4>1, <4>2
    <3>2. CASE feed[k].id \notin Ids(batch)
      BY <1>2, <2>1, <3>2 DEF StoredAsBroadcast
    <3>. QED  BY <3>1, <3>2
  <2>. QED  BY <1>1, <2>1 DEF StoredAsBroadcast
<1>. QED  BY <1>7, <1>8, <1>9, <1>10, <1>11

\* Retention only takes rows away.
LEMMA KeepHouseRows ==
  ASSUME KeepHouse
  PROVE  DOMAIN rows' \subseteq DOMAIN rows /\ \A i \in DOMAIN rows' : rows'[i] = rows[i]
<1>1. rows' = rows \/ \E ids \in SUBSET DOMAIN rows : rows' = Only(rows, ids)
  BY DEF KeepHouse, Prune, WithinCap
<1>. QED  BY <1>1 DEF Only

\* Pruning keeps the ids apart: fewer rows, and nothing else changed.
LEMMA KeepHouseApart ==
  ASSUME Inv, IdsApart, KeepHouse
  PROVE  IdsApart'
<1> USE DEF IdsApart
<1>1. UNCHANGED <<form, cur, rid, pc, nextId, feed>> /\ Pending' = Pending
  BY PendingSteps DEF KeepHouse, handlerSide, reqVars
<1>2. \A r \in Requests : (InHand(r)' <=> InHand(r)) /\ ItemOf(r)' = ItemOf(r)
  BY <1>1 DEF InHand, ItemOf
<1>3. IdsIssued' /\ HandsApart' /\ PendingApart'
  BY <1>1, <1>2, KeepHouseRows DEF IdsIssued, HandsApart, PendingApart
<1>4. BroadcastFirst'
  BY <1>1, <1>2 DEF BroadcastFirst
<1>5. StoredAsBroadcast'
  BY <1>1, KeepHouseRows DEF StoredAsBroadcast
<1>. QED  BY <1>3, <1>4, <1>5

\* While the process is down there is no id but those of the rows.
LEMMA NothingLeftApart ==
  ASSUME \A i \in DOMAIN rows' : i <= nextId',
         feed' = <<>>, Pending' = <<>>, \A r \in Requests : ~InHand(r)'
  PROVE  IdsApart'
<1>1. DOMAIN feed' = {} /\ DOMAIN Pending' = {}
  BY EmptySeq
<1>2. \A r \in Requests : pc'[r] # "publish"
  BY DEF InHand
<1>3. IdsIssued' /\ HandsApart' /\ PendingApart' /\ StoredAsBroadcast'
  BY <1>1 DEF IdsIssued, HandsApart, PendingApart, StoredAsBroadcast
<1>4. BroadcastFirst'
  BY <1>1, <1>2 DEF BroadcastFirst
<1>. QED  BY <1>3, <1>4 DEF IdsApart

\* A start reissues no id that has a row: the counter resumes above all of them.
LEMMA BootApart ==
  ASSUME Inv, IdsApart, Boot
  PROVE  IdsApart'
<1>1. /\ batch = <<>> /\ queue = <<>> /\ feed = <<>>
      /\ \A r \in Requests : pc[r] \in {"idle", "past"}
  BY DEF Boot, Inv, IdsInv, OffWhenDown, BatchWhere
<1>2. Pending' = <<>> /\ feed' = <<>>
  BY <1>1, PendingSteps DEF Boot
<1>3. \A r \in Requests : ~InHand(r)'
  BY <1>1 DEF Boot, reqVars, InHand
<1>4. \A i \in DOMAIN rows' : i <= nextId'
  BY DEF Boot, SeedIds
<1>. QED  BY <1>2, <1>3, <1>4, NothingLeftApart

\* The end of the process, orderly or not, leaves nothing but rows.
LEMMA PowerOffApart ==
  ASSUME Inv, IdsApart, PowerOff
  PROVE  IdsApart'
<1>1. Pending' = <<>> /\ feed' = <<>>
  BY PendingSteps DEF PowerOff
<1>2. \A r \in Requests : ~InHand(r)'
  BY DEF PowerOff, InHand
<1>3. \A i \in DOMAIN rows' : i <= nextId'
  BY DEF PowerOff, IdsApart, IdsIssued
<1>. QED  BY <1>1, <1>2, <1>3, NothingLeftApart

----------------------------------------------------------------------------
(* The invariant.                                                          *)

\* The invariant holds of an empty table and a process not yet started.
LEMMA InvInit == Init => Inv
<1> SUFFICES ASSUME Init PROVE Inv
  OBVIOUS
<1>1. TypeOK /\ InBody
  BY TypeInit DEF TypeInv
<1>2. batch = <<>> /\ queue = <<>> /\ feed = <<>> /\ wpc = "off" /\ DOMAIN rows = {}
  BY DEF Init
<1>3. \A r \in Requests : pc[r] = "idle"
  BY DEF Init
<1>4. BatchWhere /\ OffWhenDown
  BY <1>2, <1>3 DEF BatchWhere, OffWhenDown
<1>5. Pending = <<>> /\ DOMAIN Pending = {} /\ DOMAIN feed = {}
  BY <1>2, EmptySeq, ConcatEmptySeq DEF Pending
<1>6. \A r \in Requests : ~InHand(r) /\ pc[r] # "publish"
  BY <1>3 DEF InHand
<1>7. IdsIssued /\ HandsApart /\ PendingApart /\ StoredAsBroadcast
  BY <1>2, <1>5, <1>6 DEF IdsIssued, HandsApart, PendingApart, StoredAsBroadcast
<1>8. BroadcastFirst
  BY <1>5, <1>6 DEF BroadcastFirst
<1>. QED  BY <1>1, <1>4, <1>7, <1>8 DEF Inv, IdsInv

\* Every step of the system keeps the types.
LEMMA TypeNext ==
  ASSUME Inv, [Next]_vars
  PROVE  TypeInv'
<1>1. TypeInv /\ BatchWhere /\ PendingApart
  BY DEF Inv, IdsInv, TypeInv
<1>2. ASSUME UNCHANGED vars  PROVE TypeInv'
  BY <1>1, <1>2, TypeFrames DEF vars, TypeInv, TypeOK
<1>. QED  BY <1>1, <1>2, HandlersTypeNext, WriterTypeNext, ProcessTypeNext DEF Next, Over

\* The process is down only when nothing runs, and the batch is empty outside
\* of filling and committing.
LEMMA WhereNext ==
  ASSUME Inv, [Next]_vars
  PROVE  BatchWhere' /\ OffWhenDown'
<1> USE DEF BatchWhere, OffWhenDown
<1>0. /\ BatchWhere /\ OffWhenDown
      /\ pc \in [Requests -> Stages]
  BY DEF Inv, IdsInv, TypeOK, HandlersType
<1>1. ASSUME NEW r \in Requests, Receive(r) \/ RejectEarly(r)  PROVE BatchWhere' /\ OffWhenDown'
  BY <1>0, <1>1 DEF Receive, RejectEarly, Arrive, writerVars, lifeVars
<1>2. ASSUME NEW r \in Requests, Handle(r) \/ Abandon(r)  PROVE BatchWhere' /\ OffWhenDown'
  <2>1. proc # "down" /\ proc' = proc /\ UNCHANGED writerVars
    BY <1>0, <1>2 DEF Handle, Allocate, Publish, Observe, CheckDraining, Enqueue, Shed, Await,
                      Abandon, lifeVars
  <2>. QED  BY <1>0, <2>1 DEF writerVars
<1>3. ASSUME Writer  PROVE BatchWhere' /\ OffWhenDown'
  <2>1. proc # "down" /\ proc' = proc
    BY <1>0, <1>3 DEF Writer, Recv, Expire, AfterExpire, Fill, FillDone, Commit, CommitFails,
                      Notify, NotifyDone, KeepHouse, handlerSide, lifeVars
  <2>2. BatchWhere'
    BY <1>0, <1>3 DEF Writer, Recv, Expire, AfterExpire, Fill, FillDone, Commit, CommitFails,
                      Notify, NotifyDone, KeepHouse, BatchDone
  <2>. QED  BY <2>1, <2>2
<1>4. ASSUME Boot \/ Signal \/ ServerDone  PROVE BatchWhere' /\ OffWhenDown'
  BY <1>0, <1>4 DEF Boot, Signal, ServerDone, writerVars
<1>5. ASSUME PowerOff  PROVE BatchWhere' /\ OffWhenDown'
  BY <1>5 DEF PowerOff
<1>6. ASSUME UNCHANGED vars  PROVE BatchWhere' /\ OffWhenDown'
  BY <1>0, <1>6 DEF vars, reqVars, writerVars, lifeVars
<1>. QED  BY <1>1, <1>2, <1>3, <1>4, <1>5, <1>6 DEF Next, Exit, Crash, Over

\* Every step of the system keeps the ids apart.
LEMMA ApartNext ==
  ASSUME Inv, [Next]_vars
  PROVE  IdsApart'
<1>1. IdsApart
  BY DEF Inv, IdsInv, IdsApart
<1>2. pc \in [Requests -> Stages]
  BY DEF Inv, TypeOK, HandlersType
<1>3. ASSUME NEW r \in Requests, Receive(r) \/ RejectEarly(r)  PROVE IdsApart'
  <2>1. UNCHANGED <<cur, rid, nextId, rows, feed, batch, queue>>
    BY <1>3 DEF Receive, RejectEarly, Arrive, writerVars
  <2>2. pc' = [pc EXCEPT ![r] = "alloc"] \/ pc' = [pc EXCEPT ![r] = "done"]
    BY <1>3 DEF Receive, RejectEarly, Answer
  <2>3. ~InHand(r)'
    BY <1>2, <2>2 DEF InHand
  <2>4. "alloc" \in Stages /\ "done" \in Stages
    BY DEF Stages
  <2>. QED  BY <1>1, <1>2, <2>1, <2>2, <2>3, <2>4, MoveApart, PendingSteps
<1>4. ASSUME NEW r \in Requests, Observe(r) \/ CheckDraining(r) \/ Shed(r) \/ Await(r) \/ Abandon(r)
      PROVE  IdsApart'
  <2>1. UNCHANGED <<cur, rid, nextId, rows, feed, batch, queue>>
    BY <1>4 DEF Observe, CheckDraining, Shed, Await, Abandon, writerVars
  <2>2. \/ pc' = [pc EXCEPT ![r] = "done"]
        \/ pc[r] = "observe" /\ pc' = [pc EXCEPT ![r] = "check"]
        \/ pc[r] = "check" /\ pc' = [pc EXCEPT ![r] = "send"]
    BY <1>4 DEF Observe, CheckDraining, Shed, Await, Abandon, Answer
  <2>3. PICK s \in {"done", "check", "send"} :
          /\ pc' = [pc EXCEPT ![r] = s]
          /\ s # "done" => pc[r] \in {"observe", "check"}
    BY <2>2
  <2>4. s \in Stages /\ s # "publish"
    BY DEF Stages
  <2>5. InHand(r)' => InHand(r) /\ pc[r] # "publish"
    BY <1>2, <2>3 DEF InHand
  <2>. QED  BY <1>1, <1>2, <2>1, <2>3, <2>4, <2>5, MoveApart, PendingSteps
<1>5. ASSUME Recv \/ Expire \/ AfterExpire \/ Fill \/ FillDone \/ Notify \/ NotifyDone
      PROVE  IdsApart'
  <2>1. UNCHANGED <<form, cur, rid, pc, nextId, rows, feed>>
    BY <1>5 DEF Recv, Expire, AfterExpire, Fill, FillDone, Notify, NotifyDone,
                handlerSide, reqVars
  <2>2. Recv \/ Fill \/ UNCHANGED <<batch, queue>>
    BY <1>5 DEF Expire, AfterExpire, FillDone, Notify, NotifyDone
  <2>3. Pending' = Pending
    BY <2>2, PendingSteps
  <2>. QED  BY <1>1, <2>1, <2>3, SameApart
<1>6. ASSUME Signal \/ ServerDone \/ UNCHANGED vars  PROVE IdsApart'
  <2>1. UNCHANGED <<form, cur, rid, pc, nextId, rows, feed, batch, queue>>
    BY <1>6 DEF Signal, ServerDone, vars, reqVars, writerVars
  <2>. QED  BY <1>1, <2>1, SameApart, PendingSteps
<1>7. ASSUME NEW r \in Requests, Handle(r)  PROVE IdsApart'
  BY <1>1, <1>4, <1>7, AllocateApart, PublishApart, EnqueueApart DEF Handle
<1>8. ASSUME Writer  PROVE IdsApart'
  BY <1>1, <1>5, <1>8, CommitApart, CommitFailsApart, KeepHouseApart DEF Writer
<1>9. ASSUME Boot \/ Exit \/ Crash  PROVE IdsApart'
  BY <1>1, <1>9, BootApart, PowerOffApart DEF Exit, Crash
<1>. QED  BY <1>3, <1>4, <1>6, <1>7, <1>8, <1>9 DEF Next, Over

\* The invariant is inductive.
LEMMA InvNext == Inv /\ [Next]_vars => Inv'
BY TypeNext, WhereNext, ApartNext DEF Inv, IdsInv, TypeInv, IdsApart

\* Types and separation of ids hold together in every reachable state: neither is
\* inductive alone, since an id is apart only of what is typed as an item.
THEOREM Invariance == Spec => []Inv
BY InvInit, InvNext, PTL DEF Spec

\* In every behaviour every variable has its type: the queue never holds more
\* than its capacity and the batch never more than MAX_BATCH.
THEOREM TypeCorrect == Spec => []TypeOK
<1>1. Inv => TypeOK
  BY DEF Inv
<1>. QED  BY <1>1, Invariance, PTL

\* The invariant the following two theorems are read off.
THEOREM IdsStayApart == Spec => []IdsInv
<1>1. Inv => IdsInv
  BY DEF Inv
<1>. QED  BY <1>1, Invariance, PTL

\* A frame on the live feed and the row stored under its id are one record.
THEOREM StoredAsBroadcastAlways == Spec => []StoredAsBroadcast
<1>1. Inv => StoredAsBroadcast
  BY DEF Inv, IdsInv
<1>. QED  BY <1>1, Invariance, PTL

\* INSERT OR REPLACE never replaces a row.
THEOREM RowsAreFinal == Spec => NeverOverwrites
<1> DEFINE Kept == \A i \in DOMAIN rows \cap DOMAIN rows' : rows'[i] = rows[i]
<1>1. ASSUME Inv, [Next]_vars  PROVE Kept
  <2>1. CASE Commit
    <3>1. /\ rows' = Upsert(rows, batch)
          /\ \A i \in DOMAIN rows : i \notin Ids(batch) => Upsert(rows, batch)[i] = rows[i]
      BY <1>1, <2>1, BatchUpsert DEF Commit, Inv, IdsInv, TypeOK
    <3>2. \A k \in DOMAIN batch : \E j \in DOMAIN Pending : batch[k] = Pending[j]
      BY <1>1, PendingParts DEF Inv, TypeOK
    <3>3. \A i \in Ids(batch) : i \notin DOMAIN rows
      BY <1>1, <3>2 DEF Ids, Inv, IdsInv, PendingApart
    <3>. QED  BY <3>1, <3>3
  <2>2. CASE KeepHouse
    BY <2>2, KeepHouseRows
  <2>3. CASE ~Commit /\ ~KeepHouse
    <3>1. rows' = rows
      BY <1>1, <2>3 DEF Next, Receive, RejectEarly, Arrive, Handle, Allocate, Publish, Observe,
         CheckDraining, Enqueue, Shed, Await, Abandon, Writer, Recv, Expire, AfterExpire, Fill,
         FillDone, CommitFails, RolledBack, Notify, NotifyDone, Boot, Signal, ServerDone, Exit,
         Crash, PowerOff, Over, vars
    <3>. QED  BY <3>1
  <2>. QED  BY <2>1, <2>2, <2>3
<1>2. Inv /\ [Next]_vars => [Kept]_vars
  BY <1>1
<1>. QED  BY <1>2, Invariance, PTL DEF Spec, NeverOverwrites
=============================================================================

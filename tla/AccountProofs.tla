---------------------------- MODULE AccountProofs ----------------------------
(***************************************************************************)
(* Proofs about what Ingest tells its clients and its operators: where     *)
(* every queued record is, what each answer claims, what the counters      *)
(* count, and what a shutdown loses.  They rest on the invariant of        *)
(* IngestProofs.                                                           *)
(***************************************************************************)
EXTENDS IngestProofs, FiniteSetTheorems

\* Where the writer thread is says what it holds; and once it drains, which is
\* after the last handler has returned, nothing is queued behind its back.
WriterPlace ==
  /\ wpc \in {"recv", "expired", "keep"} => ~final
  /\ wpc = "fill" /\ ~final => batch # <<>>
  /\ wpc = "commit" => batch # <<>>
  /\ wpc = "stopped" => final /\ batch = <<>> /\ queue = <<>>
  /\ wpc # "ack" => acks = <<>>
  /\ proc # "down" /\ final => draining
  /\ draining => AllReturned

\* A handler that is about to do something is not at rest.
LEMMA HandlersRun ==
  ASSUME Inv, WriterPlace, NEW r \in Requests, Handle(r) \/ Abandon(r)
  PROVE  ~Resting(r) /\ ~draining /\ proc # "down" /\ ~final /\ wpc # "stopped"
<1>1. ~Resting(r)
  BY DEF Handle, Abandon, Allocate, Publish, Observe, CheckDraining, Enqueue, Shed, Await, Resting
<1>2. proc # "down"
  BY <1>1 DEF Inv, IdsInv, OffWhenDown, Resting
<1>3. ~draining
  BY <1>1 DEF WriterPlace, AllReturned
<1>. QED  BY <1>1, <1>2, <1>3 DEF WriterPlace

\* Every step keeps the writer's place and what it holds in agreement.
LEMMA WriterPlaceNext ==
  ASSUME Inv, WriterPlace, [Next]_vars
  PROVE  WriterPlace'
<1> USE DEF WriterPlace
<1>1. ASSUME NEW r \in Requests, Receive(r) \/ RejectEarly(r)  PROVE WriterPlace'
  <2>1. proc \in {"up", "closing"} /\ UNCHANGED <<writerVars, queue, proc>>
    BY <1>1 DEF Receive, RejectEarly, Arrive, lifeVars
  <2>. QED  BY <2>1 DEF writerVars, draining
<1>2. ASSUME NEW r \in Requests, Handle(r) \/ Abandon(r)  PROVE WriterPlace'
  <2>1. ~draining /\ ~final /\ wpc # "stopped"
    BY <1>2, HandlersRun
  <2>2. UNCHANGED <<writerVars, proc>>
    BY <1>2 DEF Handle, Abandon, Allocate, Publish, Observe, CheckDraining, Enqueue, Shed, Await,
                lifeVars
  <2>. QED  BY <2>1, <2>2 DEF writerVars, draining
<1>3. ASSUME Writer  PROVE WriterPlace'
  <2>1. UNCHANGED <<proc, pc>> /\ AllReturned' = AllReturned
    BY <1>3 DEF Writer, Recv, Expire, AfterExpire, Fill, FillDone, Commit, CommitFails, Notify,
                NotifyDone, KeepHouse, handlerSide, lifeVars, reqVars, AllReturned, Resting
  <2>2. batch \in Seq(Item) /\ queue \in Seq(Item)
    BY DEF Inv, TypeOK, WriterType
  <2>3. CASE Recv
    BY <2>1, <2>3 DEF Recv, draining
  <2>4. CASE Expire
    BY <2>1, <2>4 DEF Expire, draining
  <2>9. CASE AfterExpire
    <3>1. final' = (proc = "flushing") /\ wpc' = IF proc = "flushing" THEN "fill" ELSE "keep"
      BY <2>9 DEF AfterExpire, LeaveLoop, draining
    <3>. QED  BY <2>1, <2>9, <3>1 DEF AfterExpire, draining
  <2>5. CASE Fill
    <3>1. Head(queue) \in Item
      BY <2>2, <2>5, HeadTailProperties DEF Fill
    <3>2. batch' # <<>>
      BY <2>2, <2>5, <3>1, AppendProperties DEF Fill
    <3>. QED  BY <2>1, <2>5, <3>2 DEF Fill, draining
  <2>6. CASE FillDone
    <3>1. batch = <<>> => Len(batch) # MaxBatch
      BY EmptySeq, BoundsAssumption
    <3>. QED  BY <2>1, <2>6, <3>1 DEF FillDone, draining
  <2>7. CASE Commit \/ CommitFails
    BY <2>1, <2>7 DEF Commit, CommitFails, BatchDone, draining
  <2>8. CASE Notify \/ NotifyDone \/ KeepHouse
    BY <2>1, <2>8 DEF Notify, NotifyDone, KeepHouse, draining
  <2>. QED  BY <1>3, <2>3, <2>4, <2>5, <2>6, <2>7, <2>8, <2>9 DEF Writer
<1>4. ASSUME Boot  PROVE WriterPlace'
  BY <1>4 DEF Boot, draining, Inv, IdsInv, OffWhenDown, BatchWhere
<1>5. ASSUME Signal \/ ServerDone  PROVE WriterPlace'
  BY <1>5 DEF Signal, ServerDone, writerVars, reqVars, AllReturned, Resting, draining
<1>6. ASSUME Exit \/ Crash  PROVE WriterPlace'
  BY <1>6 DEF Exit, Crash, PowerOff, draining
<1>7. ASSUME UNCHANGED vars  PROVE WriterPlace'
  BY <1>7 DEF vars, reqVars, writerVars, lifeVars, AllReturned, Resting, draining
<1>. QED  BY <1>1, <1>2, <1>3, <1>4, <1>5, <1>6, <1>7 DEF Next, Over

----------------------------------------------------------------------------
(* Where each record is.                                                   *)

\* What a sequence of items carries, item by item and in two parts.
LEMMA RecsOfAppend ==
  ASSUME NEW s \in Seq(Item), NEW x \in Item
  PROVE  Recs(Append(s, x)) = Recs(s) \cup {x.rec}
<1>1. /\ Len(s) \in Nat /\ DOMAIN s = 1..Len(s)
      /\ DOMAIN Append(s, x) = 1..Len(s) + 1
      /\ \A k \in 1..Len(s) : Append(s, x)[k] = s[k]
      /\ Append(s, x)[Len(s) + 1] = x
  <2>1. Append(s, x) \in Seq(Item) /\ Len(Append(s, x)) = Len(s) + 1
    BY AppendProperties
  <2>. QED  BY <2>1, AppendProperties, LenProperties
<1>2. 1..Len(s) + 1 = 1..Len(s) \cup {Len(s) + 1}
  BY <1>1
<1>. QED  BY <1>1, <1>2 DEF Recs

LEMMA RecsOfPending ==
  ASSUME WriterType
  PROVE  Recs(Pending) = Recs(batch) \cup Recs(queue)
<1> DEFINE B == Len(batch)
           Q == Len(queue)
<1>1. /\ B \in Nat /\ Q \in Nat
      /\ DOMAIN batch = 1..B /\ DOMAIN queue = 1..Q /\ DOMAIN Pending = 1..B + Q
      /\ \A k \in 1..B : Pending[k] = batch[k]
      /\ \A k \in 1..Q : Pending[B + k] = queue[k]
  BY PendingParts
<1> HIDE DEF B, Q
<1>2. ASSUME NEW k \in 1..B + Q
      PROVE  k \in 1..B \/ \E j \in 1..Q : k = B + j
  <2>1. CASE k <= B
    BY <1>1, <2>1
  <2>2. CASE k > B
    <3>1. k - B \in 1..Q /\ k = B + (k - B)
      BY <1>1, <2>2
    <3>. QED  BY <3>1
  <2>. QED  BY <1>1, <2>1, <2>2
<1>3. \A j \in 1..Q : B + j \in 1..B + Q
  BY <1>1
<1>4. 1..B \subseteq 1..B + Q
  BY <1>1
<1>5. Recs(Pending) \subseteq Recs(batch) \cup Recs(queue)
  BY <1>1, <1>2 DEF Recs
<1>6. Recs(batch) \subseteq Recs(Pending)
  BY <1>1, <1>4 DEF Recs
<1>7. Recs(queue) \subseteq Recs(Pending)
  <2>1. ASSUME NEW k \in DOMAIN queue  PROVE \E j \in DOMAIN Pending : queue[k].rec = Pending[j].rec
    <3>1. B + k \in DOMAIN Pending /\ Pending[B + k] = queue[k]
      BY <1>1, <1>3
    <3>. QED  BY <3>1
  <2>. QED  BY <2>1 DEF Recs
<1>. QED  BY <1>5, <1>6, <1>7

\* Nothing is queued twice.
PendingOnce == \A j, k \in DOMAIN Pending : Pending[j].rec = Pending[k].rec => j = k

\* What is in the batch is not in the channel as well.
LEMMA PartsDiffer ==
  ASSUME WriterType, PendingOnce
  PROVE  /\ \A j, k \in DOMAIN queue : queue[j].rec = queue[k].rec => j = k
         /\ Recs(batch) \cap Recs(queue) = {}
<1> DEFINE B == Len(batch)
           Q == Len(queue)
<1>1. \A j, k \in 1..B + Q : Pending[j].rec = Pending[k].rec => j = k
  BY PendingParts DEF PendingOnce
<1>2. /\ B \in Nat /\ Q \in Nat
      /\ DOMAIN batch = 1..B /\ DOMAIN queue = 1..Q
      /\ \A k \in 1..B : Pending[k] = batch[k] /\ k \in 1..B + Q
      /\ \A k \in 1..Q : Pending[B + k] = queue[k] /\ B + k \in 1..B + Q
  BY PendingParts
<1> HIDE DEF B, Q
<1>3. ASSUME NEW j \in DOMAIN queue, NEW k \in DOMAIN queue, queue[j].rec = queue[k].rec
      PROVE  j = k
  <2>1. /\ Pending[B + j] = queue[j] /\ Pending[B + k] = queue[k]
        /\ B + j \in 1..B + Q /\ B + k \in 1..B + Q
    BY <1>2
  <2>2. B + j = B + k
    BY <1>1, <1>3, <2>1
  <2>. QED  BY <1>2, <2>2
<1>4. ASSUME NEW j \in DOMAIN batch, NEW k \in DOMAIN queue, batch[j].rec = queue[k].rec
      PROVE  FALSE
  <2>1. /\ Pending[j] = batch[j] /\ Pending[B + k] = queue[k]
        /\ j \in 1..B + Q /\ B + k \in 1..B + Q
    BY <1>2
  <2>2. j = B + k
    BY <1>1, <1>4, <2>1
  <2>. QED  BY <1>2, <2>2
<1>. QED  BY <1>3, <1>4 DEF Recs

\* A record the queue accepts now was not accepted before.
NewToTheQueue == \A r \in Requests : pc[r] = "send" => <<r, cur[r]>> \notin took

\* Every step leaves each accepted record in exactly one place.
LEMMA AccountedNext ==
  ASSUME Inv, NewToTheQueue, Accounted, [Next]_vars
  PROVE  Accounted'
<1> USE DEF Accounted
<1>0. WriterType /\ PendingOnce
  BY DEF Inv, TypeOK, PendingOnce
<1>1. ASSUME Pending' = Pending, UNCHANGED <<took, endVars>>  PROVE Accounted'
  BY <1>1 DEF endVars, Recs
<1>2. ASSUME NEW r \in Requests, Enqueue(r)  PROVE Accounted'
  <2>1. Pending' = Append(Pending, ItemOf(r)) /\ Pending \in Seq(Item)
    BY <1>0, <1>2, PendingSteps, PendingParts
  <2>2. ItemOf(r) \in Item /\ ItemOf(r).rec = <<r, cur[r]>>
    BY <1>2, AtRecord DEF Enqueue, InHand, Inv, IdsInv, TypeInv, ItemOf
  <2>3. Recs(Pending)' = Recs(Pending) \cup {<<r, cur[r]>>}
    <3>1. Recs(Pending)' = Recs(Append(Pending, ItemOf(r)))
      BY <2>1 DEF Recs
    <3>. QED  BY <2>1, <2>2, <3>1, RecsOfAppend
  <2>4. <<r, cur[r]>> \notin took
    BY <1>2 DEF Enqueue, NewToTheQueue
  <2>5. took' = took \cup {<<r, cur[r]>>} /\ UNCHANGED <<stored, failed, lost>>
    BY <1>2 DEF Enqueue, endVars
  <2>6. \A j, k \in DOMAIN Pending' : Pending'[j].rec = Pending'[k].rec => j = k
    <3>1. /\ Len(Pending) \in Nat /\ DOMAIN Pending = 1..Len(Pending)
          /\ DOMAIN Pending' = 1..Len(Pending) + 1
          /\ \A k \in 1..Len(Pending) : Pending'[k] = Pending[k]
          /\ Pending'[Len(Pending) + 1].rec = <<r, cur[r]>>
      BY <2>1, <2>2, AppendProperties, LenProperties
    <3>2. \A k \in 1..Len(Pending) : Pending[k].rec # <<r, cur[r]>>
      BY <2>4, <3>1 DEF Recs
    <3>. QED  BY <3>1, <3>2
  <2>. QED  BY <2>3, <2>4, <2>5, <2>6
<1>3. ASSUME NEW r \in Requests,
             Receive(r) \/ RejectEarly(r) \/ Allocate(r) \/ Publish(r) \/ Observe(r)
               \/ CheckDraining(r) \/ Shed(r) \/ Await(r) \/ Abandon(r)
      PROVE  Accounted'
  <2>1. UNCHANGED <<batch, queue, took, endVars>>
    BY <1>3 DEF Receive, RejectEarly, Arrive, Allocate, Publish, Observe, CheckDraining, Shed,
                Await, Abandon, writerVars
  <2>. QED  BY <1>1, <2>1, PendingSteps
<1>4. ASSUME Recv \/ Expire \/ AfterExpire \/ Fill \/ FillDone \/ Notify \/ NotifyDone \/ KeepHouse
      PROVE  Accounted'
  <2>1. UNCHANGED <<took, endVars>>
    BY <1>4 DEF Recv, Expire, AfterExpire, Fill, FillDone, Notify, NotifyDone, KeepHouse,
                handlerSide, endVars
  <2>2. Recv \/ Fill \/ UNCHANGED <<batch, queue>>
    BY <1>4 DEF Expire, AfterExpire, FillDone, Notify, NotifyDone, KeepHouse
  <2>. QED  BY <1>1, <2>1, <2>2, PendingSteps
<1>5. ASSUME Commit \/ CommitFails  PROVE Accounted'
  <2>1. Pending' = queue
    BY <1>5, PendingSteps
  <2>2. /\ Recs(Pending) = Recs(batch) \cup Recs(queue) /\ Recs(batch) \cap Recs(queue) = {}
        /\ \A j, k \in DOMAIN queue : queue[j].rec = queue[k].rec => j = k
    BY <1>0, RecsOfPending, PartsDiffer
  <2>3. /\ UNCHANGED <<took, lost>>
        /\ \/ stored' = stored \cup Recs(batch) /\ failed' = failed
           \/ failed' = failed \cup Recs(batch) /\ stored' = stored
    BY <1>5 DEF Commit, CommitFails, handlerSide
  <2>4. Recs(Pending)' = Recs(queue)
    BY <2>1 DEF Recs
  <2>. QED  BY <2>1, <2>2, <2>3, <2>4
<1>6. ASSUME PowerOff  PROVE Accounted'
  <2>1. Pending' = <<>> /\ DOMAIN <<>> = {}
    BY <1>6, PendingSteps, EmptySeq DEF PowerOff
  <2>2. Recs(Pending)' = {}
    BY <2>1 DEF Recs
  <2>3. lost' = lost \cup Recs(Pending) /\ UNCHANGED <<took, stored, failed>>
    BY <1>6 DEF PowerOff
  <2>. QED  BY <2>1, <2>2, <2>3
<1>7. ASSUME Boot \/ Signal \/ ServerDone \/ UNCHANGED vars  PROVE Accounted'
  <2>1. UNCHANGED <<batch, queue, took, endVars>>
    BY <1>7 DEF Boot, Signal, ServerDone, vars, writerVars
  <2>. QED  BY <1>1, <2>1, PendingSteps
<1>. QED  BY <1>2, <1>3, <1>4, <1>5, <1>6, <1>7 DEF Next, Handle, Writer, Exit, Crash, Over

----------------------------------------------------------------------------
(* What each client is told.                                               *)

Handling == {"idle", "alloc", "publish", "observe", "check", "send"}

\* AnswersAreTrue, of one request.
AnswerIsTrue(r) ==
  /\ reply[r].status = "201" => <<r, 1>> \in stored
  /\ reply[r].status = "500" => <<r, 1>> \in failed
  /\ reply[r].status \in {"202", "503"} =>
       /\ \A k \in 1..Len(form[r].body) : <<r, k>> \in took <=> k <= reply[r].accepted
       /\ reply[r].accepted + reply[r].dropped = Len(form[r].body)
  /\ reply[r].status = "503" => reply[r].accepted = 0
  /\ reply[r].status = "400" =>
       \A k \in 1..Len(form[r].body) : <<r, k>> \in took <=> k < cur[r]

\* A request has queued the records before the one it is at, and no others; it is
\* answered once, truthfully, and its ack is that of its transaction.
Truthful(r) ==
  /\ pc[r] # "idle" /\ form[r].kind # "batch" => Len(form[r].body) = 1
  /\ pc[r] = "wait" => form[r].kind = "sync"
  /\ \A k \in 1..MaxLen : <<r, k>> \in took => k <= Len(form[r].body)
  /\ pc[r] \in Handling => \A k \in 1..MaxLen : <<r, k>> \in took <=> k < cur[r]
  /\ pc[r] \notin {"done", "past"} => reply[r].status = "none"
  /\ ack[r] = "ok" => <<r, 1>> \in stored
  /\ ack[r] = "err" => <<r, 1>> \in failed
  /\ AnswerIsTrue(r)

\* Lengths that the cases below compare.
LEMMA BodyLength ==
  ASSUME Inv, NEW r \in Requests
  PROVE  /\ Len(form[r].body) \in Nat /\ Len(form[r].body) <= MaxLen /\ MaxLen \in Nat \ {0}
         /\ cur[r] \in Nat \ {0}
         /\ ~Resting(r) => cur[r] \in 1..Len(form[r].body)
         /\ pc[r] = "idle" => cur[r] = 1
BY AtRecord, BoundsAssumption DEF Inv, IdsInv, TypeInv, TypeOK, HandlersType, InBody

\* A request stays truthful while its handler moves on without queueing or
\* answering, or ends, and when others queue, commit and fail.
LEMMA TruthStays ==
  ASSUME Inv, NEW r \in Requests, Truthful(r),
         form'[r] = form[r], cur'[r] = cur[r], reply'[r] = reply[r], ack'[r] = ack[r],
         \A k \in 1..MaxLen : <<r, k>> \in took' <=> <<r, k>> \in took,
         stored \subseteq stored', failed \subseteq failed',
         \/ pc'[r] = pc[r]
         \/ pc[r] \in Handling /\ pc'[r] \in Handling /\ pc[r] # "idle"
         \/ pc'[r] \in {"done", "past"} /\ pc[r] # "idle"
  PROVE  Truthful(r)'
<1>1. Len(form[r].body) \in Nat /\ Len(form[r].body) <= MaxLen /\ MaxLen \in Nat
  BY BodyLength
<1>2. AnswerIsTrue(r)'
  BY <1>1 DEF Truthful, AnswerIsTrue
<1>. QED  BY <1>2 DEF Truthful, Handling

\* A handler's step is its own request's.
LEMMA OthersSame ==
  ASSUME Inv, NEW r \in Requests, NEW q \in Requests \ {r},
         Receive(r) \/ RejectEarly(r) \/ Handle(r) \/ Abandon(r)
  PROVE  form'[q] = form[q] /\ cur'[q] = cur[q] /\ pc'[q] = pc[q] /\ reply'[q] = reply[q]
<1>1. /\ pc \in [Requests -> Stages] /\ form \in [Requests -> Forms]
      /\ cur \in [Requests -> Nat \ {0}] /\ reply \in [Requests -> Replies]
  BY DEF Inv, TypeOK, HandlersType
<1> USE DEF Receive, RejectEarly, Arrive, Handle, Abandon, Allocate, Publish, Observe,
            CheckDraining, Enqueue, Shed, Await
<1>2. form'[q] = form[q]
  BY <1>1
<1>3. cur'[q] = cur[q]
  BY <1>1
<1>4. pc'[q] = pc[q]
  BY <1>1 DEF Answer
<1>5. reply'[q] = reply[q]
  BY <1>1 DEF Answer
<1>. QED  BY <1>2, <1>3, <1>4, <1>5

LEMMA OthersStay ==
  ASSUME Inv, NEW r \in Requests, NEW q \in Requests \ {r}, Truthful(q),
         Receive(r) \/ RejectEarly(r) \/ Handle(r) \/ Abandon(r)
  PROVE  Truthful(q)'
<1>1. UNCHANGED <<ack, stored, failed>>
  BY DEF Receive, RejectEarly, Arrive, Handle, Abandon, Allocate, Publish, Observe,
         CheckDraining, Enqueue, Shed, Await, endVars
<1>2. took' = took \/ took' = took \cup {<<r, cur[r]>>}
  BY DEF Receive, RejectEarly, Arrive, Handle, Abandon, Allocate, Publish, Observe,
         CheckDraining, Enqueue, Shed, Await
<1>. QED  BY <1>1, <1>2, OthersSame, TruthStays

\* The steps of a request's own handler.
LEMMA TruthOfHandler ==
  ASSUME Inv, NEW r \in Requests, Truthful(r),
         Receive(r) \/ RejectEarly(r) \/ Handle(r) \/ Abandon(r)
  PROVE  Truthful(r)'
<1>0. /\ pc \in [Requests -> Stages] /\ form \in [Requests -> Forms]
      /\ cur \in [Requests -> Nat \ {0}] /\ reply \in [Requests -> Replies]
  BY DEF Inv, TypeOK, HandlersType
<1> DEFINE size == Len(form[r].body)
<1>b. /\ size \in Nat /\ size <= MaxLen /\ MaxLen \in Nat \ {0} /\ cur[r] \in Nat \ {0}
      /\ ~Resting(r) => cur[r] \in 1..size
      /\ pc[r] = "idle" => cur[r] = 1
  BY BodyLength
<1> HIDE DEF size
<1>t. ASSUME UNCHANGED <<form, cur, reply, ack, took, endVars>>,
             \/ pc[r] \in Handling /\ pc'[r] \in Handling /\ pc[r] # "idle"
             \/ pc'[r] = "done" /\ pc[r] # "idle"
      PROVE  Truthful(r)'
  BY <1>t, TruthStays DEF endVars
<1>1. CASE Receive(r)
  <2>1. PICK k \in Kinds, b \in Bodies :
          /\ k # "batch" => Len(b) = 1
          /\ Arrive(r, k, b)
          /\ pc' = [pc EXCEPT ![r] = "alloc"] /\ reply' = reply
    BY <1>1 DEF Receive
  <2>2. /\ pc[r] = "idle" /\ pc'[r] = "alloc" /\ UNCHANGED <<cur, ack, took, stored, failed>>
        /\ form'[r].kind = k /\ form'[r].body = b
    BY <1>0, <2>1 DEF Arrive, endVars
  <2>3. cur[r] = 1 /\ \A j \in 1..MaxLen : <<r, j>> \notin took
    BY <1>b, <2>2 DEF Truthful, Handling
  <2>4. AnswerIsTrue(r)'
    BY <2>1, <2>2 DEF Truthful, AnswerIsTrue
  <2>. QED  BY <2>1, <2>2, <2>3, <2>4 DEF Truthful, Handling
<1>2. CASE RejectEarly(r)
  <2>1. PICK k \in Kinds, b \in Bodies :
          /\ k = "batch" \/ b = <<FALSE>>
          /\ Arrive(r, k, b)
          /\ Answer(r, "400", 0, 0)
    BY <1>2 DEF RejectEarly
  <2>2. /\ pc[r] = "idle" /\ pc'[r] = "done" /\ UNCHANGED <<cur, ack, took, stored, failed>>
        /\ form'[r].kind = k /\ form'[r].body = b /\ reply'[r].status = "400"
    BY <1>0, <2>1 DEF Arrive, Answer, endVars
  <2>3. cur[r] = 1 /\ \A j \in 1..MaxLen : <<r, j>> \notin took
    BY <1>b, <2>2 DEF Truthful, Handling
  <2>4. Len(b) \in Nat /\ Len(b) <= MaxLen
    BY BodiesAssumption, LenProperties
  <2>5. b = <<FALSE>> => Len(b) = 1
    OBVIOUS
  <2>6. AnswerIsTrue(r)'
    BY <1>b, <2>2, <2>3, <2>4 DEF AnswerIsTrue
  <2>. QED  BY <2>1, <2>2, <2>3, <2>5, <2>6 DEF Truthful, Handling
<1>3. CASE Allocate(r)
  <2>1. /\ pc[r] = "alloc" /\ UNCHANGED <<form, cur, ack, took, endVars>>
        /\ \/ pc' = [pc EXCEPT ![r] = "publish"] /\ UNCHANGED reply
           \/ Answer(r, "400", 0, 0)
    BY <1>3 DEF Allocate
  <2>2. CASE pc' = [pc EXCEPT ![r] = "publish"] /\ UNCHANGED reply
    BY <1>0, <1>t, <2>1, <2>2 DEF Handling
  <2>3. CASE Answer(r, "400", 0, 0)
    <3>1. pc'[r] = "done" /\ reply'[r].status = "400" /\ UNCHANGED <<stored, failed>>
      BY <1>0, <2>1, <2>3 DEF Answer, endVars
    <3>2. AnswerIsTrue(r)'
      BY <1>b, <2>1, <3>1 DEF AnswerIsTrue, Truthful, Handling, size
    <3>. QED  BY <2>1, <3>1, <3>2 DEF Truthful, Handling
  <2>. QED  BY <2>1, <2>2, <2>3
<1>4. CASE Publish(r) \/ Observe(r) \/ CheckDraining(r) \/ Abandon(r)
  <2>1. /\ UNCHANGED <<form, cur, reply, ack, took, endVars>>
        /\ pc[r] \in {"publish", "observe", "check", "wait"}
        /\ \E s \in {"observe", "check", "send", "done"} :
             /\ pc' = [pc EXCEPT ![r] = s]
             /\ s # "done" => pc[r] # "wait"
    BY <1>4 DEF Publish, Observe, CheckDraining, Abandon
  <2>. QED  BY <1>0, <1>t, <2>1 DEF Handling
<1>5. CASE Enqueue(r)
  <2>1. /\ pc[r] = "send" /\ UNCHANGED <<form, ack, stored, failed>>
        /\ took' = took \cup {<<r, cur[r]>>}
    BY <1>5 DEF Enqueue, endVars
  <2>2. cur[r] \in 1..size
    BY <1>b, <2>1 DEF Resting
  <2>3. \A k \in 1..MaxLen : <<r, k>> \in took' <=> k < cur[r] + 1
    BY <1>b, <2>1, <2>2 DEF Truthful, Handling
  <2>4. CASE form[r].kind = "sync"
    <3>1. pc'[r] = "wait" /\ UNCHANGED <<cur, reply>>
      BY <1>0, <1>5, <2>4 DEF Enqueue
    <3>2. AnswerIsTrue(r)'
      BY <2>1, <3>1 DEF Truthful, AnswerIsTrue
    <3>. QED  BY <1>b, <2>1, <2>2, <2>3, <2>4, <3>1, <3>2 DEF Truthful, Handling, size
  <2>5. CASE form[r].kind # "sync" /\ cur[r] < size
    <3>1. pc'[r] = "alloc" /\ cur'[r] = cur[r] + 1 /\ UNCHANGED reply
      BY <1>0, <1>5, <1>b, <2>5 DEF Enqueue, size
    <3>2. AnswerIsTrue(r)'
      BY <2>1, <3>1 DEF Truthful, AnswerIsTrue
    <3>. QED  BY <1>b, <2>1, <2>2, <2>3, <2>5, <3>1, <3>2 DEF Truthful, Handling, size
  <2>6. CASE form[r].kind # "sync" /\ cur[r] = size
    <3>1. /\ pc'[r] = "done" /\ UNCHANGED cur
          /\ reply'[r] = [status |-> "202", accepted |-> cur[r], dropped |-> 0]
      BY <1>0, <1>5, <1>b, <2>6 DEF Enqueue, Answer, size
    <3>2. AnswerIsTrue(r)'
      BY <1>b, <2>1, <2>3, <2>6, <3>1 DEF AnswerIsTrue, size
    <3>. QED  BY <1>b, <2>1, <2>2, <2>3, <2>6, <3>1, <3>2 DEF Truthful, Handling, size
  <2>. QED  BY <1>b, <2>2, <2>4, <2>5, <2>6
<1>6. CASE Shed(r)
  <2>1. /\ pc[r] = "send" /\ UNCHANGED <<form, cur, ack, took, stored, failed>>
        /\ Answer(r, IF cur[r] = 1 THEN "503" ELSE "202", cur[r] - 1, Dropped(r))
    BY <1>6 DEF Shed, endVars
  <2>2. cur[r] \in 1..size
    BY <1>b, <2>1 DEF Resting
  <2>3. /\ pc'[r] = "done" /\ reply'[r].accepted = cur[r] - 1
        /\ reply'[r].dropped = size - cur[r] + 1
        /\ reply'[r].status = IF cur[r] = 1 THEN "503" ELSE "202"
    BY <1>0, <2>1 DEF Answer, Dropped, size
  <2>4. \A k \in 1..MaxLen : <<r, k>> \in took <=> k < cur[r]
    BY <2>1 DEF Truthful, Handling
  <2>5. AnswerIsTrue(r)'
    BY <1>b, <2>1, <2>2, <2>3, <2>4 DEF AnswerIsTrue, size
  <2>. QED  BY <2>1, <2>3, <2>5 DEF Truthful, Handling
<1>7. CASE Await(r)
  <2>1. /\ pc[r] = "wait" /\ UNCHANGED <<form, cur, ack, took, stored, failed>>
        /\ \/ ack[r] = "ok" /\ Answer(r, "201", 1, 0)
           \/ ack[r] = "err" /\ Answer(r, "500", 0, 0)
    BY <1>7 DEF Await, endVars
  <2>2. /\ pc'[r] = "done"
        /\ \/ ack[r] = "ok" /\ reply'[r].status = "201"
           \/ ack[r] = "err" /\ reply'[r].status = "500"
    BY <1>0, <2>1 DEF Answer
  <2>3. AnswerIsTrue(r)'
    BY <2>1, <2>2 DEF AnswerIsTrue, Truthful
  <2>. QED  BY <2>1, <2>2, <2>3 DEF Truthful, Handling
<1>. QED  BY <1>1, <1>2, <1>3, <1>4, <1>5, <1>6, <1>7 DEF Handle

\* The writer notifies of what became of the batch it notifies.
AcksSettled == Recs(acks) \subseteq (IF outcome THEN stored ELSE failed)

AllTruthful == \A r \in Requests : Truthful(r)

\* No step but those of a handler touches a request, save that it may end.
LEMMA TruthNext ==
  ASSUME Inv, Accounted, AcksSettled, AllTruthful, [Next]_vars
  PROVE  AllTruthful'
<1> SUFFICES ASSUME NEW r \in Requests PROVE Truthful(r)'
  BY DEF AllTruthful
<1>0. Truthful(r) /\ \A q \in Requests : Truthful(q)
  BY DEF AllTruthful
<1>1. ASSUME NEW q \in Requests, Receive(q) \/ RejectEarly(q) \/ Handle(q) \/ Abandon(q)
      PROVE  Truthful(r)'
  BY <1>0, <1>1, TruthOfHandler, OthersStay
<1>3. ASSUME Recv \/ Expire \/ AfterExpire \/ Fill \/ FillDone \/ Commit \/ CommitFails
               \/ NotifyDone \/ KeepHouse
      PROVE  Truthful(r)'
  <2>1. UNCHANGED <<form, cur, reply, ack, took, pc>>
    BY <1>3 DEF Recv, Expire, AfterExpire, Fill, FillDone, Commit, CommitFails, NotifyDone,
                KeepHouse, handlerSide, reqVars
  <2>2. stored \subseteq stored' /\ failed \subseteq failed'
    BY <1>3 DEF Recv, Expire, AfterExpire, Fill, FillDone, Commit, CommitFails, NotifyDone,
                KeepHouse
  <2>. QED  BY <1>0, <2>1, <2>2, TruthStays
<1>4. CASE Notify
  <2> DEFINE item == Head(acks)
  <2>1. /\ acks # <<>> /\ UNCHANGED <<form, cur, reply, took, pc, stored, failed>>
        /\ ack' = IF WantsAck(item) THEN [ack EXCEPT ![item.rec[1]] = AckOf] ELSE ack
    BY <1>4 DEF Notify, endVars
  <2>2. acks \in Seq(Item) /\ ack \in [Requests -> {"none", "ok", "err"}]
    BY DEF Inv, TypeOK, WriterType, HandlersType
  <2>3. item \in Item /\ item.rec \in Recs(acks)
    <3>1. item = acks[1] /\ 1 \in DOMAIN acks /\ item \in Item
      BY <2>1, <2>2, EmptySeq, LenProperties, HeadTailProperties
    <3>. QED  BY <3>1 DEF Recs
  <2> HIDE DEF item
  <2>4. CASE WantsAck(item) /\ item.rec[1] = r
    <3>1. PICK k \in 1..MaxLen : item.rec = <<r, k>>
      BY <2>3, <2>4 DEF Item, Rec
    <3>2. <<r, k>> \in took
      BY <2>3, <3>1 DEF AcksSettled, Accounted
    <3>3. k = 1
      <4>1. pc[r] # "idle"
        BY <1>0, <3>2, BodyLength DEF Truthful, Handling
      <4>2. Len(form[r].body) = 1
        BY <1>0, <2>4, <4>1 DEF Truthful, WantsAck
      <4>. QED  BY <1>0, <3>2, <4>2 DEF Truthful
    <3>4. /\ ack'[r] = AckOf
          /\ AckOf = "ok" => <<r, 1>> \in stored
          /\ AckOf = "err" => <<r, 1>> \in failed
      BY <2>1, <2>2, <2>3, <2>4, <3>1, <3>3 DEF AckOf, AcksSettled
    <3>5. AnswerIsTrue(r)'
      BY <1>0, <2>1 DEF Truthful, AnswerIsTrue
    <3>. QED  BY <1>0, <2>1, <3>4, <3>5 DEF Truthful
  <2>5. CASE ~(WantsAck(item) /\ item.rec[1] = r)
    <3>1. ack'[r] = ack[r]
      BY <2>1, <2>2, <2>5
    <3>. QED  BY <1>0, <2>1, <3>1, TruthStays
  <2>. QED  BY <2>4, <2>5
<1>5. ASSUME PowerOff  PROVE Truthful(r)'
  BY <1>0, <1>5, TruthStays DEF PowerOff
<1>6. ASSUME Boot \/ Signal \/ ServerDone \/ UNCHANGED vars  PROVE Truthful(r)'
  BY <1>0, <1>6, TruthStays DEF Boot, Signal, ServerDone, vars, reqVars, endVars
<1>. QED  BY <1>1, <1>3, <1>4, <1>5, <1>6 DEF Next, Writer, Exit, Crash, Over

\* The acks to be sent are those of the transaction that has just ended.
LEMMA AcksNext ==
  ASSUME Inv, AcksSettled, [Next]_vars
  PROVE  AcksSettled'
<1> USE DEF AcksSettled
<1>1. acks \in Seq(Item)
  BY DEF Inv, TypeOK, WriterType
<1>2. ASSUME UNCHANGED <<acks, outcome, stored, failed>>  PROVE AcksSettled'
  BY <1>2 DEF Recs
<1>3. ASSUME Commit \/ CommitFails  PROVE AcksSettled'
  BY <1>3 DEF Commit, CommitFails, BatchDone, Recs
<1>4. CASE Notify
  <2>1. acks # <<>> /\ acks' = Tail(acks) /\ UNCHANGED <<outcome, stored, failed>>
    BY <1>4 DEF Notify, endVars
  <2>2. \A k \in DOMAIN Tail(acks) : \E j \in DOMAIN acks : Tail(acks)[k] = acks[j]
    <3>1. /\ Len(acks) \in Nat /\ DOMAIN acks = 1..Len(acks)
          /\ Tail(acks) \in Seq(Item) /\ Len(Tail(acks)) = Len(acks) - 1
          /\ \A k \in 1..Len(Tail(acks)) : Tail(acks)[k] = acks[k + 1]
      BY <1>1, <2>1, HeadTailProperties, LenProperties
    <3>2. DOMAIN Tail(acks) = 1..Len(acks) - 1
      BY <3>1, LenProperties
    <3>3. ASSUME NEW k \in DOMAIN Tail(acks)
          PROVE  k + 1 \in DOMAIN acks /\ Tail(acks)[k] = acks[k + 1]
      BY <3>1, <3>2
    <3>. QED  BY <3>3
  <2>3. Recs(Tail(acks)) \subseteq Recs(acks)
    BY <2>2 DEF Recs
  <2>4. Recs(acks)' = Recs(Tail(acks))
    BY <2>1 DEF Recs
  <2>. QED  BY <2>1, <2>3, <2>4
<1>5. ASSUME PowerOff  PROVE AcksSettled'
  <2>1. acks' = <<>> /\ DOMAIN <<>> = {}
    BY <1>5, EmptySeq DEF PowerOff
  <2>. QED  BY <2>1 DEF Recs
<1>6. ASSUME NEW r \in Requests, Receive(r) \/ RejectEarly(r) \/ Handle(r) \/ Abandon(r)
      PROVE  AcksSettled'
  <2>1. UNCHANGED <<acks, outcome, stored, failed>>
    BY <1>6 DEF Receive, RejectEarly, Arrive, Handle, Abandon, Allocate, Publish, Observe,
                CheckDraining, Enqueue, Shed, Await, writerVars, endVars
  <2>. QED  BY <1>2, <2>1
<1>7. ASSUME Recv \/ Expire \/ AfterExpire \/ Fill \/ FillDone \/ NotifyDone \/ KeepHouse
      PROVE  AcksSettled'
  BY <1>2, <1>7 DEF Recv, Expire, AfterExpire, Fill, FillDone, NotifyDone, KeepHouse
<1>8. ASSUME Boot \/ Signal \/ ServerDone \/ UNCHANGED vars  PROVE AcksSettled'
  BY <1>2, <1>8 DEF Boot, Signal, ServerDone, vars, writerVars, endVars
<1>. QED  BY <1>3, <1>4, <1>5, <1>6, <1>7, <1>8 DEF Next, Writer, Exit, Crash, Over

\* Only a kill loses what is queued: an exit waits until the writer has nothing left.
LEMMA LossNext ==
  ASSUME Inv, WriterPlace, RedeployLosesNothing, [Next]_vars
  PROVE  RedeployLosesNothing'
<1> USE DEF RedeployLosesNothing
<1>1. crashes \in Nat
  BY DEF Inv, TypeOK, CountsType
<1>2. CASE Crash
  BY <1>1, <1>2 DEF Crash
<1>3. CASE Exit
  <2>1. batch = <<>> /\ queue = <<>>
    BY <1>3 DEF Exit, WriterPlace
  <2>2. Recs(Pending) = {}
    BY <2>1, EmptySeq, ConcatEmptySeq DEF Pending, Recs
  <2>. QED  BY <1>3, <2>2 DEF Exit, PowerOff
<1>4. CASE ~Crash /\ ~Exit
  <2>1. UNCHANGED <<crashes, lost>>
    BY <1>4 DEF Next, Receive, RejectEarly, Arrive, Handle, Allocate, Publish, Observe,
       CheckDraining, Enqueue, Shed, Await, Abandon, Writer, Recv, Expire, AfterExpire, Fill,
       FillDone, Commit, CommitFails, Notify, NotifyDone, KeepHouse, Boot, Signal, ServerDone,
       Over, vars, handlerSide, lifeVars, endVars
  <2>. QED  BY <2>1
<1>. QED  BY <1>2, <1>3, <1>4

----------------------------------------------------------------------------
(* The counters.                                                           *)

\* The handlers of this process's life whose records /metrics counts.
IsCounted(r) == pc[r] \notin {"idle", "past"} /\ IsHttp(r)

\* Those that have told their client of records they dropped, and the records.
IsReported(r) == pc[r] = "done" /\ IsHttp(r) /\ reply[r].status \in {"202", "503"}
MissedBy(r) == {r} \X (reply[r].accepted + 1 .. Len(form[r].body))

CountedRecs == {x \in took : IsCounted(x[1])}
MissedRecs == UNION {MissedBy(r) : r \in {q \in Requests : IsReported(q)}}

\* The counters are right at any time, not only when no handler runs: a record is
\* counted in the step that queues it, and a drop in the step that answers.
Metrics ==
  /\ IsFiniteSet(took) /\ IsFiniteSet(MissedRecs)
  /\ proc = "down" => ingested = 0 /\ shed = 0
  /\ proc # "down" => ingested = Cardinality(CountedRecs) /\ shed = Cardinality(MissedRecs)

\* What MissedRecs becomes when requests but r are reported as before.
LEMMA MissedOthers ==
  ASSUME NEW r \in Requests,
         \A q \in Requests \ {r} : /\ IsReported(q)' <=> IsReported(q)
                                   /\ IsReported(q) => MissedBy(q)' = MissedBy(q)
  PROVE  /\ ~IsReported(r) /\ ~IsReported(r)' => MissedRecs' = MissedRecs
         /\ ~IsReported(r) /\ IsReported(r)' => /\ MissedRecs' = MissedRecs \cup MissedBy(r)'
                                                /\ MissedRecs \cap MissedBy(r)' = {}
         /\ IsReported(r) /\ IsReported(r)' /\ MissedBy(r)' = MissedBy(r) =>
              MissedRecs' = MissedRecs
<1> DEFINE R == {q \in Requests : IsReported(q)}
<1>1. ASSUME ~IsReported(r), ~IsReported(r)'  PROVE MissedRecs' = MissedRecs
  <2>1. R' = R /\ \A q \in R : MissedBy(q)' = MissedBy(q)
    BY <1>1
  <2>. QED  BY <2>1 DEF MissedRecs
<1>2. ASSUME ~IsReported(r), IsReported(r)'
      PROVE  MissedRecs' = MissedRecs \cup MissedBy(r)' /\ MissedRecs \cap MissedBy(r)' = {}
  <2>1. R' = R \cup {r} /\ r \notin R /\ \A q \in R : MissedBy(q)' = MissedBy(q)
    BY <1>2
  <2>2. \A q \in R : MissedBy(q) \cap MissedBy(r)' = {}
    BY <2>1 DEF MissedBy
  <2>. HIDE DEF R
  <2>3. MissedRecs = UNION {MissedBy(q) : q \in R} /\ MissedRecs' = UNION {MissedBy(q)' : q \in R'}
    BY DEF MissedRecs, R
  <2>. QED  BY <2>1, <2>2, <2>3
<1>3. ASSUME IsReported(r), IsReported(r)', MissedBy(r)' = MissedBy(r)
      PROVE  MissedRecs' = MissedRecs
  <2>1. R' = R /\ \A q \in R : MissedBy(q)' = MissedBy(q)
    BY <1>3
  <2>. QED  BY <2>1 DEF MissedRecs
<1>. QED  BY <1>1, <1>2, <1>3

\* A step that queues nothing and drops nothing of a request leaves its counts.
LEMMA CountsStay ==
  ASSUME Inv, AllTruthful, NEW r \in Requests,
         \/ Receive(r) \/ RejectEarly(r) \/ Allocate(r) \/ Publish(r) \/ Observe(r)
         \/ CheckDraining(r) \/ Await(r) \/ Abandon(r)
  PROVE  CountedRecs' = CountedRecs /\ MissedRecs' = MissedRecs /\ took' = took
<1>0. /\ pc \in [Requests -> Stages] /\ form \in [Requests -> Forms]
      /\ reply \in [Requests -> Replies] /\ took \subseteq Rec
  BY DEF Inv, TypeOK, HandlersType, CountsType
<1>1. \A q \in Requests \ {r} : form'[q] = form[q] /\ pc'[q] = pc[q] /\ reply'[q] = reply[q]
  BY OthersSame DEF Handle
<1>2. took' = took
  BY DEF Receive, RejectEarly, Arrive, Allocate, Publish, Observe, CheckDraining, Await, Abandon
<1>3. pc[r] = "idle" => \A x \in took : x[1] # r
  <2>1. ASSUME pc[r] = "idle", NEW k \in 1..MaxLen  PROVE <<r, k>> \notin took
    <3>1. cur[r] = 1 /\ Truthful(r)
      BY <2>1, BodyLength DEF AllTruthful
    <3>2. <<r, k>> \in took <=> k < cur[r]
      BY <2>1, <3>1 DEF Truthful, Handling
    <3>3. ~(k < 1)
      BY BoundsAssumption
    <3>. QED  BY <3>1, <3>2, <3>3
  <2>. QED  BY <1>0, <2>1 DEF Rec
<1>4. pc[r] # "idle" => form' = form /\ pc[r] # "past" /\ pc'[r] \notin {"idle", "past"}
  BY <1>0 DEF Receive, RejectEarly, Arrive, Allocate, Publish, Observe, CheckDraining, Await,
              Abandon, Answer
<1>5. \A x \in took : x[1] \in Requests /\ (IsCounted(x[1])' <=> IsCounted(x[1]))
  <2>1. \A x \in took : x[1] \in Requests
    BY <1>0 DEF Rec
  <2>. QED  BY <1>1, <1>3, <1>4, <2>1 DEF IsCounted, IsHttp
<1>6. CountedRecs' = CountedRecs
  BY <1>2, <1>5 DEF CountedRecs
<1>7. ~IsReported(r)
  BY DEF Receive, RejectEarly, Arrive, Allocate, Publish, Observe, CheckDraining, Await,
         Abandon, IsReported
<1>8. ~IsReported(r)'
  <2>1. CASE Abandon(r)
    <3>1. reply'[r].status = "none"
      BY <2>1 DEF Abandon, AllTruthful, Truthful
    <3>. QED  BY <3>1 DEF IsReported
  <2>2. CASE Receive(r) \/ Publish(r) \/ Observe(r) \/ CheckDraining(r)
    <3>1. pc'[r] # "done"
      BY <1>0, <2>2 DEF Receive, Publish, Observe, CheckDraining
    <3>. QED  BY <3>1 DEF IsReported
  <2>3. CASE RejectEarly(r) \/ Allocate(r) \/ Await(r)
    <3>1. \/ pc' = [pc EXCEPT ![r] = "publish"]
          \/ \E s \in {"400", "201", "500"}, a, d \in {0, 1} : Answer(r, s, a, d)
      BY <2>3 DEF RejectEarly, Allocate, Await
    <3>2. pc'[r] # "done" \/ reply'[r].status \in {"400", "201", "500"}
      BY <1>0, <3>1 DEF Answer
    <3>. QED  BY <3>2 DEF IsReported
  <2>. QED  BY <2>1, <2>2, <2>3
<1>9. MissedRecs' = MissedRecs
  <2>1. \A q \in Requests \ {r} : /\ IsReported(q)' <=> IsReported(q)
                                  /\ MissedBy(q)' = MissedBy(q)
    BY <1>1 DEF IsReported, IsHttp, MissedBy
  <2>. QED  BY <1>7, <1>8, <2>1, MissedOthers
<1>. QED  BY <1>2, <1>6, <1>9

\* A queued record is counted once, in that step.
LEMMA EnqueueCounts ==
  ASSUME Inv, AllTruthful, Metrics, NEW r \in Requests, Enqueue(r)
  PROVE  Metrics'
<1>0. /\ pc \in [Requests -> Stages] /\ form \in [Requests -> Forms]
      /\ reply \in [Requests -> Replies] /\ took \subseteq Rec
  BY DEF Inv, TypeOK, HandlersType, CountsType
<1>1. \A q \in Requests \ {r} : form'[q] = form[q] /\ pc'[q] = pc[q] /\ reply'[q] = reply[q]
  BY OthersSame DEF Handle
<1>2. /\ pc[r] = "send" /\ took' = took \cup {<<r, cur[r]>>} /\ form' = form
      /\ ingested' = (IF IsHttp(r) THEN ingested + 1 ELSE ingested)
      /\ UNCHANGED <<shed, proc>>
  BY DEF Enqueue, lifeVars
<1>3. <<r, cur[r]>> \notin took
  <2>1. cur[r] \in 1..MaxLen /\ Truthful(r)
    BY <1>2, BodyLength DEF Resting, AllTruthful
  <2>. QED  BY <1>2, <2>1 DEF Truthful, Handling
<1>4. pc'[r] \in {"wait", "alloc", "done"}
  BY <1>0 DEF Enqueue, Answer
<1>5. \A q \in Requests : IsCounted(q)' <=> IsCounted(q)
  BY <1>1, <1>2, <1>4 DEF IsCounted, IsHttp
<1>6. \A x \in took : x[1] \in Requests
  BY <1>0 DEF Rec
<1>7. CountedRecs' = IF IsHttp(r) THEN CountedRecs \cup {<<r, cur[r]>>} ELSE CountedRecs
  <2>1. CountedRecs' = {x \in took' : IsCounted(x[1])'}
    BY DEF CountedRecs
  <2>2. IsCounted(r) <=> IsHttp(r)
    BY <1>2 DEF IsCounted
  <2>3. \A x \in took' : IsCounted(x[1])' <=> IsCounted(x[1])
    BY <1>2, <1>5, <1>6
  <2>4. CountedRecs' = {x \in took \cup {<<r, cur[r]>>} : IsCounted(x[1])}
    BY <1>2, <2>1, <2>3
  <2>. QED  BY <2>2, <2>4 DEF CountedRecs
<1>8. MissedRecs' = MissedRecs
  <2>1. \A q \in Requests \ {r} : /\ IsReported(q)' <=> IsReported(q)
                                  /\ MissedBy(q)' = MissedBy(q)
    BY <1>1, <1>2 DEF IsReported, IsHttp, MissedBy
  <2>2. ~IsReported(r)
    BY <1>2 DEF IsReported
  <2>3. IsReported(r)' => MissedBy(r)' = {}
    <3>1. ASSUME pc'[r] = "done"  PROVE reply'[r].accepted = Len(form[r].body)
      BY <1>0, <3>1 DEF Enqueue, Answer
    <3>2. Len(form[r].body) \in Nat
      BY BodyLength
    <3>. QED  BY <1>2, <3>1, <3>2 DEF IsReported, MissedBy
  <2>. QED  BY <2>1, <2>2, <2>3, MissedOthers
<1>9. proc # "down"
  BY <1>2 DEF Inv, IdsInv, OffWhenDown
<1>10. /\ IsFiniteSet(took') /\ IsFiniteSet(CountedRecs)
       /\ IsHttp(r) => Cardinality(CountedRecs') = Cardinality(CountedRecs) + 1
  <2>1. CountedRecs \in SUBSET took /\ <<r, cur[r]>> \notin CountedRecs
    BY <1>3 DEF CountedRecs
  <2>2. IsFiniteSet(CountedRecs)
    BY <2>1, FS_Subset DEF Metrics
  <2>. QED  BY <1>2, <1>7, <2>1, <2>2, FS_AddElement DEF Metrics
<1>. QED  BY <1>2, <1>7, <1>8, <1>9, <1>10 DEF Metrics

\* A full queue drops the rest of a body, and each record of it is counted once.
LEMMA ShedCounts ==
  ASSUME Inv, AllTruthful, Metrics, NEW r \in Requests, Shed(r)
  PROVE  Metrics'
<1>0. /\ pc \in [Requests -> Stages] /\ reply \in [Requests -> Replies] /\ took \subseteq Rec
      /\ shed \in Nat
  BY DEF Inv, TypeOK, HandlersType, CountsType
<1>1. \A q \in Requests \ {r} : form'[q] = form[q] /\ pc'[q] = pc[q] /\ reply'[q] = reply[q]
  BY OthersSame DEF Handle
<1>2. /\ pc[r] = "send" /\ UNCHANGED <<form, cur, took, ingested, proc>>
      /\ shed' = shed + ShedBy(r)
      /\ Answer(r, IF cur[r] = 1 THEN "503" ELSE "202", cur[r] - 1, Dropped(r))
  BY DEF Shed, lifeVars
<1>3. /\ pc'[r] = "done" /\ reply'[r].accepted = cur[r] - 1
      /\ reply'[r].status \in {"202", "503"}
  BY <1>0, <1>2 DEF Answer
<1>4. cur[r] \in 1..Len(form[r].body) /\ Len(form[r].body) \in Nat
  BY <1>2, BodyLength DEF Resting
<1>5. CountedRecs' = CountedRecs
  <2>1. \A x \in took : x[1] \in Requests /\ (IsCounted(x[1])' <=> IsCounted(x[1]))
    <3>1. \A x \in took : x[1] \in Requests
      BY <1>0 DEF Rec
    <3>. QED  BY <1>1, <1>2, <1>3, <3>1 DEF IsCounted, IsHttp
  <2>. QED  BY <1>2, <2>1 DEF CountedRecs
<1>6. /\ ~IsReported(r) /\ (IsReported(r)' <=> IsHttp(r))
      /\ MissedBy(r)' = {r} \X (cur[r] .. Len(form[r].body))
  BY <1>2, <1>3, <1>4 DEF IsReported, IsHttp, MissedBy
<1>7. \A q \in Requests \ {r} : /\ IsReported(q)' <=> IsReported(q)
                                /\ MissedBy(q)' = MissedBy(q)
  BY <1>1 DEF IsReported, IsHttp, MissedBy
<1>8. /\ IsFiniteSet(MissedBy(r)')
      /\ Cardinality(MissedBy(r)') = Dropped(r)
  <2> DEFINE I == cur[r] .. Len(form[r].body)
  <2>1. IsFiniteSet(I) /\ Cardinality(I) = Dropped(r) /\ Dropped(r) \in Nat
    <3>1. /\ cur[r] \in Int /\ Len(form[r].body) \in Int /\ cur[r] <= Len(form[r].body)
          /\ Dropped(r) \in Nat
      BY <1>4 DEF Dropped
    <3>2. /\ IsFiniteSet(I)
          /\ Cardinality(I) = IF cur[r] > Len(form[r].body) THEN 0
                              ELSE Len(form[r].body) - cur[r] + 1
      BY <3>1, FS_Interval
    <3>. QED  BY <3>1, <3>2 DEF Dropped
  <2>2. IsFiniteSet({r}) /\ Cardinality({r}) = 1
    BY FS_Singleton
  <2>3. MissedBy(r)' = {r} \X I
    BY <1>6
  <2>. HIDE DEF I
  <2>4. IsFiniteSet({r} \X I) /\ Cardinality({r} \X I) = Cardinality({r}) * Cardinality(I)
    BY <2>1, <2>2, FS_Product
  <2>. QED  BY <2>1, <2>2, <2>3, <2>4
<1>9. proc # "down"
  BY <1>2 DEF Inv, IdsInv, OffWhenDown
<1>10. CASE IsHttp(r)
  <2>1. MissedRecs' = MissedRecs \cup MissedBy(r)' /\ MissedRecs \cap MissedBy(r)' = {}
    BY <1>6, <1>7, <1>10, MissedOthers
  <2>2. /\ IsFiniteSet(MissedRecs')
        /\ Cardinality(MissedRecs') = Cardinality(MissedRecs) + Cardinality(MissedBy(r)') - 0
    BY <1>8, <2>1, FS_Union, FS_EmptySet DEF Metrics
  <2>3. ShedBy(r) = Dropped(r) /\ Dropped(r) \in Nat
    BY <1>4, <1>10 DEF ShedBy, Dropped
  <2>4. Cardinality(MissedRecs) \in Nat
    BY FS_CardinalityType DEF Metrics
  <2>. QED  BY <1>2, <1>5, <1>8, <1>9, <2>2, <2>3, <2>4 DEF Metrics
<1>11. CASE ~IsHttp(r)
  <2>1. MissedRecs' = MissedRecs
    BY <1>6, <1>7, <1>11, MissedOthers
  <2>2. shed' = shed
    BY <1>0, <1>2, <1>11 DEF ShedBy
  <2>. QED  BY <1>2, <1>5, <1>9, <2>1, <2>2 DEF Metrics
<1>. QED  BY <1>10, <1>11

\* Every step keeps the counters right.
LEMMA MetricsNext ==
  ASSUME Inv, AllTruthful, Metrics, [Next]_vars
  PROVE  Metrics'
<1>0. took \subseteq Rec
  BY DEF Inv, TypeOK, CountsType
<1>1. ASSUME NEW r \in Requests, Receive(r) \/ RejectEarly(r) \/ Handle(r) \/ Abandon(r)
      PROVE  Metrics'
  <2>1. CASE Enqueue(r) \/ Shed(r)
    BY <2>1, EnqueueCounts, ShedCounts
  <2>2. CASE ~Enqueue(r) /\ ~Shed(r)
    <3>1. CountedRecs' = CountedRecs /\ MissedRecs' = MissedRecs /\ took' = took
      BY <1>1, <2>2, CountsStay DEF Handle
    <3>2. UNCHANGED <<ingested, shed, proc>>
      BY <1>1, <2>2 DEF Receive, RejectEarly, Arrive, Handle, Allocate, Publish, Observe,
                        CheckDraining, Await, Abandon, metricVars, lifeVars
    <3>. QED  BY <3>1, <3>2 DEF Metrics
  <2>. QED  BY <2>1, <2>2
<1>2. ASSUME UNCHANGED <<pc, form, reply, took, ingested, shed>>,
             proc' = "down" <=> proc = "down"
      PROVE  Metrics'
  <2>1. CountedRecs' = CountedRecs
    BY <1>2 DEF CountedRecs, IsCounted, IsHttp
  <2>2. MissedRecs' = MissedRecs
    BY <1>2 DEF MissedRecs, IsReported, MissedBy, IsHttp
  <2>. QED  BY <1>2, <2>1, <2>2 DEF Metrics
<1>3. ASSUME Writer \/ Signal \/ ServerDone \/ UNCHANGED vars  PROVE Metrics'
  <2>1. UNCHANGED <<pc, form, reply, took, ingested, shed>>
    BY <1>3 DEF Writer, Recv, Expire, AfterExpire, Fill, FillDone, Commit, CommitFails, Notify,
                NotifyDone, KeepHouse, handlerSide, Signal, ServerDone, vars, reqVars, metricVars
  <2>2. proc' = "down" <=> proc = "down"
    BY <1>3 DEF Writer, Recv, Expire, AfterExpire, Fill, FillDone, Commit, CommitFails, Notify,
                NotifyDone, KeepHouse, handlerSide, Signal, ServerDone, vars, lifeVars
  <2>. QED  BY <1>2, <2>1, <2>2
<1>4. ASSUME \A r \in Requests : pc'[r] \in {"idle", "past"}
      PROVE  CountedRecs' = {} \/ ~(took' \subseteq Rec)
  BY <1>4 DEF CountedRecs, IsCounted, Rec
<1>5. ASSUME \A r \in Requests : pc'[r] \in {"idle", "past"}
      PROVE  MissedRecs' = {} /\ IsFiniteSet(MissedRecs')
  <2>1. MissedRecs' = {}
    BY <1>5 DEF MissedRecs, IsReported
  <2>. QED  BY <2>1, FS_EmptySet
<1>6. CASE Boot
  <2>1. /\ \A r \in Requests : pc'[r] \in {"idle", "past"}
        /\ UNCHANGED <<took, ingested, shed>> /\ proc = "down" /\ proc' # "down"
    BY <1>6 DEF Boot, Inv, IdsInv, OffWhenDown, reqVars, metricVars
  <2>2. CountedRecs' = {} /\ MissedRecs' = {} /\ IsFiniteSet(MissedRecs')
    BY <1>0, <1>4, <1>5, <2>1
  <2>. QED  BY <2>1, <2>2, FS_EmptySet DEF Metrics
<1>7. ASSUME PowerOff  PROVE Metrics'
  <2>1. \A r \in Requests : pc'[r] \in {"idle", "past"}
    BY <1>7 DEF PowerOff
  <2>. QED  BY <1>5, <1>7, <2>1 DEF PowerOff, Metrics
<1>. QED  BY <1>1, <1>3, <1>6, <1>7 DEF Next, Exit, Crash, Over

----------------------------------------------------------------------------
(* The theorems.                                                           *)

AccountInv ==
  /\ Inv
  /\ WriterPlace
  /\ Accounted
  /\ AcksSettled
  /\ RedeployLosesNothing
  /\ AllTruthful
  /\ Metrics

\* Before the first request nothing is queued and nobody was told anything.
LEMMA AccountInit == Init => AccountInv
<1> SUFFICES ASSUME Init PROVE AccountInv
  OBVIOUS
<1>1. Inv
  BY InvInit
<1>2. Pending = <<>> /\ DOMAIN <<>> = {}
  BY EmptySeq, ConcatEmptySeq DEF Init, Pending
<1>3. Accounted
  BY <1>2 DEF Init, Accounted, Recs
<1>4. WriterPlace /\ AcksSettled /\ RedeployLosesNothing
  BY <1>2 DEF Init, WriterPlace, draining, AcksSettled, Recs, RedeployLosesNothing
<1>5. ASSUME NEW r \in Requests PROVE Truthful(r)
  <2>1. /\ pc[r] = "idle" /\ form[r].kind = "one" /\ cur[r] = 1 /\ ack[r] = "none" /\ took = {}
        /\ reply[r].status = "none"
    BY DEF Init, NoReply
  <2>2. MaxLen \in Nat
    BY BoundsAssumption
  <2>. QED  BY <2>1, <2>2 DEF Truthful, AnswerIsTrue, Handling
<1>6. Metrics
  <2>1. took = {} /\ proc = "down" /\ ingested = 0 /\ shed = 0 /\ \A r \in Requests : pc[r] = "idle"
    BY DEF Init
  <2>2. MissedRecs = {}
    BY <2>1 DEF MissedRecs, IsReported
  <2>. QED  BY <2>1, <2>2, FS_EmptySet DEF Metrics
<1>. QED  BY <1>1, <1>3, <1>4, <1>5, <1>6 DEF AccountInv, AllTruthful

\* Every step keeps the accounts.
LEMMA AccountNext == AccountInv /\ [Next]_vars => AccountInv'
<1> SUFFICES ASSUME AccountInv, [Next]_vars PROVE AccountInv'
  OBVIOUS
<1> USE DEF AccountInv
<1>1. NewToTheQueue
  <2> SUFFICES ASSUME NEW r \in Requests, pc[r] = "send" PROVE <<r, cur[r]>> \notin took
    BY DEF NewToTheQueue
  <2>1. cur[r] \in 1..MaxLen
    BY BodyLength DEF Resting
  <2>2. Truthful(r)
    BY DEF AllTruthful
  <2>. QED  BY <2>1, <2>2 DEF Truthful, Handling
<1>2. Inv' /\ WriterPlace' /\ AcksSettled' /\ RedeployLosesNothing'
  BY InvNext, WriterPlaceNext, AcksNext, LossNext
<1>3. Accounted'
  BY <1>1, AccountedNext
<1>4. AllTruthful' /\ Metrics'
  BY TruthNext, MetricsNext
<1>. QED  BY <1>2, <1>3, <1>4

\* The accounts of the write path hold together: an answer is true only because
\* each record is in one place, and a shutdown is lossless only because the writer
\* stops where nothing is left.
THEOREM Accounts == Spec => []AccountInv
BY AccountInit, AccountNext, PTL DEF Spec

\* Each accepted record is pending, committed, rolled back or lost, and only one of them.
THEOREM AccountedFor == Spec => []Accounted
<1>1. AccountInv => Accounted
  BY DEF AccountInv
<1>. QED  BY <1>1, Accounts, PTL

\* What each status code claims of the records of its body is so, and stays so.
THEOREM AnswersHold == Spec => []AnswersAreTrue
<1>1. AccountInv => AnswersAreTrue
  BY DEF AccountInv, AllTruthful, Truthful, AnswerIsTrue, AnswersAreTrue
<1>. QED  BY <1>1, Accounts, PTL

\* A shutdown on SIGTERM loses no accepted record.
THEOREM RedeployIsLossless == Spec => []RedeployLosesNothing
<1>1. AccountInv => RedeployLosesNothing
  BY DEF AccountInv
<1>. QED  BY <1>1, Accounts, PTL

\* What /metrics reports once every handler has answered is what was queued and
\* what was dropped since the start, each record once.
THEOREM MetricsHold == Spec => []MetricsAgree
<1>1. AccountInv => MetricsAgree
  <2> SUFFICES ASSUME AccountInv, proc # "down", \A r \in Requests : Resting(r)
               PROVE  LET answered == {r \in Requests : pc[r] = "done" /\ IsHttp(r)} IN
                        /\ ingested = Cardinality({x \in took : x[1] \in answered})
                        /\ shed = Cardinality(UNION {{r} \X (reply[r].accepted + 1 .. Len(form[r].body)) :
                             r \in {q \in answered : reply[q].status \in {"202", "503"}}})
    BY DEF MetricsAgree
  <2> DEFINE answered == {r \in Requests : pc[r] = "done" /\ IsHttp(r)}
  <2>1. \A x \in took : x[1] \in Requests
    BY DEF AccountInv, Inv, TypeOK, CountsType, Rec
  <2>2. {x \in took : x[1] \in answered} = CountedRecs
    BY <2>1 DEF CountedRecs, IsCounted, Resting
  <2>3. {q \in answered : reply[q].status \in {"202", "503"}} = {q \in Requests : IsReported(q)}
    BY DEF IsReported
  <2>4. UNION {{r} \X (reply[r].accepted + 1 .. Len(form[r].body)) :
               r \in {q \in answered : reply[q].status \in {"202", "503"}}} = MissedRecs
    BY <2>3 DEF MissedRecs, MissedBy
  <2>. QED  BY <2>2, <2>4 DEF AccountInv, Metrics
<1>. QED  BY <1>1, Accounts, PTL
=============================================================================

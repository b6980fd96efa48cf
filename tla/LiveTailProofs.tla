--------------------------- MODULE LiveTailProofs ---------------------------
(***************************************************************************)
(* Proofs about LiveTail, for any clients, any ring size, any limit of the *)
(* replay and any number of records, connections and restarts.             *)
(***************************************************************************)
EXTENDS LiveTail, SequenceTheorems, FiniteSetTheorems, TLAPS

----------------------------------------------------------------------------
(* The log that tails read.                                                *)

\* Types of LogFeed's variables, under the bounds of LiveTail.
LogType ==
  /\ up \in BOOLEAN
  /\ last \in 0..MaxFrames /\ serial \in 0..MaxFrames
  /\ open \subseteq 1..last
  /\ IsFiniteSet(open) /\ serial + Cardinality(open) <= MaxFrames
  /\ unsent \subseteq Frame
  /\ feed \in Seq(Frame) /\ Len(feed) <= serial
  /\ pending \in Seq(Frame)
  /\ \A k \in DOMAIN feed : feed[k].id <= last
  /\ ~up => open = {} /\ unsent = {} /\ feed = <<>> /\ pending = <<>>

InFeed(f) == \E k \in DOMAIN feed : f = feed[k]

\* A record has one frame in the feed and one row, under one id, and is in one
\* of the handlers' hands, the buffer and the table.
OneFrame ==
  /\ \A k \in DOMAIN feed : feed[k].rec <= serial
  /\ \A j, k \in DOMAIN feed : feed[j].rec = feed[k].rec => j = k
  /\ \A f \in unsent : InFeed(f)
  /\ \A n \in DOMAIN pending : InFeed(pending[n])
  /\ \A f \in unsent : \A n \in DOMAIN pending : pending[n].rec # f.rec
  /\ \A m, n \in DOMAIN pending : pending[m].rec = pending[n].rec => m = n

OneRow ==
  /\ DOMAIN rows \subseteq 1..last
  /\ \A i \in DOMAIN rows : rows[i] \in Records /\ rows[i] <= serial
  /\ \A i, j \in DOMAIN rows : rows[i] = rows[j] => i = j
  /\ \A f \in unsent : \A i \in DOMAIN rows : rows[i] # f.rec
  /\ \A n \in DOMAIN pending : \A i \in DOMAIN rows : rows[i] # pending[n].rec
  /\ \A i \in DOMAIN rows : \A k \in DOMAIN feed : rows[i] = feed[k].rec => feed[k].id = i

LogInv == LogType /\ OneFrame /\ OneRow

\* The constants in the form the cases below use.
LEMMA Bounds ==
  /\ MaxFrames \in Nat /\ MaxConns \in Nat /\ MaxRestarts \in Nat
  /\ Records = 1..MaxFrames
BY TailAssumption

\* The frames of the feed and of the buffer.
LEMMA Frames ==
  ASSUME LogType
  PROVE  /\ Len(feed) \in Nat /\ DOMAIN feed = 1..Len(feed)
         /\ \A k \in DOMAIN feed :
              feed[k] \in Frame /\ feed[k].id \in Nat \ {0} /\ feed[k].rec \in Records
         /\ Len(pending) \in Nat /\ DOMAIN pending = 1..Len(pending)
         /\ \A k \in DOMAIN pending :
              pending[k] \in Frame /\ pending[k].id \in Nat \ {0} /\ pending[k].rec \in Records
<1>1. \A f \in Frame : f.id \in Nat \ {0} /\ f.rec \in Records
  BY DEF Frame
<1>2. /\ Len(feed) \in Nat /\ DOMAIN feed = 1..Len(feed) /\ \A k \in DOMAIN feed : feed[k] \in Frame
      /\ Len(pending) \in Nat /\ DOMAIN pending = 1..Len(pending)
      /\ \A k \in DOMAIN pending : pending[k] \in Frame
  BY LenProperties, ElementOfSeq DEF LogType
<1>. QED  BY <1>1, <1>2

\* A sequence with one more element.
LEMMA Appended ==
  ASSUME NEW S, NEW s \in Seq(S), NEW e \in S
  PROVE  /\ Append(s, e) \in Seq(S) /\ Len(Append(s, e)) = Len(s) + 1
         /\ DOMAIN s = 1..Len(s) /\ DOMAIN Append(s, e) = 1..Len(s) + 1 /\ Len(s) \in Nat
         /\ \A k \in DOMAIN s : Append(s, e)[k] = s[k] /\ k \in 1..Len(s)
         /\ Append(s, e)[Len(s) + 1] = e
BY AppendProperties, LenProperties

\* What is left of a sequence without its first n elements.
LEMMA Rest ==
  ASSUME NEW S, NEW s \in Seq(S), NEW n \in 1..Len(s)
  PROVE  /\ SubSeq(s, n + 1, Len(s)) \in Seq(S)
         /\ \A m \in DOMAIN SubSeq(s, n + 1, Len(s)) :
              m + n \in DOMAIN s /\ m \in Nat \ {0} /\ SubSeq(s, n + 1, Len(s))[m] = s[m + n]
<1>1. Len(s) \in Nat /\ DOMAIN s = 1..Len(s) /\ \A i \in n + 1..Len(s) : s[i] \in S
  BY LenProperties, ElementOfSeq
<1>2. /\ SubSeq(s, n + 1, Len(s)) \in Seq(S)
      /\ Len(SubSeq(s, n + 1, Len(s))) = IF n + 1 <= Len(s) THEN Len(s) - (n + 1) + 1 ELSE 0
      /\ \A i \in 1..Len(s) - (n + 1) + 1 : SubSeq(s, n + 1, Len(s))[i] = s[n + 1 + i - 1]
  BY <1>1, SubSeqProperties
<1>3. DOMAIN SubSeq(s, n + 1, Len(s)) = 1..Len(SubSeq(s, n + 1, Len(s)))
  BY <1>2, LenProperties
<1>4. ASSUME NEW m \in DOMAIN SubSeq(s, n + 1, Len(s))
      PROVE  m + n \in DOMAIN s /\ m \in Nat \ {0} /\ SubSeq(s, n + 1, Len(s))[m] = s[m + n]
  <2>1. m \in 1..Len(s) - n
    BY <1>1, <1>2, <1>3
  <2>2. m + n \in DOMAIN s /\ m \in Nat \ {0} /\ n + 1 + m - 1 = m + n
    BY <1>1, <2>1
  <2>. QED  BY <1>1, <1>2, <2>1, <2>2
<1>. QED  BY <1>2, <1>4

\* The first n elements of a sequence.
LEMMA First ==
  ASSUME NEW S, NEW s \in Seq(S), NEW n \in 1..Len(s)
  PROVE  /\ DOMAIN SubSeq(s, 1, n) = 1..n
         /\ \A m \in 1..n : m \in DOMAIN s /\ SubSeq(s, 1, n)[m] = s[m]
<1>1. Len(s) \in Nat /\ DOMAIN s = 1..Len(s) /\ \A i \in 1..n : s[i] \in S
  BY LenProperties, ElementOfSeq
<1>2. /\ SubSeq(s, 1, n) \in Seq(S) /\ Len(SubSeq(s, 1, n)) = n
      /\ \A i \in 1..n : SubSeq(s, 1, n)[i] = s[i]
  BY <1>1, SubSeqProperties
<1>. QED  BY <1>1, <1>2, LenProperties

\* A failed transaction drops the oldest frames of the buffer.
LEMMA DiscardSteps ==
  ASSUME LogType, Discard
  PROVE  /\ pending' \in Seq(Frame)
         /\ UNCHANGED <<up, last, open, unsent, feed, rows>>
         /\ \E n \in Nat : \A m \in DOMAIN pending' :
              m \in Nat \ {0} /\ m + n \in DOMAIN pending /\ pending'[m] = pending[m + n]
<1>1. PICK n \in 1..Len(pending) : pending' = SubSeq(pending, n + 1, Len(pending))
  BY DEF Discard
<1>2. n \in Nat /\ pending \in Seq(Frame)
  BY DEF LogType
<1>3. /\ pending' \in Seq(Frame)
      /\ \A m \in DOMAIN pending' :
           m \in Nat \ {0} /\ m + n \in DOMAIN pending /\ pending'[m] = pending[m + n]
  BY <1>1, <1>2, Rest
<1>. QED  BY <1>2, <1>3 DEF Discard

\* A committed transaction makes them rows, each under its own id.
LEMMA PersistSteps ==
  ASSUME LogType, Persist
  PROVE  /\ pending' \in Seq(Frame)
         /\ UNCHANGED <<up, last, open, unsent, feed>>
         /\ \E n \in Nat :
              /\ \A m \in DOMAIN pending' :
                   m \in Nat \ {0} /\ m + n \in DOMAIN pending /\ pending'[m] = pending[m + n]
              /\ DOMAIN rows \subseteq DOMAIN rows'
              /\ \A i \in DOMAIN rows : rows'[i] = rows[i]
              /\ \A i \in DOMAIN rows' \ DOMAIN rows : \E k \in DOMAIN pending :
                   k <= n /\ k \in Nat /\ pending[k].id = i /\ rows'[i] = pending[k].rec
<1>1. PICK n \in 1..Len(pending) :
        /\ pending' = SubSeq(pending, n + 1, Len(pending))
        /\ rows' = AddRows(rows, SubSeq(pending, 1, n))
  BY DEF Persist
<1> DEFINE s == SubSeq(pending, 1, n)
<1>2. DOMAIN s = 1..n /\ \A m \in 1..n : m \in DOMAIN pending /\ s[m] = pending[m]
  BY First DEF LogType
<1>3. n \in Nat
  OBVIOUS
<1>4. /\ DOMAIN rows' = DOMAIN rows \cup IdsOf(s)
      /\ \A i \in DOMAIN rows : rows'[i] = rows[i]
      /\ \A i \in IdsOf(s) : i \notin DOMAIN rows =>
           rows'[i] = s[CHOOSE k \in DOMAIN s : s[k].id = i].rec
  <2>. HIDE DEF s
  <2>1. rows' = AddRows(rows, s)
    BY <1>1 DEF s
  <2>. QED  BY <2>1 DEF AddRows
<1>5. ASSUME NEW i \in DOMAIN rows' \ DOMAIN rows
      PROVE  \E k \in DOMAIN pending :
               k <= n /\ k \in Nat /\ pending[k].id = i /\ rows'[i] = pending[k].rec
  <2>. HIDE DEF s
  <2>1. i \in IdsOf(s)
    BY <1>4
  <2>2. \E k \in DOMAIN s : s[k].id = i
    BY <2>1 DEF IdsOf
  <2>3. PICK k \in DOMAIN s : s[k].id = i /\ rows'[i] = s[k].rec
    BY <1>4, <2>1, <2>2
  <2>. QED  BY <1>2, <1>3, <2>3
<1>6. /\ pending' \in Seq(Frame)
      /\ \A m \in DOMAIN pending' :
           m \in Nat \ {0} /\ m + n \in DOMAIN pending /\ pending'[m] = pending[m + n]
  BY <1>1, Rest DEF LogType
<1>7. UNCHANGED <<up, last, open, unsent, feed>>
  BY DEF Persist
<1>. QED  BY <1>3, <1>4, <1>5, <1>6, <1>7

\* Retention leaves some of the rows, as they are.
LEMMA ForgetSteps ==
  ASSUME Forget
  PROVE  /\ UNCHANGED <<up, last, open, unsent, feed, pending>> /\ up
         /\ DOMAIN rows' \subseteq DOMAIN rows /\ \A i \in DOMAIN rows' : rows'[i] = rows[i]
<1>1. PICK ids \in SUBSET DOMAIN rows : rows' = [i \in ids |-> rows[i]]
  BY DEF Forget
<1>. QED  BY <1>1 DEF Forget

LEMMA LogInit == Init => LogInv
<1> SUFFICES ASSUME Init PROVE LogInv
  OBVIOUS
<1>1. <<>> \in Seq(Frame) /\ Len(<<>>) = 0 /\ DOMAIN <<>> = {}
  BY EmptySeq
<1>2. MaxFrames \in Nat /\ IsFiniteSet({}) /\ Cardinality({}) = 0
  BY Bounds, FS_EmptySet
<1>3. /\ up = FALSE /\ last = 0 /\ open = {} /\ unsent = {} /\ feed = <<>> /\ pending = <<>>
      /\ DOMAIN rows = {} /\ serial = 0
  BY DEF Init, FeedInit, TailInit
<1>4. LogType
  <2>1. /\ last \in 0..MaxFrames /\ serial \in 0..MaxFrames /\ open \subseteq 1..last
        /\ serial + Cardinality(open) <= MaxFrames
    BY <1>2, <1>3
  <2>2. Len(feed) <= serial /\ \A k \in DOMAIN feed : feed[k].id <= last
    BY <1>1, <1>3
  <2>. QED  BY <1>1, <1>2, <1>3, <2>1, <2>2 DEF LogType
<1>. QED  BY <1>1, <1>3, <1>4 DEF LogInv, OneFrame, OneRow

\* The steps of the handlers: an id is issued, a new record is broadcast under
\* it, and its frame goes into the buffer or away.
LEMMA IngestLog ==
  ASSUME LogInv, IngestStep
  PROVE  LogInv'
<1> USE DEF LogInv
<1>0. Cardinality(open) \in Nat
  BY FS_CardinalityType DEF LogType
<1>1. CASE Issue /\ last < MaxFrames /\ serial + Cardinality(open) < MaxFrames /\ UNCHANGED tailVars
  <2>1. /\ UNCHANGED <<up, unsent, feed, pending, rows, serial>> /\ last' = last + 1
        /\ open' = open \cup {last + 1} \/ open' = open
        /\ last \in Nat /\ serial \in Nat /\ up
    BY <1>1 DEF Issue, tailVars, LogType
  <2>2. IsFiniteSet(open') /\ serial' + Cardinality(open') <= MaxFrames
    <3>1. IsFiniteSet(open')
      BY <2>1, FS_AddElement DEF LogType
    <3>2. Cardinality(open') \in {Cardinality(open), Cardinality(open) + 1}
      BY <2>1, FS_AddElement DEF LogType
    <3>. QED  BY <1>0, <1>1, <2>1, <3>1, <3>2, Bounds
  <2>3. LogType'
    <3>1. last' \in 0..MaxFrames /\ open' \subseteq 1..last'
      <4>1. last' \in 0..MaxFrames
        BY <1>1, <2>1, Bounds
      <4>2. open \subseteq 1..last + 1 /\ last + 1 \in 1..last + 1
        BY <2>1 DEF LogType
      <4>. QED  BY <2>1, <4>1, <4>2
    <3>2. \A k \in DOMAIN feed : feed[k].id <= last + 1
      BY <2>1, Frames DEF LogType
    <3>. QED  BY <2>1, <2>2, <3>1, <3>2 DEF LogType
  <2>4. OneFrame'
    BY <2>1 DEF OneFrame, InFeed
  <2>5. OneRow'
    BY <2>1 DEF OneRow, LogType
  <2>. QED  BY <2>3, <2>4, <2>5
<1>2. CASE Broadcast(serial + 1) /\ serial' = serial + 1
  <2>1. PICK i \in open, f \in {[id |-> i1, rec |-> serial + 1] : i1 \in open} :
          /\ f = [id |-> i, rec |-> serial + 1]
          /\ open' = open \ {i} /\ unsent' = unsent \cup {f} /\ feed' = Append(feed, f)
          /\ UNCHANGED <<up, last, pending, rows>>
    BY <1>2 DEF Broadcast
  <2>2. /\ IsFiniteSet(open') /\ Cardinality(open') = Cardinality(open) - 1
        /\ Cardinality(open) >= 1
    <3>1. Cardinality(open) # 0
      BY <2>1, FS_EmptySet DEF LogType
    <3>. QED  BY <1>0, <2>1, <3>1, FS_RemoveElement DEF LogType
  <2>3. serial \in Nat /\ serial + 1 \in 1..MaxFrames /\ serial' + Cardinality(open') <= MaxFrames
    BY <1>0, <1>2, <2>2, Bounds DEF LogType
  <2>4. f \in Frame /\ f.id = i /\ f.rec = serial + 1 /\ i \in 1..last /\ last \in Nat
    <3>1. i \in 1..last /\ last \in Nat
      BY <2>1 DEF LogType
    <3>. QED  BY <2>1, <2>3, <3>1, Bounds DEF Frame
  <2>5. /\ feed' \in Seq(Frame) /\ Len(feed') = Len(feed) + 1 /\ Len(feed) \in Nat
        /\ DOMAIN feed = 1..Len(feed) /\ DOMAIN feed' = 1..Len(feed) + 1
        /\ \A k \in DOMAIN feed : feed'[k] = feed[k]
        /\ feed'[Len(feed) + 1] = f
    BY <2>1, <2>4, Appended DEF LogType
  <2>6. \A k \in DOMAIN feed : feed[k].rec \in Nat
    BY Frames, Bounds
  <2>7. \A k \in DOMAIN feed : feed[k].rec # serial + 1
    BY <2>3, <2>6 DEF OneFrame
  <2>8. LogType'
    <3>1. unsent' \subseteq Frame
      BY <2>1, <2>4 DEF LogType
    <3>2. open' \subseteq 1..last' /\ last' = last
      BY <2>1 DEF LogType
    <3>3. \A k \in DOMAIN feed' : feed'[k].id <= last'
      BY <2>4, <2>5, <3>2 DEF LogType
    <3>4. Len(feed') <= serial' /\ serial' \in 0..MaxFrames
      BY <1>2, <2>3, <2>5 DEF LogType
    <3>5. up
      BY <2>1 DEF LogType
    <3>. QED  BY <2>1, <2>2, <2>3, <2>5, <3>1, <3>2, <3>3, <3>4, <3>5 DEF LogType
  <2>9. \A g : (\E k \in DOMAIN feed : g = feed[k]) => \E k \in DOMAIN feed' : g = feed'[k]
    BY <2>5
  <2>10. \E k \in DOMAIN feed' : f = feed'[k]
    BY <2>5
  <2>11. OneFrame'
    <3>1. \A k \in DOMAIN feed' : feed'[k].rec <= serial'
      <4>1. \A k \in DOMAIN feed : feed'[k].rec <= serial + 1
        BY <2>3, <2>5, <2>6 DEF OneFrame
      <4>. QED  BY <1>2, <2>3, <2>4, <2>5, <4>1
    <3>2. \A j, k \in DOMAIN feed' : feed'[j].rec = feed'[k].rec => j = k
      BY <2>4, <2>5, <2>7 DEF OneFrame
    <3>3. \A g \in unsent' : InFeed(g)'
      BY <2>1, <2>9, <2>10 DEF OneFrame, InFeed
    <3>4. \A n \in DOMAIN pending' : InFeed(pending[n])'
      BY <2>1, <2>9 DEF OneFrame, InFeed
    <3>5. \A n \in DOMAIN pending : pending[n].rec # serial + 1
      BY <2>7 DEF OneFrame, InFeed
    <3>6. \A g \in unsent' : \A n \in DOMAIN pending' : pending'[n].rec # g.rec
      BY <2>1, <2>4, <3>5 DEF OneFrame
    <3>. QED  BY <2>1, <3>1, <3>2, <3>3, <3>4, <3>6 DEF OneFrame
  <2>12. OneRow'
    <3>1. \A j \in DOMAIN rows : rows[j] \in Nat /\ rows[j] # serial + 1 /\ rows[j] <= serial + 1
      BY <2>3, Bounds DEF OneRow
    <3>2. \A g \in unsent' : \A j \in DOMAIN rows : rows[j] # g.rec
      BY <2>1, <2>4, <3>1 DEF OneRow
    <3>3. \A j \in DOMAIN rows : \A k \in DOMAIN feed' : rows[j] = feed'[k].rec => feed'[k].id = j
      BY <2>4, <2>5, <3>1 DEF OneRow
    <3>. QED  BY <1>2, <2>1, <3>1, <3>2, <3>3 DEF OneRow
  <2>. QED  BY <2>8, <2>11, <2>12
<1>3. CASE (Accept \/ Overload) /\ UNCHANGED tailVars
  <2>1. PICK f \in unsent :
          /\ unsent' = unsent \ {f}
          /\ pending' = Append(pending, f) \/ pending' = pending
          /\ UNCHANGED <<up, last, open, feed, rows>>
    BY <1>3 DEF Accept, Overload
  <2>2. serial' = serial
    BY <1>3 DEF tailVars
  <2>3. /\ pending' \in Seq(Frame)
        /\ \A n \in DOMAIN pending' : \/ n \in DOMAIN pending /\ pending'[n] = pending[n]
                                      \/ n \notin DOMAIN pending /\ pending'[n] = f
        /\ \A m, n \in DOMAIN pending' : m \notin DOMAIN pending /\ n \notin DOMAIN pending => m = n
    <3>1. f \in Frame /\ pending \in Seq(Frame)
      BY DEF LogType
    <3>2. CASE pending' = Append(pending, f)
      <4>1. /\ pending' \in Seq(Frame) /\ DOMAIN pending = 1..Len(pending)
            /\ DOMAIN pending' = 1..Len(pending) + 1 /\ Len(pending) \in Nat
            /\ \A k \in DOMAIN pending : pending'[k] = pending[k]
            /\ pending'[Len(pending) + 1] = f
        BY <3>1, <3>2, Appended
      <4>. QED  BY <4>1
    <3>3. CASE pending' = pending
      BY <3>1, <3>3
    <3>. QED  BY <2>1, <3>2, <3>3
  <2>4. LogType'
    BY <2>1, <2>2, <2>3 DEF LogType
  <2>5. \A g \in unsent' : g # f /\ g \in unsent /\ g.rec # f.rec
    BY <2>1 DEF OneFrame, InFeed
  <2>6. OneFrame'
    BY <2>1, <2>2, <2>3, <2>5 DEF OneFrame, InFeed
  <2>7. OneRow'
    BY <2>1, <2>2, <2>3 DEF OneRow
  <2>. QED  BY <2>4, <2>6, <2>7
<1>. QED  BY <1>1, <1>2, <1>3 DEF IngestStep

\* A buffer without its first frames has its records as before.
LEMMA Shifted ==
  ASSUME OneFrame, UNCHANGED <<unsent, feed, serial>>, NEW n \in Nat,
         \A m \in DOMAIN pending' :
           m \in Nat \ {0} /\ m + n \in DOMAIN pending /\ pending'[m] = pending[m + n]
  PROVE  OneFrame'
<1>1. \A m, l \in DOMAIN pending' : pending'[m].rec = pending'[l].rec => m = l
  <2>1. ASSUME NEW m \in DOMAIN pending', NEW l \in DOMAIN pending',
               pending'[m].rec = pending'[l].rec
        PROVE  m = l
    <3>1. m + n = l + n
      BY <2>1 DEF OneFrame
    <3>. QED  BY <3>1
  <2>. QED  BY <2>1
<1>2. \A m \in DOMAIN pending' : InFeed(pending[m])'
  BY DEF OneFrame, InFeed
<1>. QED  BY <1>1, <1>2 DEF OneFrame, InFeed

\* The steps of the writer thread.
LEMMA WriterLog ==
  ASSUME LogInv, WriterStep
  PROVE  LogInv'
<1> USE DEF LogInv
<1>1. serial' = serial
  BY DEF WriterStep, tailVars
<1>2. CASE Discard
  <2>1. PICK n \in Nat : \A m \in DOMAIN pending' :
          m \in Nat \ {0} /\ m + n \in DOMAIN pending /\ pending'[m] = pending[m + n]
    BY <1>2, DiscardSteps
  <2>2. pending' \in Seq(Frame) /\ UNCHANGED <<up, last, open, unsent, feed, rows>>
    BY <1>2, DiscardSteps
  <2>3. LogType'
    <3>1. ~up => DOMAIN pending' = {}
      <4>1. ~up => DOMAIN pending = {}
        BY EmptySeq DEF LogType
      <4>. QED  BY <2>1, <4>1
    <3>2. ~up => pending' = <<>>
      BY <2>2, <3>1, EmptySeq, LenProperties
    <3>. QED  BY <1>1, <2>2, <3>2 DEF LogType
  <2>4. OneFrame'
    BY <1>1, <2>1, <2>2, Shifted
  <2>5. OneRow'
    BY <1>1, <2>1, <2>2 DEF OneRow
  <2>. QED  BY <2>3, <2>4, <2>5
<1>3. CASE Persist
  <2>1. PICK n \in Nat :
          /\ \A m \in DOMAIN pending' :
               m \in Nat \ {0} /\ m + n \in DOMAIN pending /\ pending'[m] = pending[m + n]
          /\ DOMAIN rows \subseteq DOMAIN rows'
          /\ \A i \in DOMAIN rows : rows'[i] = rows[i]
          /\ \A i \in DOMAIN rows' \ DOMAIN rows : \E k \in DOMAIN pending :
               k <= n /\ k \in Nat /\ pending[k].id = i /\ rows'[i] = pending[k].rec
    BY <1>3, PersistSteps
  <2>2. pending' \in Seq(Frame) /\ UNCHANGED <<up, last, open, unsent, feed>>
    BY <1>3, PersistSteps
  <2>3. LogType'
    <3>1. ~up => DOMAIN pending' = {}
      <4>1. ~up => DOMAIN pending = {}
        BY EmptySeq DEF LogType
      <4>. QED  BY <2>1, <4>1
    <3>2. ~up => pending' = <<>>
      BY <2>2, <3>1, EmptySeq, LenProperties
    <3>. QED  BY <1>1, <2>2, <3>2 DEF LogType
  <2>4. OneFrame'
    BY <1>1, <2>1, <2>2, Shifted
  <2>5. \A i \in DOMAIN rows' \ DOMAIN rows : \E k \in DOMAIN feed :
          i = feed[k].id /\ rows'[i] = feed[k].rec
    BY <2>1 DEF OneFrame, InFeed
  <2>6. \A k \in DOMAIN feed : feed[k].id \in 1..last /\ feed[k].rec \in Records
    BY Frames DEF LogType
  <2>7. DOMAIN rows' \subseteq 1..last'
    BY <2>2, <2>5, <2>6 DEF OneRow
  <2>8. \A i \in DOMAIN rows' : rows'[i] \in Records /\ rows'[i] <= serial
    BY <2>1, <2>5, <2>6 DEF OneRow, OneFrame
  <2>9. \A i, j \in DOMAIN rows' : rows'[i] = rows'[j] => i = j
    <3>1. ASSUME NEW i \in DOMAIN rows', NEW j \in DOMAIN rows', rows'[i] = rows'[j],
                 i \in DOMAIN rows
          PROVE  i = j
      BY <2>1, <3>1 DEF OneRow
    <3>2. ASSUME NEW i \in DOMAIN rows', NEW j \in DOMAIN rows', rows'[i] = rows'[j],
                 i \notin DOMAIN rows, j \notin DOMAIN rows
          PROVE  i = j
      BY <2>5, <3>2 DEF OneFrame
    <3>. QED  BY <3>1, <3>2
  <2>10. \A f \in unsent : \A i \in DOMAIN rows' : rows'[i] # f.rec
    BY <2>1 DEF OneRow, OneFrame
  <2>11. \A m \in DOMAIN pending' : \A i \in DOMAIN rows' : rows'[i] # pending'[m].rec
    <3>1. ASSUME NEW m \in DOMAIN pending', NEW i \in DOMAIN rows', rows'[i] = pending'[m].rec
          PROVE  FALSE
      <4>1. m \in Nat \ {0} /\ m + n \in DOMAIN pending /\ rows'[i] = pending[m + n].rec
        BY <2>1, <3>1
      <4>2. i \notin DOMAIN rows
        BY <2>1, <4>1 DEF OneRow
      <4>3. PICK k \in DOMAIN pending : k <= n /\ k \in Nat /\ rows'[i] = pending[k].rec
        BY <2>1, <4>2
      <4>4. k = m + n
        BY <4>1, <4>3 DEF OneFrame
      <4>. QED  BY <4>1, <4>3, <4>4
    <3>. QED  BY <3>1
  <2>12. \A i \in DOMAIN rows' : \A k \in DOMAIN feed : rows'[i] = feed[k].rec => feed[k].id = i
    BY <2>1, <2>5 DEF OneRow, OneFrame
  <2>13. OneRow'
    BY <1>1, <2>2, <2>7, <2>8, <2>9, <2>10, <2>11, <2>12 DEF OneRow
  <2>. QED  BY <2>3, <2>4, <2>13
<1>4. CASE Forget
  <2>1. /\ UNCHANGED <<up, last, open, unsent, feed, pending>>
        /\ DOMAIN rows' \subseteq DOMAIN rows /\ \A i \in DOMAIN rows' : rows'[i] = rows[i]
    BY <1>4, ForgetSteps
  <2>2. LogType' /\ OneFrame'
    BY <1>1, <2>1 DEF LogType, OneFrame, InFeed
  <2>3. OneRow'
    BY <1>1, <2>1 DEF OneRow
  <2>. QED  BY <2>2, <2>3
<1>. QED  BY <1>2, <1>3, <1>4 DEF WriterStep

\* The end of the process and its next start.
LEMMA LifeLog ==
  ASSUME LogInv, Stop \/ Start
  PROVE  LogInv'
<1> USE DEF LogInv
<1>1. <<>> \in Seq(Frame) /\ Len(<<>>) = 0 /\ DOMAIN <<>> = {}
  BY EmptySeq
<1>2. IsFiniteSet({}) /\ Cardinality({}) = 0 /\ Cardinality(open) \in Nat
  BY FS_EmptySet, FS_CardinalityType DEF LogType
<1>3. CASE Stop
  <2>1. /\ up' = FALSE /\ open' = {} /\ unsent' = {} /\ feed' = <<>> /\ pending' = <<>>
        /\ UNCHANGED <<last, rows, serial>>
    BY <1>3 DEF Stop, Halt
  <2>2. LogType'
    <3>1. serial + 0 <= MaxFrames /\ last \in 0..MaxFrames /\ serial \in 0..MaxFrames
      BY <1>2 DEF LogType
    <3>2. Len(<<>>) <= serial
      BY <1>1, <3>1
    <3>. QED  BY <1>1, <1>2, <2>1, <3>1, <3>2 DEF LogType
  <2>. QED  BY <1>1, <2>1, <2>2 DEF OneFrame, OneRow
<1>4. CASE Start
  <2>1. UNCHANGED <<open, unsent, feed, pending, rows, serial>> /\ ~up /\ up' = TRUE
    BY <1>4 DEF Start, Resume
  <2>2. PICK m \in DOMAIN rows \cup {0} : (\A i \in DOMAIN rows : i <= m) /\ last' = m
    BY <1>4 DEF Start, Resume
  <2>3. open = {} /\ DOMAIN feed = {}
    BY <1>1, <2>1 DEF LogType
  <2>4. m \in 0..last /\ last \in 0..MaxFrames
    BY <2>2 DEF LogType, OneRow
  <2>5. LogType'
    <3>1. last' \in 0..MaxFrames
      BY <2>2, <2>4, Bounds
    <3>. QED  BY <2>1, <2>3, <3>1 DEF LogType
  <2>6. OneFrame'
    BY <2>1 DEF OneFrame, InFeed
  <2>7. OneRow'
    <3>1. DOMAIN rows \subseteq 1..m
      BY <2>2, <2>4 DEF OneRow
    <3>. QED  BY <2>1, <2>2, <3>1 DEF OneRow
  <2>. QED  BY <2>5, <2>6, <2>7
<1>. QED  BY <1>3, <1>4

\* Only the handlers, the writer and the life of the process touch the log.
LEMMA LogNext ==
  ASSUME LogInv, [Next]_vars
  PROVE  LogInv'
<1>1. ASSUME UNCHANGED <<up, last, open, unsent, feed, pending, rows, serial>>  PROVE LogInv'
  BY <1>1 DEF LogInv, LogType, OneFrame, InFeed, OneRow
<1>2. ASSUME Signal \/ UNCHANGED vars
             \/ \E c \in Clients : Open(c) \/ Serve(c) \/ Drop(c) \/ Stall(c) \/ ReadOn(c)
      PROVE  LogInv'
  BY <1>1, <1>2 DEF vars, tailVars, feedVars, Signal, Open, Serve, Query, SendReplay, EndOnShutdown,
                    Deliver, Skip, Evict, Drop, Stall, ReadOn
<1>. QED  BY <1>2, IngestLog, WriterLog, LifeLog DEF Next

----------------------------------------------------------------------------
(* Types of the connections.                                               *)

Line == [id : 1..MaxFrames, rec : Records]

ConnType ==
  /\ setting \in Settings
  /\ phase \in [Clients -> {"off", "query", "live"}]
  /\ pos \in [Clients -> 1..MaxFrames + 1]
  /\ high \in [Clients -> 0..MaxFrames]
  /\ outbox \in [Clients -> SUBSET Line]
  /\ reading \in [Clients -> BOOLEAN]
  /\ closing \in BOOLEAN
  /\ lastId \in [Clients -> 0..MaxFrames]
  /\ got \in [Clients -> Seq(Records)]
  /\ base \in [Clients -> Nat]
  /\ \A c \in Clients : base[c] <= Len(got[c])
  /\ due \in [Clients -> SUBSET Records]
  /\ conns \in [Clients -> 0..MaxConns]
  /\ restarts \in 0..MaxRestarts + 1

\* A bounded set of numbers that is not empty has a greatest member.
LEMMA HasMax ==
  ASSUME NEW S \in SUBSET Nat, S # {}, NEW n \in Nat, \A i \in S : i <= n
  PROVE  \E m \in S : \A i \in S : i <= m
<1> DEFINE T == {n - i : i \in S}
<1>1. T \in SUBSET Nat
  <2>1. \A i \in S : n - i \in Nat
    OBVIOUS
  <2>. QED  BY <2>1
<1>2. T # {}
  OBVIOUS
<1>3. PICK t \in T : \A u \in T : ~ (<<u, t>> \in OpToRel(<, Nat))
  <2>. HIDE DEF T
  <2>. QED  BY <1>1, <1>2, NatLessThanWellFounded, WFMin
<1>4. PICK m \in S : t = n - m
  OBVIOUS
<1>5. ASSUME NEW i \in S  PROVE i <= m
  <2>1. n - i \in Nat /\ n - m \in Nat /\ n - i \in T
    OBVIOUS
  <2>2. ~ (<<n - i, n - m>> \in OpToRel(<, Nat))
    BY <1>3, <1>4, <2>1
  <2>3. ~ (n - i < n - m)
    BY <2>1, <2>2 DEF OpToRel
  <2>. QED  BY <2>1, <2>3
<1>. QED  BY <1>5

\* The high-water mark is the highest of the ids replayed and of Last-Event-ID.
LEMMA HighWaterMax ==
  ASSUME LogInv, NEW after \in 0..MaxFrames, NEW ids \in SUBSET DOMAIN rows
  PROVE  /\ HighWater(after, ids) \in ids \cup {after}
         /\ HighWater(after, ids) \in 0..MaxFrames
         /\ \A i \in ids \cup {after} : i <= HighWater(after, ids)
<1>1. \A i \in ids \cup {after} : i \in 0..MaxFrames
  BY Bounds DEF LogInv, LogType, OneRow
<1>2. \E m \in ids \cup {after} : \A i \in ids \cup {after} : i <= m
  <2> DEFINE S == ids \cup {after}
  <2>1. S \in SUBSET Nat /\ S # {} /\ MaxFrames \in Nat /\ \A i \in S : i <= MaxFrames
    BY <1>1, Bounds
  <2>. HIDE DEF S
  <2>2. \E m \in S : \A i \in S : i <= m
    BY <2>1, HasMax
  <2>. QED  BY <2>2 DEF S
<1>. QED  BY <1>1, <1>2 DEF HighWater

LEMMA ConnTypeInit == Init => ConnType
<1> SUFFICES ASSUME Init PROVE ConnType
  OBVIOUS
<1>1. <<>> \in Seq(Records) /\ Len(<<>>) = 0
  BY EmptySeq
<1>2. 0 \in 0..MaxFrames /\ 1 \in 1..MaxFrames + 1 /\ 0 \in 0..MaxConns /\ 0 \in 0..MaxRestarts + 1
  BY Bounds
<1>3. \A c \in Clients : base[c] <= Len(got[c])
  BY <1>1 DEF Init, TailInit
<1>. QED  BY <1>1, <1>2, <1>3 DEF Init, TailInit, ConnType

\* The frame a receiver is at.
LEMMA AtFrame ==
  ASSUME LogInv, ConnType, NEW c \in Clients, Receiving(c)
  PROVE  /\ pos[c] \in DOMAIN feed /\ pos[c] + 1 \in 1..MaxFrames + 1
         /\ feed[pos[c]].id \in 1..MaxFrames /\ feed[pos[c]].rec \in Records
<1>1. pos[c] \in 1..Len(feed) /\ Len(feed) \in 0..MaxFrames /\ MaxFrames \in Nat
  BY Frames, Bounds DEF Receiving, ConnType, LogInv, LogType
<1>2. pos[c] \in DOMAIN feed /\ last \in 0..MaxFrames
  BY <1>1, Frames DEF LogInv, LogType
<1>3. feed[pos[c]].id \in Nat \ {0} /\ feed[pos[c]].id <= last /\ feed[pos[c]].rec \in Records
  BY <1>2, Frames DEF LogInv, LogType
<1>. QED  BY <1>1, <1>2, <1>3

\* What the client is sent is a line.
LEMMA WriteType ==
  ASSUME ConnType, NEW c \in Clients, NEW f, f.id \in 1..MaxFrames, f.rec \in Records, Write(c, f)
  PROVE  /\ got' \in [Clients -> Seq(Records)] /\ lastId' \in [Clients -> 0..MaxFrames]
         /\ got'[c] = Append(got[c], f.rec) /\ Len(got'[c]) = Len(got[c]) + 1
         /\ \A d \in Clients : base[d] <= Len(got'[d])
         /\ \A d \in Clients \ {c} : got'[d] = got[d] /\ lastId'[d] = lastId[d]
         /\ lastId'[c] = f.id
<1>1. got[c] \in Seq(Records) /\ base[c] \in Nat /\ base[c] <= Len(got[c])
  BY DEF ConnType
<1>2. /\ Append(got[c], f.rec) \in Seq(Records) /\ Len(Append(got[c], f.rec)) = Len(got[c]) + 1
      /\ Len(got[c]) \in Nat
  BY <1>1, Appended
<1>3. got' = [got EXCEPT ![c] = Append(got[c], f.rec)] /\ lastId' = [lastId EXCEPT ![c] = f.id]
  BY DEF Write
<1>4. got' \in [Clients -> Seq(Records)] /\ lastId' \in [Clients -> 0..MaxFrames]
  BY <1>2, <1>3 DEF ConnType
<1>5. /\ got'[c] = Append(got[c], f.rec) /\ lastId'[c] = f.id
      /\ \A d \in Clients \ {c} : got'[d] = got[d] /\ lastId'[d] = lastId[d]
  BY <1>3 DEF ConnType
<1>6. \A d \in Clients : base[d] <= Len(got'[d])
  <2>1. base[c] <= Len(got'[c])
    BY <1>1, <1>2, <1>5
  <2>2. \A d \in Clients \ {c} : base[d] <= Len(got'[d])
    BY <1>5 DEF ConnType
  <2>. QED  BY <2>1, <2>2
<1>. QED  BY <1>2, <1>4, <1>5, <1>6

\* The steps of a connection keep the types.
LEMMA ClientTypes ==
  ASSUME LogInv, ConnType, NEW c \in Clients,
         Open(c) \/ Serve(c) \/ Drop(c) \/ Stall(c) \/ ReadOn(c)
  PROVE  ConnType'
<1>1. CASE Open(c)
  <2>1. Len(feed) + 1 \in 1..MaxFrames + 1 /\ Len(got[c]) \in Nat
    BY Frames, Bounds, LenProperties DEF LogInv, LogType, ConnType
  <2>2. /\ base' = [base EXCEPT ![c] = Len(got[c])] /\ conns' = [conns EXCEPT ![c] = conns[c] + 1]
        /\ conns[c] < MaxConns /\ pos' = [pos EXCEPT ![c] = Len(feed) + 1]
        /\ phase' = [phase EXCEPT ![c] = "query"] /\ reading' = [reading EXCEPT ![c] = TRUE]
        /\ UNCHANGED <<setting, high, outbox, closing, lastId, got, due, restarts>>
    BY <1>1 DEF Open
  <2>3. conns' \in [Clients -> 0..MaxConns] /\ base' \in [Clients -> Nat]
    BY <2>1, <2>2, Bounds DEF ConnType
  <2>4. \A d \in Clients : base'[d] <= Len(got'[d])
    BY <2>1, <2>2 DEF ConnType
  <2>5. pos' \in [Clients -> 1..MaxFrames + 1]
    BY <2>1, <2>2 DEF ConnType
  <2>. QED  BY <2>2, <2>3, <2>4, <2>5 DEF ConnType
<1>2. CASE Query(c)
  <2>1. PICK ids \in SUBSET DOMAIN rows :
          /\ outbox' = [outbox EXCEPT ![c] = {[id |-> i, rec |-> rows[i]] : i \in ids}]
          /\ high' = [high EXCEPT ![c] = HighWater(lastId[c], ids)]
    BY <1>2 DEF Query, SinceId
  <2>2. {[id |-> i, rec |-> rows[i]] : i \in ids} \subseteq Line
    BY Bounds DEF Line, LogInv, LogType, OneRow
  <2>3. HighWater(lastId[c], ids) \in 0..MaxFrames
    BY HighWaterMax DEF ConnType
  <2>4. outbox' \in [Clients -> SUBSET Line] /\ high' \in [Clients -> 0..MaxFrames]
    BY <2>1, <2>2, <2>3 DEF ConnType
  <2>. QED  BY <1>2, <2>4 DEF Query, ConnType
<1>3. CASE SendReplay(c)
  <2>1. PICK f \in outbox[c] : outbox' = [outbox EXCEPT ![c] = outbox[c] \ {f}] /\ Write(c, f)
    BY <1>3 DEF SendReplay
  <2>2. f.id \in 1..MaxFrames /\ f.rec \in Records
    BY DEF ConnType, Line
  <2>3. outbox' \in [Clients -> SUBSET Line]
    BY <2>1 DEF ConnType
  <2>. QED  BY <1>3, <2>1, <2>2, <2>3, WriteType DEF SendReplay, ConnType
<1>4. CASE Deliver(c)
  <2>1. pos' \in [Clients -> 1..MaxFrames + 1]
    BY <1>4, AtFrame DEF Deliver, ConnType
  <2>2. /\ got' \in [Clients -> Seq(Records)] /\ lastId' \in [Clients -> 0..MaxFrames]
        /\ \A d \in Clients : base[d] <= Len(got'[d])
    BY <1>4, AtFrame, WriteType DEF Deliver
  <2>. QED  BY <1>4, <2>1, <2>2 DEF Deliver, ConnType
<1>5. CASE Skip(c)
  <2>1. pos' \in [Clients -> 1..MaxFrames + 1]
    BY <1>5, AtFrame DEF Skip, ConnType
  <2>. QED  BY <1>5, <2>1 DEF Skip, ConnType
<1>6. CASE EndOnShutdown(c) \/ Evict(c)
  BY <1>6 DEF EndOnShutdown, Evict, CloseStream, ConnType
<1>7. CASE Drop(c)
  BY <1>7 DEF Drop, ConnType
<1>8. CASE Stall(c) \/ ReadOn(c)
  BY <1>8 DEF Stall, ReadOn, connVars, ConnType
<1>. QED  BY <1>1, <1>2, <1>3, <1>4, <1>5, <1>6, <1>7, <1>8 DEF Serve

LEMMA ConnTypeNext ==
  ASSUME LogInv, ConnType, [Next]_vars
  PROVE  ConnType'
<1>1. ASSUME UNCHANGED tailVars  PROVE ConnType'
  BY <1>1 DEF tailVars, connVars, ConnType
<1>2. ASSUME IngestStep, ~UNCHANGED tailVars  PROVE ConnType'
  <2>1. /\ Broadcast(serial + 1) /\ serial' = serial + 1
        /\ due' = [c \in Clients |->
                     IF lastId[c] \in 1..feed'[Len(feed')].id - 1 THEN due[c] \cup {serial + 1}
                                                                 ELSE due[c]]
        /\ UNCHANGED <<setting, connVars, reading, closing, lastId, got, conns, restarts>>
    BY <1>2 DEF IngestStep
  <2>2. serial + 1 \in Records
    <3>1. LogInv' /\ serial \in Nat
      BY <1>2, IngestLog DEF LogInv, LogType
    <3>2. serial' \in 0..MaxFrames
      BY <3>1 DEF LogInv, LogType
    <3>. QED  BY <2>1, <3>1, <3>2, Bounds
  <2>3. due' \in [Clients -> SUBSET Records]
    BY <2>1, <2>2 DEF ConnType
  <2>. QED  BY <2>1, <2>3 DEF connVars, ConnType
<1>3. CASE Stop
  BY <1>3 DEF Stop, ConnType
<1>4. CASE Start
  <2>1. restarts' \in 0..MaxRestarts + 1
    BY <1>4, Bounds DEF Start, ConnType
  <2>. QED  BY <1>4, <2>1 DEF Start, connVars, ConnType
<1>5. CASE Signal
  BY <1>5 DEF Signal, connVars, ConnType
<1>. QED  BY <1>1, <1>2, <1>3, <1>4, <1>5, ClientTypes DEF Next, WriterStep, vars

----------------------------------------------------------------------------
(* One connection.                                                         *)

Here(c) == base[c] + 1 .. Len(got[c])  \* what the client got on this connection

\* What is still to be replayed is known to the log under the same id, was not
\* sent on this connection, and is within the high-water mark.
ReplayInv(c) ==
  \A f \in outbox[c] :
    /\ f.id <= high[c] /\ f.rec <= serial
    /\ \A k \in DOMAIN feed : feed[k].rec = f.rec => feed[k].id = f.id
    /\ \A i \in DOMAIN rows : rows[i] = f.rec => i = f.id
    /\ \A j \in Here(c) : got[c][j] # f.rec
    /\ \A g \in outbox[c] : f.rec = g.rec \/ f.id = g.id => f = g

\* A frame still to come that the client has got on this connection will be
\* skipped: its id is within the high-water mark.
LiveInv(c) ==
  phase[c] = "live" =>
    \A j \in Here(c), k \in DOMAIN feed :
      k >= pos[c] /\ feed[k].rec = got[c][j] => feed[k].id <= high[c]

PlaceInv(c) ==
  /\ phase[c] # "live" => outbox[c] = {}
  /\ phase[c] = "query" => base[c] = Len(got[c])
  /\ phase[c] # "off" => up /\ pos[c] <= Len(feed) + 1
  /\ \A j \in 1..Len(got[c]) : got[c][j] <= serial
  /\ \A j, k \in Here(c) : got[c][j] = got[c][k] => j = k

ConnInv(c) == PlaceInv(c) /\ ReplayInv(c) /\ LiveInv(c)
AllConns == \A c \in Clients : ConnInv(c)

\* What the server holds of a connection, and the client of its lines.
AtClient(c) == <<phase[c], pos[c], high[c], outbox[c], base[c], got[c], lastId[c]>>

LEMMA ConnSame ==
  ASSUME NEW c \in Clients, ConnInv(c), AtClient(c)' = AtClient(c),
         UNCHANGED <<up, feed, rows, serial>>
  PROVE  ConnInv(c)'
<1>1. /\ phase'[c] = phase[c] /\ pos'[c] = pos[c] /\ high'[c] = high[c] /\ outbox'[c] = outbox[c]
      /\ base'[c] = base[c] /\ got'[c] = got[c]
  BY DEF AtClient
<1>2. Here(c)' = Here(c)
  BY <1>1 DEF Here
<1>3. PlaceInv(c)'
  BY <1>1, <1>2 DEF ConnInv, PlaceInv
<1>4. ReplayInv(c)'
  BY <1>1, <1>2 DEF ConnInv, ReplayInv
<1>5. LiveInv(c)'
  BY <1>1, <1>2 DEF ConnInv, LiveInv
<1>. QED  BY <1>3, <1>4, <1>5 DEF ConnInv

\* A client's step is its own connection's.
LEMMA OthersSame ==
  ASSUME ConnType, NEW c \in Clients, NEW d \in Clients \ {c},
         Open(c) \/ Serve(c) \/ Drop(c) \/ Stall(c) \/ ReadOn(c)
  PROVE  AtClient(d)' = AtClient(d)
<1> USE DEF Open, Serve, Query, SendReplay, EndOnShutdown, Deliver, Skip, Evict, CloseStream, Drop,
            Stall, ReadOn, Write, connVars
<1>1. phase'[d] = phase[d]
  BY DEF ConnType
<1>2. pos'[d] = pos[d]
  BY DEF ConnType
<1>3. high'[d] = high[d]
  BY DEF ConnType
<1>4. outbox'[d] = outbox[d]
  BY DEF ConnType
<1>5. base'[d] = base[d]
  BY DEF ConnType
<1>6. got'[d] = got[d] /\ lastId'[d] = lastId[d]
  BY DEF ConnType
<1>. QED  BY <1>1, <1>2, <1>3, <1>4, <1>5, <1>6 DEF AtClient

\* What a client got, by number.
LEMMA Numbers ==
  ASSUME LogInv, ConnType, NEW c \in Clients
  PROVE  /\ serial \in Nat /\ Len(feed) \in Nat /\ DOMAIN feed = 1..Len(feed)
         /\ Len(got[c]) \in Nat /\ base[c] \in 0..Len(got[c])
         /\ pos[c] \in Nat \ {0} /\ high[c] \in Nat /\ lastId[c] \in Nat
         /\ \A j \in 1..Len(got[c]) : got[c][j] \in Nat
         /\ \A j \in Here(c) : j \in 1..Len(got[c])
<1>1. serial \in Nat
  BY Bounds DEF LogInv, LogType
<1>2. Len(feed) \in Nat /\ DOMAIN feed = 1..Len(feed)
  BY Frames DEF LogInv
<1>3. got[c] \in Seq(Records) /\ base[c] \in Nat /\ base[c] <= Len(got[c])
  BY DEF ConnType
<1>4. Len(got[c]) \in Nat /\ \A j \in 1..Len(got[c]) : got[c][j] \in Nat
  BY <1>3, LenProperties, ElementOfSeq, Bounds
<1>5. pos[c] \in Nat \ {0} /\ high[c] \in Nat /\ lastId[c] \in Nat
  BY Bounds DEF ConnType
<1>. QED  BY <1>1, <1>2, <1>3, <1>4, <1>5 DEF Here

LEMMA BroadcastFrame ==
  ASSUME LogInv, Broadcast(serial + 1)
  PROVE  \E f \in Frame : f.rec = serial + 1 /\ feed' = Append(feed, f) /\ UNCHANGED <<up, rows>>
<1>1. PICK i \in open :
        /\ feed' = Append(feed, [id |-> i, rec |-> serial + 1]) /\ UNCHANGED <<up, rows>>
        /\ open' = open \ {i}
  BY DEF Broadcast
<1>2. serial \in Nat /\ serial + 1 <= MaxFrames
  <2>1. Cardinality(open) \in Nat /\ Cardinality(open) # 0
    BY <1>1, FS_CardinalityType, FS_EmptySet DEF LogInv, LogType
  <2>. QED  BY <2>1, Bounds DEF LogInv, LogType
<1>3. [id |-> i, rec |-> serial + 1] \in Frame
  <2>1. i \in Nat \ {0}
    BY DEF LogInv, LogType
  <2>. QED  BY <1>2, <2>1, Bounds DEF Frame
<1>. QED  BY <1>1, <1>3

\* A new record is one no client has got, and no frame of a replay.
LEMMA BroadcastConns ==
  ASSUME LogInv, ConnType, AllConns, NEW c \in Clients,
         Broadcast(serial + 1), serial' = serial + 1, UNCHANGED <<connVars, got, lastId>>
  PROVE  ConnInv(c)'
<1>1. PICK f \in Frame :
        f.rec = serial + 1 /\ feed' = Append(feed, f) /\ UNCHANGED <<up, rows>>
  BY BroadcastFrame
<1>2. /\ Len(feed') = Len(feed) + 1 /\ Len(feed) \in Nat
      /\ DOMAIN feed = 1..Len(feed) /\ DOMAIN feed' = 1..Len(feed) + 1
      /\ \A k \in DOMAIN feed : feed'[k] = feed[k]
      /\ feed'[Len(feed) + 1] = f
  BY <1>1, Appended DEF LogInv, LogType
<1>3. /\ phase' = phase /\ pos' = pos /\ high' = high /\ outbox' = outbox /\ base' = base
      /\ got' = got /\ Here(c)' = Here(c)
  BY DEF connVars, Here
<1>4. serial \in Nat /\ Len(got[c]) \in Nat /\ base[c] \in Nat /\ pos[c] \in Nat
      /\ \A j \in 1..Len(got[c]) : got[c][j] \in Nat
  BY Numbers
<1>5. ConnInv(c)
  BY DEF AllConns
<1>6. \A j \in Here(c) : j \in 1..Len(got[c])
  BY Numbers
<1>7. \A g \in outbox[c] : g.rec \in Nat
  BY Bounds DEF ConnType, Line
<1>8. PlaceInv(c)'
  <2>1. \A j \in 1..Len(got[c]) : got[c][j] <= serial + 1
    BY <1>4, <1>5 DEF ConnInv, PlaceInv
  <2>2. pos[c] <= Len(feed) + 1 => pos[c] <= Len(feed') + 1
    BY <1>2, <1>4
  <2>. QED  BY <1>1, <1>3, <1>5, <2>1, <2>2 DEF ConnInv, PlaceInv
<1>9. ReplayInv(c)'
  <2>1. ASSUME NEW g \in outbox[c]
        PROVE  /\ g.rec <= serial' /\ g.id <= high[c]
               /\ \A k \in DOMAIN feed' : feed'[k].rec = g.rec => feed'[k].id = g.id
               /\ \A i \in DOMAIN rows : rows[i] = g.rec => i = g.id
               /\ \A j \in Here(c) : got[c][j] # g.rec
               /\ \A h \in outbox[c] : g.rec = h.rec \/ g.id = h.id => g = h
    <3>1. g.rec <= serial /\ g.rec # serial + 1 /\ g.rec <= serial'
      BY <1>4, <1>5, <1>7, <2>1 DEF ConnInv, ReplayInv
    <3>. QED  BY <1>1, <1>2, <1>5, <2>1, <3>1 DEF ConnInv, ReplayInv
  <2>. QED  BY <1>1, <1>3, <2>1 DEF ReplayInv
<1>10. LiveInv(c)'
  <2>1. \A j \in Here(c) : got[c][j] # serial + 1
    BY <1>4, <1>5, <1>6 DEF ConnInv, PlaceInv
  <2>. QED  BY <1>1, <1>2, <1>3, <1>5, <2>1 DEF ConnInv, LiveInv
<1>. QED  BY <1>8, <1>9, <1>10 DEF ConnInv

\* A new row is a frame of the feed under its own id.
LEMMA RowsFromFeed ==
  ASSUME LogInv, Persist \/ Forget
  PROVE  /\ UNCHANGED <<up, last, open, unsent, feed>>
         /\ \A i \in DOMAIN rows' :
              \/ i \in DOMAIN rows /\ rows'[i] = rows[i]
              \/ \E k \in DOMAIN feed : i = feed[k].id /\ rows'[i] = feed[k].rec
<1>1. CASE Persist
  BY <1>1, PersistSteps DEF LogInv, OneFrame, InFeed
<1>2. CASE Forget
  BY <1>2, ForgetSteps
<1>. QED  BY <1>1, <1>2

LEMMA RowsConns ==
  ASSUME LogInv, ConnType, AllConns, NEW c \in Clients, Persist \/ Forget, UNCHANGED tailVars
  PROVE  ConnInv(c)'
<1>1. /\ UNCHANGED <<up, feed, serial>>
      /\ phase' = phase /\ pos' = pos /\ high' = high /\ outbox' = outbox /\ base' = base
      /\ got' = got /\ Here(c)' = Here(c)
  BY RowsFromFeed DEF tailVars, connVars, Here
<1>2. \A i \in DOMAIN rows' : \/ i \in DOMAIN rows /\ rows'[i] = rows[i]
                              \/ \E k \in DOMAIN feed : i = feed[k].id /\ rows'[i] = feed[k].rec
  BY RowsFromFeed
<1>3. ConnInv(c)
  BY DEF AllConns
<1>4. PlaceInv(c)' /\ LiveInv(c)'
  BY <1>1, <1>3 DEF ConnInv, PlaceInv, LiveInv
<1>5. \A f \in outbox[c] : \A i \in DOMAIN rows' : rows'[i] = f.rec => i = f.id
  BY <1>2, <1>3 DEF ConnInv, ReplayInv
<1>6. ReplayInv(c)'
  BY <1>1, <1>3, <1>5 DEF ConnInv, ReplayInv
<1>. QED  BY <1>4, <1>6 DEF ConnInv

\* A line that is sent: the client has it last, on this connection.
LEMMA Sent ==
  ASSUME LogInv, ConnType, NEW c \in Clients, NEW f, f.id \in 1..MaxFrames, f.rec \in Records,
         Write(c, f), base' = base
  PROVE  /\ Here(c)' = Here(c) \cup {Len(got[c]) + 1} /\ Len(got[c]) + 1 \notin Here(c)
         /\ Len(got'[c]) = Len(got[c]) + 1
         /\ \A j \in 1..Len(got[c]) : got'[c][j] = got[c][j]
         /\ got'[c][Len(got[c]) + 1] = f.rec
         /\ lastId'[c] = f.id
<1>1. got'[c] = Append(got[c], f.rec) /\ Len(got'[c]) = Len(got[c]) + 1 /\ lastId'[c] = f.id
  BY WriteType
<1>2. Len(got[c]) \in Nat /\ base[c] \in 0..Len(got[c])
  BY Numbers
<1>3. /\ \A j \in 1..Len(got[c]) : got'[c][j] = got[c][j]
      /\ got'[c][Len(got[c]) + 1] = f.rec
  BY <1>1, Appended DEF ConnType
<1>4. Here(c)' = base[c] + 1 .. Len(got[c]) + 1
  BY <1>1 DEF Here
<1>. QED  BY <1>1, <1>2, <1>3, <1>4 DEF Here

\* A connection begins with nothing sent and, once the query is done, with rows
\* to replay of which none is above the high-water mark.
LEMMA OpenConn ==
  ASSUME LogInv, ConnType, NEW c \in Clients, ConnInv(c), Open(c)
  PROVE  ConnInv(c)'
<1>1. /\ phase'[c] = "query" /\ pos'[c] = Len(feed) + 1 /\ base'[c] = Len(got[c])
      /\ UNCHANGED <<feed, rows, up, serial, high, outbox, got>> /\ up /\ phase[c] = "off"
  BY DEF Open, ConnType, feedVars
<1>2. Here(c)' = {}
  <2>1. Here(c)' = Len(got[c]) + 1 .. Len(got[c])
    BY <1>1 DEF Here
  <2>. QED  BY <2>1, Numbers
<1>3. outbox'[c] = {}
  BY <1>1 DEF ConnInv, PlaceInv
<1>4. PlaceInv(c)'
  BY <1>1, <1>2, <1>3, Numbers DEF ConnInv, PlaceInv
<1>5. ReplayInv(c)' /\ LiveInv(c)'
  BY <1>1, <1>3 DEF ReplayInv, LiveInv
<1>. QED  BY <1>4, <1>5 DEF ConnInv

LEMMA QueryConn ==
  ASSUME LogInv, ConnType, NEW c \in Clients, ConnInv(c), Query(c)
  PROVE  ConnInv(c)'
<1>1. PICK ids \in SUBSET DOMAIN rows :
        /\ outbox' = [outbox EXCEPT ![c] = {[id |-> i, rec |-> rows[i]] : i \in ids}]
        /\ high' = [high EXCEPT ![c] = HighWater(lastId[c], ids)]
  BY DEF Query, SinceId
<1>2. /\ phase'[c] = "live" /\ UNCHANGED <<feed, rows, up, serial, pos, base, got>>
      /\ phase[c] = "query" /\ outbox'[c] = {[id |-> i, rec |-> rows[i]] : i \in ids}
      /\ high'[c] = HighWater(lastId[c], ids)
  BY <1>1 DEF Query, ConnType, feedVars
<1>3. \A i \in ids : i <= high'[c]
  <2>1. lastId[c] \in 0..MaxFrames /\ ids \in SUBSET DOMAIN rows
    BY DEF ConnType
  <2>2. \A i \in ids : i <= HighWater(lastId[c], ids)
    BY <2>1, HighWaterMax
  <2>. QED  BY <1>2, <2>2
<1>4. Here(c)' = {}
  <2>1. Here(c)' = Len(got[c]) + 1 .. Len(got[c])
    BY <1>2 DEF Here, ConnInv, PlaceInv
  <2>. QED  BY <2>1, Numbers
<1>5. PlaceInv(c)'
  BY <1>2, <1>4 DEF ConnInv, PlaceInv
<1>6. ReplayInv(c)'
  <2>1. \A f \in outbox'[c] : \E i \in ids :
          f.id = i /\ f.rec = rows[i] /\ f = [id |-> i, rec |-> rows[i]]
    BY <1>2
  <2>2. ASSUME NEW f \in outbox'[c]
        PROVE  /\ f.id <= high'[c] /\ f.rec <= serial
               /\ \A k \in DOMAIN feed : feed[k].rec = f.rec => feed[k].id = f.id
               /\ \A i \in DOMAIN rows : rows[i] = f.rec => i = f.id
               /\ \A g \in outbox'[c] : f.rec = g.rec \/ f.id = g.id => f = g
    <3>1. PICK i \in ids : f.id = i /\ f.rec = rows[i] /\ f = [id |-> i, rec |-> rows[i]]
      BY <2>1
    <3>2. \A g \in outbox'[c] : f.rec = g.rec \/ f.id = g.id => f = g
      BY <2>1, <3>1 DEF LogInv, OneRow
    <3>. QED  BY <1>3, <3>1, <3>2 DEF LogInv, OneRow
  <2>. QED  BY <1>2, <1>4, <2>2 DEF ReplayInv
<1>7. LiveInv(c)'
  BY <1>4 DEF LiveInv
<1>. QED  BY <1>5, <1>6, <1>7 DEF ConnInv

\* A line of the replay was not sent before, and its frame will be skipped.
LEMMA ReplayConn ==
  ASSUME LogInv, ConnType, NEW c \in Clients, ConnInv(c), SendReplay(c)
  PROVE  ConnInv(c)'
<1>1. PICK f \in outbox[c] : outbox' = [outbox EXCEPT ![c] = outbox[c] \ {f}] /\ Write(c, f)
  BY DEF SendReplay
<1>2. /\ phase[c] = "live" /\ UNCHANGED <<feed, rows, up, serial, phase, pos, high, base>>
      /\ outbox'[c] = outbox[c] \ {f}
  BY <1>1 DEF SendReplay, Polled, ConnType, feedVars
<1>3. f.id \in 1..MaxFrames /\ f.rec \in Records
  BY DEF ConnType, Line
<1> DEFINE n == Len(got[c]) + 1
<1>4. /\ Here(c)' = Here(c) \cup {n} /\ n \notin Here(c) /\ Len(got'[c]) = n
      /\ \A j \in Here(c) : got'[c][j] = got[c][j]
      /\ \A j \in 1..Len(got'[c]) : j = n \/ (j \in 1..Len(got[c]) /\ got'[c][j] = got[c][j])
      /\ got'[c][n] = f.rec
  <2>1. \A j \in 1..n : j = n \/ j \in 1..Len(got[c])
    BY Numbers
  <2>2. \A j \in Here(c) : j \in 1..Len(got[c])
    BY Numbers
  <2>3. /\ Here(c)' = Here(c) \cup {n} /\ n \notin Here(c) /\ Len(got'[c]) = n
        /\ \A j \in 1..Len(got[c]) : got'[c][j] = got[c][j]
        /\ got'[c][n] = f.rec
    BY <1>1, <1>2, <1>3, Sent
  <2> HIDE DEF n
  <2>4. \A j \in Here(c) : got'[c][j] = got[c][j]
    BY <2>2, <2>3
  <2>5. 1..Len(got'[c]) = 1..n
    BY <2>3
  <2>6. \A j \in 1..Len(got'[c]) : j = n \/ (j \in 1..Len(got[c]) /\ got'[c][j] = got[c][j])
    BY <2>1, <2>3, <2>5
  <2>. QED  BY <2>3, <2>4, <2>6
<1> HIDE DEF n
<1>5. /\ f.id <= high[c] /\ f.rec <= serial
      /\ \A k \in DOMAIN feed : feed[k].rec = f.rec => feed[k].id = f.id
      /\ \A j \in Here(c) : got[c][j] # f.rec
      /\ \A g \in outbox[c] : f.rec = g.rec => f = g
  BY DEF ConnInv, ReplayInv
<1>6. PlaceInv(c)'
  BY <1>2, <1>4, <1>5 DEF ConnInv, PlaceInv
<1>7. ReplayInv(c)'
  BY <1>2, <1>4, <1>5 DEF ConnInv, ReplayInv
<1>8. LiveInv(c)'
  BY <1>2, <1>4, <1>5 DEF ConnInv, LiveInv
<1>. QED  BY <1>6, <1>7, <1>8 DEF ConnInv

\* A frame above the high-water mark was not sent on this connection.
LEMMA DeliverConn ==
  ASSUME LogInv, ConnType, NEW c \in Clients, ConnInv(c), Deliver(c)
  PROVE  ConnInv(c)'
<1> DEFINE f == feed[pos[c]]
           n == Len(got[c]) + 1
<1>1. /\ phase[c] = "live" /\ outbox[c] = {} /\ pos[c] \in DOMAIN feed /\ ~(f.id <= high[c])
      /\ f.id \in 1..MaxFrames /\ f.rec \in Records /\ Write(c, f)
  BY AtFrame DEF Deliver, Receiving, Polled, Replayed
<1>2. /\ UNCHANGED <<feed, rows, up, serial, phase, high, outbox, base>>
      /\ pos'[c] = pos[c] + 1
  BY DEF Deliver, ConnType, feedVars
<1> HIDE DEF f
<1>3. /\ Here(c)' = Here(c) \cup {n} /\ n \notin Here(c) /\ Len(got'[c]) = n
      /\ \A j \in Here(c) : got'[c][j] = got[c][j]
      /\ \A j \in 1..Len(got'[c]) : j = n \/ (j \in 1..Len(got[c]) /\ got'[c][j] = got[c][j])
      /\ got'[c][n] = f.rec
  <2>1. \A j \in 1..n : j = n \/ j \in 1..Len(got[c])
    BY Numbers
  <2>2. \A j \in Here(c) : j \in 1..Len(got[c])
    BY Numbers
  <2>3. /\ Here(c)' = Here(c) \cup {n} /\ n \notin Here(c) /\ Len(got'[c]) = n
        /\ \A j \in 1..Len(got[c]) : got'[c][j] = got[c][j]
        /\ got'[c][n] = f.rec
    BY <1>1, <1>2, Sent
  <2> HIDE DEF n
  <2>4. \A j \in Here(c) : got'[c][j] = got[c][j]
    BY <2>2, <2>3
  <2>5. 1..Len(got'[c]) = 1..n
    BY <2>3
  <2>6. \A j \in 1..Len(got'[c]) : j = n \/ (j \in 1..Len(got[c]) /\ got'[c][j] = got[c][j])
    BY <2>1, <2>3, <2>5
  <2>. QED  BY <2>3, <2>4, <2>6
<1> HIDE DEF n
<1>4. \A j \in Here(c) : got[c][j] # f.rec
  BY <1>1, Numbers DEF ConnInv, LiveInv, f
<1>5. f.rec <= serial
  BY <1>1 DEF LogInv, OneFrame, f
<1>6. PlaceInv(c)'
  <2>1. pos[c] + 1 <= Len(feed) + 1
    BY <1>1, Numbers
  <2>. QED  BY <1>1, <1>2, <1>3, <1>4, <1>5, <2>1 DEF ConnInv, PlaceInv
<1>7. ReplayInv(c)'
  BY <1>1, <1>2 DEF ReplayInv
<1>8. LiveInv(c)'
  <2>1. \A k \in DOMAIN feed : k >= pos[c] + 1 => k # pos[c] /\ k >= pos[c]
    BY Numbers
  <2>2. \A k \in DOMAIN feed : k # pos[c] => feed[k].rec # f.rec
    BY <1>1 DEF LogInv, OneFrame, f
  <2>. QED  BY <1>1, <1>2, <1>3, <2>1, <2>2 DEF ConnInv, LiveInv
<1>. QED  BY <1>6, <1>7, <1>8 DEF ConnInv

LEMMA SkipConn ==
  ASSUME LogInv, ConnType, NEW c \in Clients, ConnInv(c), Skip(c)
  PROVE  ConnInv(c)'
<1>1. /\ phase[c] = "live" /\ outbox[c] = {} /\ pos[c] \in DOMAIN feed
      /\ UNCHANGED <<feed, rows, up, serial, phase, high, outbox, base, got>>
      /\ pos'[c] = pos[c] + 1
  BY AtFrame DEF Skip, Receiving, Polled, ConnType, feedVars
<1>2. Here(c)' = Here(c) /\ pos[c] + 1 <= Len(feed) + 1
  BY <1>1, Numbers DEF Here
<1>3. \A k \in DOMAIN feed : k >= pos[c] + 1 => k >= pos[c]
  BY Numbers
<1>4. PlaceInv(c)'
  BY <1>1, <1>2 DEF ConnInv, PlaceInv
<1>5. ReplayInv(c)'
  BY <1>1 DEF ReplayInv
<1>6. LiveInv(c)'
  BY <1>1, <1>2, <1>3 DEF ConnInv, LiveInv
<1>. QED  BY <1>4, <1>5, <1>6 DEF ConnInv

\* A connection that ends has no replay left.
LEMMA EndConn ==
  ASSUME NEW c \in Clients, ConnInv(c), phase'[c] = "off", outbox'[c] = {},
         UNCHANGED <<serial, base, got>>
  PROVE  ConnInv(c)'
<1>1. Here(c)' = Here(c)
  BY DEF Here
<1>2. PlaceInv(c)'
  BY <1>1 DEF ConnInv, PlaceInv
<1>. QED  BY <1>2 DEF ConnInv, ReplayInv, LiveInv

LEMMA ClientConns ==
  ASSUME LogInv, ConnType, NEW c \in Clients, ConnInv(c),
         Open(c) \/ Serve(c) \/ Drop(c) \/ Stall(c) \/ ReadOn(c)
  PROVE  ConnInv(c)'
<1>1. CASE EndOnShutdown(c) \/ Evict(c) \/ Drop(c)
  <2>1. phase'[c] = "off" /\ outbox'[c] = {} /\ UNCHANGED <<serial, base, got>>
    BY <1>1 DEF EndOnShutdown, Evict, CloseStream, Receiving, Drop, ConnType
  <2>. QED  BY <2>1, EndConn
<1>2. CASE Stall(c) \/ ReadOn(c)
  <2>1. UNCHANGED <<up, feed, rows, serial>> /\ AtClient(c)' = AtClient(c)
    BY <1>2 DEF Stall, ReadOn, feedVars, connVars, AtClient
  <2>. QED  BY <2>1, ConnSame
<1>. QED  BY <1>1, <1>2, OpenConn, QueryConn, ReplayConn, DeliverConn, SkipConn DEF Serve

LEMMA ConnsInit == Init => AllConns
<1> SUFFICES ASSUME Init, NEW c \in Clients PROVE ConnInv(c)
  BY DEF AllConns
<1>1. phase[c] = "off" /\ outbox[c] = {} /\ got[c] = <<>> /\ base[c] = 0
  BY DEF Init, TailInit
<1>2. Len(got[c]) = 0 /\ Here(c) = {}
  BY <1>1, EmptySeq DEF Here
<1>. QED  BY <1>1, <1>2 DEF ConnInv, PlaceInv, ReplayInv, LiveInv

LEMMA ConnsNext ==
  ASSUME LogInv, ConnType, AllConns, [Next]_vars
  PROVE  AllConns'
<1> SUFFICES ASSUME NEW c \in Clients PROVE ConnInv(c)'
  BY DEF AllConns
<1>1. ConnInv(c)
  BY DEF AllConns
<1>2. ASSUME UNCHANGED <<up, feed, rows, serial, connVars, got, lastId>>  PROVE ConnInv(c)'
  <2>1. AtClient(c)' = AtClient(c)
    BY <1>2 DEF connVars, AtClient
  <2>. QED  BY <1>1, <1>2, <2>1, ConnSame
<1>3. CASE Signal \/ UNCHANGED vars
  BY <1>2, <1>3 DEF Signal, vars, feedVars, tailVars
<1>4. CASE IngestStep
  <2>1. CASE Broadcast(serial + 1) /\ serial' = serial + 1 /\ UNCHANGED <<connVars, got, lastId>>
    BY <2>1, BroadcastConns
  <2>2. CASE (Issue \/ Accept \/ Overload) /\ UNCHANGED tailVars
    BY <1>2, <2>2 DEF Issue, Accept, Overload, tailVars
  <2>. QED  BY <1>4, <2>1, <2>2 DEF IngestStep
<1>5. CASE WriterStep
  <2>1. CASE Persist \/ Forget
    BY <1>5, <2>1, RowsConns DEF WriterStep
  <2>2. CASE Discard
    BY <1>2, <1>5, <2>2 DEF WriterStep, Discard, tailVars
  <2>. QED  BY <1>5, <2>1, <2>2 DEF WriterStep
<1>6. CASE Stop
  <2>1. phase'[c] = "off" /\ outbox'[c] = {} /\ UNCHANGED <<serial, base, got>>
    BY <1>6 DEF Stop
  <2>. QED  BY <1>1, <2>1, EndConn
<1>7. CASE Start
  <2>1. ~up /\ UNCHANGED <<feed, rows, serial, connVars, got, lastId>>
    BY <1>7 DEF Start, Resume
  <2>2. phase[c] = "off" /\ outbox[c] = {}
    BY <1>1, <2>1 DEF ConnInv, PlaceInv, ConnType
  <2>3. phase'[c] = "off" /\ outbox'[c] = {} /\ UNCHANGED <<serial, base, got>>
    BY <2>1, <2>2 DEF connVars
  <2>. QED  BY <1>1, <2>3, EndConn
<1>8. ASSUME NEW d \in Clients, Open(d) \/ Serve(d) \/ Drop(d) \/ Stall(d) \/ ReadOn(d)
      PROVE  ConnInv(c)'
  <2>1. CASE d = c
    BY <1>1, <1>8, <2>1, ClientConns
  <2>2. CASE d # c
    <3>1. AtClient(c)' = AtClient(c)
      BY <1>8, <2>2, OthersSame
    <3>2. UNCHANGED <<up, feed, rows, serial>>
      BY <1>8 DEF Open, Serve, Query, SendReplay, EndOnShutdown, Deliver, Skip, Evict, Drop, Stall,
                  ReadOn, feedVars
    <3>. QED  BY <1>1, <3>1, <3>2, ConnSame
  <2>. QED  BY <2>1, <2>2
<1>. QED  BY <1>3, <1>4, <1>5, <1>6, <1>7, <1>8 DEF Next

----------------------------------------------------------------------------
(* Records that are ingested in turn.                                      *)

\* At most one record is between its id and the buffer, and the feed is in the
\* order of the ids.
OneAtATime ==
  \/ Quiet
  \/ open = {last} /\ unsent = {} /\ \A k \in DOMAIN feed : feed[k].id < last
  \/ open = {} /\ \E f \in unsent : unsent = {f}

Ascending == \A j, k \in DOMAIN feed : j < k => feed[j].id < feed[k].id

TurnInv == InTurn => OneAtATime /\ Ascending

\* Wherever a record still is, its id is not above the client's Last-Event-ID.
Behind(c, x) ==
  /\ \A i \in DOMAIN rows : rows[i] = x => i <= lastId[c]
  /\ \A k \in DOMAIN feed : feed[k].rec = x => feed[k].id <= lastId[c]
  /\ \A f \in outbox[c] : f.rec = x => f.id <= lastId[c]

\* What was sent is behind Last-Event-ID, what is to be replayed ahead of it, and
\* a live stream has Last-Event-ID from its high-water mark or from a frame that
\* it has passed.
Marked(c) ==
  phase[c] = "live" =>
    lastId[c] <= high[c] \/ \E k \in DOMAIN feed : k < pos[c] /\ feed[k].id = lastId[c]

SentBehind(c) == \A j \in 1..Len(got[c]) : Behind(c, got[c][j])

OrderInv(c) ==
  InTurn =>
    /\ SentBehind(c)
    /\ \A f \in outbox[c] : f.id > lastId[c]
    /\ Marked(c)
    /\ \A j, k \in 1..Len(got[c]) : got[c][j] = got[c][k] => j = k

AllOrders == \A c \in Clients : OrderInv(c)

LEMMA SettingFixed == [Next]_vars => setting' = setting /\ InTurn' = InTurn
<1>. SUFFICES ASSUME [Next]_vars PROVE setting' = setting
  BY DEF InTurn
<1>. QED  BY DEF Next, IngestStep, WriterStep, Stop, Start, Signal, Open, Serve, Query, SendReplay,
                 EndOnShutdown, Deliver, Skip, Evict, Drop, Stall, ReadOn, vars, tailVars

LEMMA TurnNext ==
  ASSUME LogInv, TurnInv, [Next]_vars
  PROVE  TurnInv'
<1> SUFFICES ASSUME InTurn PROVE (OneAtATime /\ Ascending)'
  BY SettingFixed DEF TurnInv
<1>1. OneAtATime /\ Ascending
  BY DEF TurnInv
<1>2. ASSUME UNCHANGED <<last, open, unsent, feed>>  PROVE (OneAtATime /\ Ascending)'
  BY <1>1, <1>2 DEF OneAtATime, Ascending, Quiet
<1>3. /\ last \in Nat /\ Len(feed) \in Nat /\ DOMAIN feed = 1..Len(feed)
      /\ \A k \in DOMAIN feed : feed[k].id \in Nat /\ feed[k].id <= last
  BY Frames, Bounds DEF LogInv, LogType
<1>4. CASE IngestStep
  <2>1. CASE Issue /\ Quiet
    <3>1. \A k \in DOMAIN feed : feed[k].id < last + 1
      BY <1>3
    <3>2. OneAtATime'
      BY <2>1, <3>1 DEF Issue, Quiet, OneAtATime
    <3>. QED  BY <1>1, <2>1, <3>2 DEF Issue, Ascending
  <2>2. CASE Broadcast(serial + 1)
    <3>1. PICK i \in open : LET f == [id |-> i, rec |-> serial + 1] IN
            open' = open \ {i} /\ unsent' = unsent \cup {f} /\ feed' = Append(feed, f)
      BY <2>2 DEF Broadcast
    <3>2. open = {last} /\ unsent = {} /\ i = last /\ \A k \in DOMAIN feed : feed[k].id < last
      BY <1>1, <3>1 DEF OneAtATime, Quiet
    <3>3. OneAtATime'
      BY <3>1, <3>2 DEF OneAtATime
    <3>4. [id |-> i, rec |-> serial + 1] \in Frame
      <4>1. i \in 1..last /\ serial \in 0..MaxFrames /\ serial + Cardinality(open) <= MaxFrames
        BY DEF LogInv, LogType
      <4>2. Cardinality(open) = 1
        BY <3>2, FS_Singleton
      <4>3. i \in Nat \ {0} /\ serial + 1 \in Records
        BY <1>3, <4>1, <4>2, Bounds
      <4>. QED  BY <4>3 DEF Frame
    <3>5. PICK f \in Frame : f.id = last /\ feed' = Append(feed, f)
      BY <3>1, <3>2, <3>4
    <3>6. /\ DOMAIN feed' = 1..Len(feed) + 1 /\ feed'[Len(feed) + 1] = f
          /\ \A k \in DOMAIN feed : feed'[k] = feed[k]
      BY <3>5, Appended DEF LogInv, LogType
    <3>7. ASSUME NEW j \in DOMAIN feed', NEW k \in DOMAIN feed', j < k
          PROVE  feed'[j].id < feed'[k].id
      <4>1. j \in DOMAIN feed /\ (k \in DOMAIN feed \/ k = Len(feed) + 1)
        BY <1>3, <3>6, <3>7
      <4>. QED  BY <1>1, <3>2, <3>5, <3>6, <3>7, <4>1 DEF Ascending
    <3>. QED  BY <3>3, <3>7 DEF Ascending
  <2>3. CASE Accept \/ Overload
    <3>1. UNCHANGED <<last, open, feed>>
      BY <2>3 DEF Accept, Overload
    <3>2. PICK f \in unsent : unsent' = unsent \ {f}
      BY <2>3 DEF Accept, Overload
    <3>3. open = {} /\ unsent = {f}
      BY <1>1, <3>2 DEF OneAtATime, Quiet
    <3>. QED  BY <1>1, <3>1, <3>2, <3>3 DEF OneAtATime, Ascending, Quiet
  <2>. QED  BY <1>4, <2>1, <2>2, <2>3 DEF IngestStep
<1>5. CASE WriterStep
  BY <1>2, <1>5 DEF WriterStep, Persist, Discard, Forget
<1>6. CASE Stop
  <2>1. open' = {} /\ unsent' = {} /\ feed' = <<>>
    BY <1>6 DEF Stop, Halt
  <2>2. DOMAIN feed' = {}
    BY <2>1
  <2>. QED  BY <2>1, <2>2 DEF OneAtATime, Quiet, Ascending
<1>7. CASE Start
  <2>1. ~up /\ UNCHANGED <<open, unsent, feed>>
    BY <1>7 DEF Start, Resume
  <2>2. open = {} /\ unsent = {} /\ feed = <<>>
    BY <2>1 DEF LogInv, LogType
  <2>. QED  BY <1>1, <2>1, <2>2 DEF OneAtATime, Quiet, Ascending
<1>8. CASE Signal \/ UNCHANGED vars
  BY <1>2, <1>8 DEF Signal, vars, feedVars
<1>9. CASE \E c \in Clients : Open(c) \/ Serve(c) \/ Drop(c) \/ Stall(c) \/ ReadOn(c)
  BY <1>2, <1>9 DEF Open, Serve, Query, SendReplay, EndOnShutdown, Deliver, Skip, Evict, Drop, Stall,
                    ReadOn, feedVars
<1>. QED  BY <1>4, <1>5, <1>6, <1>7, <1>8, <1>9 DEF Next

LEMMA OrderSame ==
  ASSUME NEW c \in Clients, OrderInv(c), AtClient(c)' = AtClient(c),
         UNCHANGED <<setting, feed, rows>>
  PROVE  OrderInv(c)'
<1>1. /\ phase'[c] = phase[c] /\ pos'[c] = pos[c] /\ high'[c] = high[c] /\ outbox'[c] = outbox[c]
      /\ got'[c] = got[c] /\ lastId'[c] = lastId[c]
  BY DEF AtClient
<1>2. \A x : Behind(c, x) => Behind(c, x)'
  BY <1>1 DEF Behind
<1>3. Marked(c) => Marked(c)'
  BY <1>1 DEF Marked
<1>4. InTurn' = InTurn
  BY DEF InTurn
<1>. QED  BY <1>1, <1>2, <1>3, <1>4 DEF OrderInv, SentBehind

\* A connection ends: what the log still holds of what was sent is no more.
LEMMA OrderEnd ==
  ASSUME NEW c \in Clients, OrderInv(c), phase'[c] # "live", outbox'[c] = {},
         UNCHANGED <<setting, rows>>, got'[c] = got[c], lastId'[c] = lastId[c],
         feed' = feed \/ feed' = <<>>
  PROVE  OrderInv(c)'
<1>1. \A k \in DOMAIN feed' : k \in DOMAIN feed /\ feed'[k] = feed[k]
  <2>1. DOMAIN <<>> = {}
    OBVIOUS
  <2>. QED  BY <2>1
<1>2. \A x : Behind(c, x) => Behind(c, x)'
  BY <1>1 DEF Behind
<1>3. Marked(c)'
  BY DEF Marked
<1>4. InTurn' = InTurn
  BY DEF InTurn
<1>. QED  BY <1>2, <1>3, <1>4 DEF OrderInv, SentBehind

\* A new record has a new number; it goes to the end of the feed.
LEMMA OrderBroadcast ==
  ASSUME LogInv, ConnType, NEW c \in Clients, ConnInv(c), OrderInv(c),
         Broadcast(serial + 1), serial' = serial + 1, UNCHANGED <<setting, connVars, got, lastId>>
  PROVE  OrderInv(c)'
<1>1. PICK f \in Frame :
        f.rec = serial + 1 /\ feed' = Append(feed, f) /\ UNCHANGED rows
  BY BroadcastFrame
<1>2. /\ DOMAIN feed' = DOMAIN feed \cup {Len(feed) + 1}
      /\ \A k \in DOMAIN feed : feed'[k] = feed[k]
      /\ feed'[Len(feed) + 1] = f
  <2>1. /\ DOMAIN feed = 1..Len(feed) /\ DOMAIN feed' = 1..Len(feed) + 1 /\ Len(feed) \in Nat
        /\ \A k \in DOMAIN feed : feed'[k] = feed[k]
        /\ feed'[Len(feed) + 1] = f
    BY <1>1, Appended DEF LogInv, LogType
  <2>2. 1..Len(feed) + 1 = 1..Len(feed) \cup {Len(feed) + 1}
    BY <2>1
  <2>. QED  BY <2>1, <2>2
<1>3. \A j \in 1..Len(got[c]) : got[c][j] # serial + 1
  <2>1. \A j \in 1..Len(got[c]) : got[c][j] <= serial
    BY DEF ConnInv, PlaceInv
  <2>. QED  BY <2>1, Numbers
<1>4. /\ phase' = phase /\ pos' = pos /\ high' = high /\ outbox' = outbox /\ got' = got
      /\ lastId' = lastId /\ setting' = setting
  BY DEF connVars
<1>5. \A j \in 1..Len(got[c]) : Behind(c, got[c][j]) => Behind(c, got[c][j])'
  BY <1>1, <1>2, <1>3, <1>4 DEF Behind
<1>6. Marked(c) => Marked(c)'
  BY <1>2, <1>4 DEF Marked
<1>7. InTurn' = InTurn
  BY <1>4 DEF InTurn
<1>. QED  BY <1>4, <1>5, <1>6, <1>7 DEF OrderInv, SentBehind

\* A new row has the id of its frame.
LEMMA OrderRows ==
  ASSUME LogInv, NEW c \in Clients, OrderInv(c), Persist \/ Forget, UNCHANGED tailVars
  PROVE  OrderInv(c)'
<1>1. /\ UNCHANGED feed
      /\ phase' = phase /\ pos' = pos /\ high' = high /\ outbox' = outbox /\ got' = got
      /\ lastId' = lastId /\ setting' = setting
  BY RowsFromFeed DEF tailVars, connVars
<1>2. \A i \in DOMAIN rows' : \/ i \in DOMAIN rows /\ rows'[i] = rows[i]
                              \/ \E k \in DOMAIN feed : i = feed[k].id /\ rows'[i] = feed[k].rec
  BY RowsFromFeed
<1>3. \A x : Behind(c, x) => Behind(c, x)'
  BY <1>1, <1>2 DEF Behind
<1>4. Marked(c) => Marked(c)'
  BY <1>1 DEF Marked
<1>5. InTurn' = InTurn
  BY <1>1 DEF InTurn
<1>. QED  BY <1>1, <1>3, <1>4, <1>5 DEF OrderInv, SentBehind

\* A line whose id is ahead of Last-Event-ID: its record was not sent before, and
\* is behind from now on.
LEMMA OrderSent ==
  ASSUME LogInv, ConnType, NEW c \in Clients, NEW f, f.id \in 1..MaxFrames, f.rec \in Records,
         Write(c, f), UNCHANGED <<rows, feed, base>>, outbox'[c] \subseteq outbox[c],
         SentBehind(c),
         \A j, k \in 1..Len(got[c]) : got[c][j] = got[c][k] => j = k,
         f.id > lastId[c],
         f \in outbox[c] \/ \E k \in DOMAIN feed : f = feed[k],
         \A i \in DOMAIN rows : rows[i] = f.rec => i = f.id,
         \A k \in DOMAIN feed : feed[k].rec = f.rec => feed[k].id = f.id,
         \A g \in outbox'[c] : g.rec # f.rec
  PROVE  /\ SentBehind(c)'
         /\ \A j, k \in 1..Len(got'[c]) : got'[c][j] = got'[c][k] => j = k
         /\ lastId'[c] = f.id
<1> DEFINE n == Len(got[c]) + 1
<1>1. /\ Len(got'[c]) = n /\ \A j \in 1..Len(got[c]) : got'[c][j] = got[c][j]
      /\ got'[c][n] = f.rec /\ lastId'[c] = f.id
  BY Sent
<1>2. \A j \in 1..n : j = n \/ j \in 1..Len(got[c])
  BY Numbers
<1> HIDE DEF n
<1>3. 1..Len(got'[c]) = 1..n
  BY <1>1
<1>4. \A j \in 1..Len(got[c]) : got[c][j] # f.rec
  <2>1. f.id \in Nat /\ lastId[c] \in Nat /\ ~(f.id <= lastId[c])
    BY Numbers, Bounds
  <2>2. \A x : Behind(c, x) => x # f.rec
    BY <2>1 DEF Behind
  <2>. QED  BY <2>2 DEF SentBehind
<1>5. \A i \in Nat : i <= lastId[c] => i <= f.id
  BY Numbers, Bounds
<1>6. /\ \A i \in DOMAIN rows : i \in Nat
      /\ \A k \in DOMAIN feed : feed[k].id \in Nat
      /\ \A g \in outbox[c] : g.id \in Nat
  <2>1. DOMAIN rows \subseteq Nat
    BY Bounds DEF LogInv, LogType, OneRow
  <2>2. \A g \in outbox[c] : g.id \in Nat
    BY Bounds DEF ConnType, Line
  <2>. QED  BY <2>1, <2>2, Frames DEF LogInv
<1> DEFINE Past(x) == /\ \A i \in DOMAIN rows : rows[i] = x => i <= f.id
                      /\ \A k \in DOMAIN feed : feed[k].rec = x => feed[k].id <= f.id
                      /\ \A g \in outbox'[c] : g.rec = x => g.id <= f.id
<1>7. \A x : Behind(c, x) => Past(x)
  BY <1>5, <1>6 DEF Behind
<1>8. Past(f.rec)
  BY <1>6, Bounds
<1> HIDE DEF Past
<1>9. SentBehind(c)'
  <2>1. \A j \in 1..Len(got'[c]) : Past(got'[c][j])
    BY <1>1, <1>2, <1>3, <1>7, <1>8 DEF SentBehind
  <2>. QED  BY <1>1, <2>1 DEF Past, SentBehind, Behind
<1>10. \A j, k \in 1..n : got'[c][j] = got'[c][k] => j = k
  BY <1>1, <1>2, <1>4
<1>. QED  BY <1>1, <1>3, <1>9, <1>10

LEMMA OrderOpen ==
  ASSUME NEW c \in Clients, ConnType, ConnInv(c), OrderInv(c), Open(c)
  PROVE  OrderInv(c)'
<1>1. phase[c] = "off" /\ phase'[c] = "query"
        /\ UNCHANGED <<setting, rows, feed, got, lastId, outbox>>
  BY DEF Open, feedVars, ConnType
<1>2. outbox[c] = {}
  BY <1>1 DEF ConnInv, PlaceInv
<1>. QED  BY <1>1, <1>2, OrderEnd

\* The rows that are replayed are those ahead of Last-Event-ID.
LEMMA OrderQuery ==
  ASSUME LogInv, ConnType, NEW c \in Clients, OrderInv(c), Query(c)
  PROVE  OrderInv(c)'
<1>1. PICK ids \in SUBSET DOMAIN rows :
        /\ outbox' = [outbox EXCEPT ![c] = {[id |-> i, rec |-> rows[i]] : i \in ids}]
        /\ high' = [high EXCEPT ![c] = HighWater(lastId[c], ids)]
        /\ \A i \in ids : i > lastId[c]
  <2> DEFINE read == IF lastId[c] = 0 THEN {} ELSE SinceId(lastId[c])
  <2>1. \A i \in read : i \in DOMAIN rows /\ i > lastId[c]
    BY DEF SinceId
  <2>2. read \in SUBSET DOMAIN rows
    BY <2>1
  <2>3. /\ outbox' = [outbox EXCEPT ![c] = {[id |-> i, rec |-> rows[i]] : i \in read}]
        /\ high' = [high EXCEPT ![c] = HighWater(lastId[c], read)]
    BY DEF Query
  <2> HIDE DEF read
  <2>. QED  BY <2>1, <2>2, <2>3
<1>2. /\ UNCHANGED <<setting, feed, rows, got, lastId>>
      /\ outbox'[c] = {[id |-> i, rec |-> rows[i]] : i \in ids}
      /\ high'[c] = HighWater(lastId[c], ids)
  BY <1>1 DEF Query, ConnType, feedVars
<1>3. lastId[c] <= high'[c]
  <2>1. lastId[c] \in 0..MaxFrames /\ ids \in SUBSET DOMAIN rows
    BY DEF ConnType
  <2>2. lastId[c] <= HighWater(lastId[c], ids)
    BY <2>1, HighWaterMax
  <2>. QED  BY <1>2, <2>2
<1>4. \A f \in outbox'[c] : \E i \in DOMAIN rows : f.id = i /\ f.rec = rows[i] /\ i > lastId[c]
  BY <1>1, <1>2
<1>5. \A x : Behind(c, x) => Behind(c, x)'
  BY <1>2, <1>4 DEF Behind
<1>6. Marked(c)'
  BY <1>2, <1>3 DEF Marked
<1>7. InTurn' = InTurn
  BY <1>2 DEF InTurn
<1>. QED  BY <1>2, <1>4, <1>5, <1>6, <1>7 DEF OrderInv, SentBehind

LEMMA OrderReplay ==
  ASSUME LogInv, ConnType, NEW c \in Clients, ConnInv(c), OrderInv(c), SendReplay(c)
  PROVE  OrderInv(c)'
<1> SUFFICES ASSUME InTurn
             PROVE  /\ SentBehind(c)'
                    /\ \A f \in outbox'[c] : f.id > lastId'[c]
                    /\ Marked(c)'
                    /\ \A j, k \in 1..Len(got'[c]) : got'[c][j] = got'[c][k] => j = k
  <2>1. InTurn' = InTurn
    BY DEF SendReplay, InTurn
  <2>. QED  BY <2>1 DEF OrderInv, SentBehind
<1>1. PICK f \in outbox[c] : /\ outbox' = [outbox EXCEPT ![c] = outbox[c] \ {f}] /\ Write(c, f)
                             /\ \A g \in outbox[c] : f.id <= g.id
  BY DEF SendReplay
<1>2. UNCHANGED <<feed, rows, phase, pos, high, base>> /\ outbox'[c] = outbox[c] \ {f}
  BY <1>1 DEF SendReplay, ConnType, feedVars
<1>3. \A g \in outbox[c] : g.id \in 1..MaxFrames /\ g.rec \in Records
  BY DEF ConnType, Line
<1>4. /\ f.id <= high[c]
      /\ \A k \in DOMAIN feed : feed[k].rec = f.rec => feed[k].id = f.id
      /\ \A i \in DOMAIN rows : rows[i] = f.rec => i = f.id
      /\ \A g \in outbox[c] : f.rec = g.rec \/ f.id = g.id => f = g
  BY DEF ConnInv, ReplayInv
<1>5. /\ SentBehind(c)
      /\ \A j, k \in 1..Len(got[c]) : got[c][j] = got[c][k] => j = k
      /\ f.id > lastId[c]
  BY DEF OrderInv, SentBehind
<1>6. /\ SentBehind(c)'
      /\ \A j, k \in 1..Len(got'[c]) : got'[c][j] = got'[c][k] => j = k
      /\ lastId'[c] = f.id
  BY <1>1, <1>2, <1>3, <1>4, <1>5, OrderSent
<1>7. \A g \in outbox'[c] : g.id > f.id
  BY <1>1, <1>2, <1>3, <1>4, Bounds
<1>8. Marked(c)'
  BY <1>2, <1>4, <1>6 DEF Marked
<1>. QED  BY <1>6, <1>7, <1>8

\* A live frame is above the high-water mark, and later in the feed than a frame
\* that set Last-Event-ID.
LEMMA OrderDeliver ==
  ASSUME LogInv, TurnInv, ConnType, NEW c \in Clients, ConnInv(c), OrderInv(c), Deliver(c)
  PROVE  OrderInv(c)'
<1> SUFFICES ASSUME InTurn
             PROVE  /\ SentBehind(c)'
                    /\ \A f \in outbox'[c] : f.id > lastId'[c]
                    /\ Marked(c)'
                    /\ \A j, k \in 1..Len(got'[c]) : got'[c][j] = got'[c][k] => j = k
  <2>1. InTurn' = InTurn
    BY DEF Deliver, InTurn
  <2>. QED  BY <2>1 DEF OrderInv, SentBehind
<1> DEFINE f == feed[pos[c]]
<1>1. /\ phase[c] = "live" /\ outbox[c] = {} /\ pos[c] \in DOMAIN feed /\ ~(f.id <= high[c])
      /\ f.id \in 1..MaxFrames /\ f.rec \in Records /\ Write(c, f)
  BY AtFrame DEF Deliver, Receiving, Polled, Replayed
<1>2. UNCHANGED <<feed, rows, phase, high, outbox, base>> /\ pos'[c] = pos[c] + 1
  BY DEF Deliver, ConnType, feedVars
<1>3. f.id > lastId[c]
  <2>1. CASE lastId[c] <= high[c]
    BY <1>1, <2>1, Numbers, Bounds
  <2>2. ASSUME NEW k \in DOMAIN feed, k < pos[c], feed[k].id = lastId[c]  PROVE f.id > lastId[c]
    <3>1. lastId[c] < f.id
      BY <1>1, <2>2 DEF TurnInv, Ascending
    <3>. QED  BY <1>1, <3>1, Numbers, Bounds
  <2>. QED  BY <1>1, <2>1, <2>2 DEF OrderInv, Marked
<1> HIDE DEF f
<1>4. /\ \A i \in DOMAIN rows : rows[i] = f.rec => i = f.id
      /\ \A k \in DOMAIN feed : feed[k].rec = f.rec => feed[k].id = f.id
  BY <1>1 DEF LogInv, OneFrame, OneRow, f
<1>5. /\ SentBehind(c)
      /\ \A j, k \in 1..Len(got[c]) : got[c][j] = got[c][k] => j = k
  BY DEF OrderInv, SentBehind
<1>6. \E k \in DOMAIN feed : f = feed[k]
  BY <1>1 DEF f
<1>7. /\ SentBehind(c)'
      /\ \A j, k \in 1..Len(got'[c]) : got'[c][j] = got'[c][k] => j = k
      /\ lastId'[c] = f.id
  BY <1>1, <1>2, <1>3, <1>4, <1>5, <1>6, OrderSent
<1>8. Marked(c)'
  <2>1. pos[c] < pos'[c]
    BY <1>2, Numbers
  <2>. QED  BY <1>1, <1>2, <1>7, <2>1 DEF Marked, f
<1>. QED  BY <1>1, <1>2, <1>7, <1>8

LEMMA OrderSkip ==
  ASSUME LogInv, ConnType, NEW c \in Clients, OrderInv(c), Skip(c)
  PROVE  OrderInv(c)'
<1>1. UNCHANGED <<setting, feed, rows, phase, high, outbox, got, lastId>> /\ pos'[c] = pos[c] + 1
  BY DEF Skip, ConnType, feedVars
<1>2. \A k \in DOMAIN feed : k < pos[c] => k < pos'[c]
  BY <1>1, Numbers
<1>3. Marked(c) => Marked(c)'
  BY <1>1, <1>2 DEF Marked
<1>4. \A x : Behind(c, x) => Behind(c, x)'
  BY <1>1 DEF Behind
<1>5. InTurn' = InTurn
  BY <1>1 DEF InTurn
<1>. QED  BY <1>1, <1>3, <1>4, <1>5 DEF OrderInv, SentBehind

LEMMA ClientOrders ==
  ASSUME LogInv, TurnInv, ConnType, NEW c \in Clients, ConnInv(c), OrderInv(c),
         Open(c) \/ Serve(c) \/ Drop(c) \/ Stall(c) \/ ReadOn(c)
  PROVE  OrderInv(c)'
<1>1. CASE EndOnShutdown(c) \/ Evict(c) \/ Drop(c)
  <2>1. /\ phase'[c] = "off" /\ outbox'[c] = {}
        /\ UNCHANGED <<setting, rows, feed>> /\ got'[c] = got[c] /\ lastId'[c] = lastId[c]
    BY <1>1 DEF EndOnShutdown, Evict, CloseStream, Receiving, Drop, ConnType, feedVars
  <2>. QED  BY <2>1, OrderEnd
<1>2. CASE Stall(c) \/ ReadOn(c)
  <2>1. UNCHANGED <<setting, feed, rows>> /\ AtClient(c)' = AtClient(c)
    BY <1>2 DEF Stall, ReadOn, feedVars, connVars, AtClient
  <2>. QED  BY <2>1, OrderSame
<1>. QED  BY <1>1, <1>2, OrderOpen, OrderQuery, OrderReplay, OrderDeliver, OrderSkip DEF Serve

LEMMA OrdersInit == Init => TurnInv /\ AllOrders
<1> SUFFICES ASSUME Init PROVE TurnInv /\ AllOrders
  OBVIOUS
<1>1. DOMAIN <<>> = {} /\ Len(<<>>) = 0
  BY EmptySeq
<1>2. TurnInv
  BY <1>1 DEF Init, FeedInit, TurnInv, OneAtATime, Quiet, Ascending
<1>3. ASSUME NEW c \in Clients  PROVE OrderInv(c)
  <2>1. phase[c] = "off" /\ outbox[c] = {} /\ Len(got[c]) = 0
    BY <1>1 DEF Init, TailInit
  <2>. QED  BY <2>1 DEF OrderInv, SentBehind, Marked
<1>. QED  BY <1>2, <1>3 DEF AllOrders

LEMMA OrdersNext ==
  ASSUME LogInv, TurnInv, ConnType, AllConns, AllOrders, [Next]_vars
  PROVE  AllOrders'
<1> SUFFICES ASSUME NEW c \in Clients PROVE OrderInv(c)'
  BY DEF AllOrders
<1>1. ConnInv(c) /\ OrderInv(c)
  BY DEF AllConns, AllOrders
<1>2. ASSUME UNCHANGED <<setting, feed, rows, connVars, got, lastId>>  PROVE OrderInv(c)'
  <2>1. AtClient(c)' = AtClient(c)
    BY <1>2 DEF connVars, AtClient
  <2>. QED  BY <1>1, <1>2, <2>1, OrderSame
<1>3. CASE Signal \/ UNCHANGED vars
  BY <1>2, <1>3 DEF Signal, vars, feedVars, tailVars
<1>4. CASE IngestStep
  <2>1. CASE Broadcast(serial + 1) /\ serial' = serial + 1 /\ UNCHANGED <<setting, connVars, got, lastId>>
    BY <1>1, <2>1, OrderBroadcast
  <2>2. CASE (Issue \/ Accept \/ Overload) /\ UNCHANGED tailVars
    BY <1>2, <2>2 DEF Issue, Accept, Overload, tailVars
  <2>. QED  BY <1>4, <2>1, <2>2 DEF IngestStep
<1>5. CASE WriterStep
  <2>1. CASE Persist \/ Forget
    BY <1>1, <1>5, <2>1, OrderRows DEF WriterStep
  <2>2. CASE Discard
    BY <1>2, <1>5, <2>2 DEF WriterStep, Discard, tailVars
  <2>. QED  BY <1>5, <2>1, <2>2 DEF WriterStep
<1>6. CASE Stop
  <2>1. /\ phase'[c] = "off" /\ outbox'[c] = {} /\ UNCHANGED <<setting, rows, got, lastId>>
        /\ feed' = <<>>
    BY <1>6 DEF Stop, Halt
  <2>. QED  BY <1>1, <2>1, OrderEnd
<1>7. CASE Start
  BY <1>2, <1>7 DEF Start, Resume
<1>8. ASSUME NEW d \in Clients, Open(d) \/ Serve(d) \/ Drop(d) \/ Stall(d) \/ ReadOn(d)
      PROVE  OrderInv(c)'
  <2>1. CASE d = c
    BY <1>1, <1>8, <2>1, ClientOrders
  <2>2. CASE d # c
    <3>1. AtClient(c)' = AtClient(c)
      BY <1>8, <2>2, OthersSame
    <3>2. UNCHANGED <<feed, rows>>
      BY <1>8 DEF Open, Serve, Query, SendReplay, EndOnShutdown, Deliver, Skip, Evict, Drop, Stall,
                  ReadOn, feedVars
    <3>. QED  BY <1>1, <3>1, <3>2, SettingFixed, OrderSame
  <2>. QED  BY <2>1, <2>2
<1>. QED  BY <1>3, <1>4, <1>5, <1>6, <1>7, <1>8 DEF Next

----------------------------------------------------------------------------
(* What a client is owed.                                                  *)

\* Issued, and its record broadcast or refused.
Below(x) == x <= last /\ x \notin open

\* Rows, buffer and hands are in the order of the ids.
InLine ==
  /\ \A i \in DOMAIN rows : i \notin open
  /\ \A i \in DOMAIN rows, n \in DOMAIN pending : i < pending[n].id
  /\ \A m, n \in DOMAIN pending : m < n => pending[m].id < pending[n].id
  /\ \A f \in unsent :
       (\A i \in DOMAIN rows : i < f.id) /\ (\A n \in DOMAIN pending : pending[n].id < f.id)

LineInv == InTurn => InLine

\* The frame of the one record that can be in a handler's hands.
LEMMA NewFrame ==
  ASSUME LogInv, TurnInv, InTurn, Broadcast(serial + 1)
  PROVE  \E f \in Frame :
           /\ f.id = last /\ f.rec = serial + 1 /\ feed' = Append(feed, f)
           /\ open = {last} /\ open' = {} /\ unsent = {} /\ unsent' = {f}
           /\ UNCHANGED <<up, last, pending, rows>>
           /\ \A k \in DOMAIN feed : feed[k].id < last
           /\ Len(feed') = Len(feed) + 1 /\ Len(feed) \in Nat
           /\ DOMAIN feed' = DOMAIN feed \cup {Len(feed) + 1}
           /\ \A k \in DOMAIN feed : feed'[k] = feed[k] /\ k \in 1..Len(feed)
           /\ feed'[Len(feed) + 1] = f
<1>1. PICK i \in open : LET f == [id |-> i, rec |-> serial + 1] IN
        /\ open' = open \ {i} /\ unsent' = unsent \cup {f} /\ feed' = Append(feed, f)
        /\ UNCHANGED <<up, last, pending, rows>>
  BY DEF Broadcast
<1>2. open = {last} /\ unsent = {} /\ i = last /\ \A k \in DOMAIN feed : feed[k].id < last
  BY <1>1 DEF TurnInv, OneAtATime, Quiet
<1> DEFINE f == [id |-> i, rec |-> serial + 1]
<1>3. f \in Frame
  <2>1. i \in 1..last /\ serial \in 0..MaxFrames /\ serial + Cardinality(open) <= MaxFrames
    BY DEF LogInv, LogType
  <2>2. Cardinality(open) = 1
    BY <1>2, FS_Singleton
  <2>3. i \in Nat \ {0} /\ serial + 1 \in Records
    BY <2>1, <2>2, Bounds DEF LogInv, LogType
  <2>. QED  BY <2>3 DEF Frame
<1>4. f.id = last /\ f.rec = serial + 1 /\ feed' = Append(feed, f) /\ unsent' = {f} /\ open' = {}
  BY <1>1, <1>2
<1> HIDE DEF f
<1>5. /\ DOMAIN feed = 1..Len(feed) /\ DOMAIN feed' = 1..Len(feed) + 1 /\ Len(feed) \in Nat
      /\ Len(feed') = Len(feed) + 1
      /\ \A k \in DOMAIN feed : feed'[k] = feed[k] /\ k \in 1..Len(feed)
      /\ feed'[Len(feed) + 1] = f
  BY <1>3, <1>4, Appended DEF LogInv, LogType
<1>6. DOMAIN feed' = DOMAIN feed \cup {Len(feed) + 1}
  BY <1>5
<1>. QED  BY <1>1, <1>2, <1>3, <1>4, <1>5, <1>6

\* Ids of frames and rows as numbers that are not on their way.
LEMMA Known ==
  ASSUME LogInv, TurnInv, InTurn
  PROVE  /\ last \in Nat /\ serial \in Nat
         /\ \A k \in DOMAIN feed : feed[k].id \in Nat /\ Below(feed[k].id)
         /\ \A f \in unsent : f.id \in Nat /\ f.rec <= serial /\ Below(f.id)
         /\ \A n \in DOMAIN pending :
              pending[n].id \in Nat /\ pending[n].rec <= serial /\ Below(pending[n].id)
         /\ \A i \in DOMAIN rows : i \in Nat /\ rows[i] <= serial /\ i <= last
         /\ open = {} \/ open = {last}
<1>1. last \in Nat /\ serial \in Nat /\ DOMAIN rows \subseteq 1..last
  BY Bounds DEF LogInv, LogType, OneRow
<1>2. \A k \in DOMAIN feed : feed[k].id \in Nat /\ feed[k].id <= last /\ feed[k].rec <= serial
  BY Frames DEF LogInv, LogType, OneFrame
<1>3. open = {} \/ (open = {last} /\ \A k \in DOMAIN feed : feed[k].id < last)
  <2>1. OneAtATime
    BY DEF TurnInv
  <2>. QED  BY <2>1, Zenon DEF OneAtATime, Quiet
<1>4. \A k \in DOMAIN feed : Below(feed[k].id)
  BY <1>1, <1>2, <1>3 DEF Below
<1>5. \A i \in DOMAIN rows : i \in Nat /\ rows[i] <= serial /\ i <= last
  BY <1>1 DEF LogInv, OneRow
<1>. QED  BY <1>1, <1>2, <1>3, <1>4, <1>5 DEF LogInv, OneFrame, InFeed

LEMMA LineNext ==
  ASSUME LogInv, TurnInv, LineInv, [Next]_vars
  PROVE  LineInv'
<1> SUFFICES ASSUME InTurn PROVE InLine'
  BY SettingFixed DEF LineInv
<1>1. InLine
  BY DEF LineInv
<1>2. ASSUME UNCHANGED <<open, unsent, pending, rows>>  PROVE InLine'
  BY <1>1, <1>2 DEF InLine
<1>3. CASE Issue /\ Quiet
  <2>1. \A i \in DOMAIN rows : i # last + 1
    BY Known
  <2>. QED  BY <1>1, <1>3, <2>1 DEF Issue, Quiet, InLine
<1>4. CASE Broadcast(serial + 1)
  <2>1. PICK f \in Frame :
          /\ f.id = last /\ open = {last} /\ open' = {} /\ unsent' = {f}
          /\ UNCHANGED <<pending, rows>>
    BY <1>4, NewFrame
  <2>2. \A x \in Nat : Below(x) => x < last
    BY <2>1, Known DEF Below
  <2>3. \A i \in DOMAIN rows : i < last
    BY <1>1, <2>2, Known DEF InLine, Below
  <2>4. \A n \in DOMAIN pending : pending[n].id < last
    BY <2>2, Known
  <2>. QED  BY <1>1, <2>1, <2>3, <2>4 DEF InLine
<1>5. CASE Accept
  <2>1. PICK f \in unsent : unsent' = unsent \ {f} /\ pending' = Append(pending, f)
    BY <1>5 DEF Accept
  <2>2. UNCHANGED <<open, rows>> /\ unsent' = {}
    BY <1>5, <2>1 DEF Accept, TurnInv, OneAtATime, Quiet
  <2>3. /\ DOMAIN pending = 1..Len(pending) /\ DOMAIN pending' = 1..Len(pending) + 1
        /\ Len(pending) \in Nat
        /\ \A n \in DOMAIN pending : pending'[n] = pending[n]
        /\ pending'[Len(pending) + 1] = f
    BY <2>1, Appended DEF LogInv, LogType
  <2>4. \A n \in DOMAIN pending' : n \in DOMAIN pending \/ n = Len(pending) + 1
    BY <2>3
  <2>5. ASSUME NEW m \in DOMAIN pending', NEW n \in DOMAIN pending', m < n
        PROVE  pending'[m].id < pending'[n].id
    <3>1. m \in DOMAIN pending
      BY <2>3, <2>5
    <3>. QED  BY <1>1, <2>1, <2>3, <2>4, <2>5, <3>1 DEF InLine
  <2>6. \A i \in DOMAIN rows, n \in DOMAIN pending' : i < pending'[n].id
    BY <1>1, <2>1, <2>3, <2>4 DEF InLine
  <2>. QED  BY <1>1, <2>2, <2>5, <2>6 DEF InLine
<1>6. CASE Overload
  BY <1>1, <1>6 DEF Overload, InLine
<1>7. CASE Discard
  <2>1. /\ UNCHANGED <<open, unsent, rows>>
        /\ \E n \in Nat : \A m \in DOMAIN pending' :
              m \in Nat \ {0} /\ m + n \in DOMAIN pending /\ pending'[m] = pending[m + n]
    BY <1>7, DiscardSteps DEF LogInv
  <2>. QED  BY <1>1, <2>1 DEF InLine
<1>8. CASE Persist
  <2>1. PICK n \in Nat :
          /\ \A m \in DOMAIN pending' :
               m \in Nat \ {0} /\ m + n \in DOMAIN pending /\ pending'[m] = pending[m + n]
          /\ \A i \in DOMAIN rows' \ DOMAIN rows : \E k \in DOMAIN pending :
               k <= n /\ k \in Nat /\ pending[k].id = i /\ rows'[i] = pending[k].rec
    BY <1>8, PersistSteps DEF LogInv
  <2>2. UNCHANGED <<open, unsent>>
    BY <1>8 DEF Persist
  <2>3. ASSUME NEW i \in DOMAIN rows', NEW m \in DOMAIN pending'  PROVE i < pending'[m].id
    <3>1. CASE i \in DOMAIN rows
      BY <1>1, <2>1, <3>1 DEF InLine
    <3>2. CASE i \notin DOMAIN rows
      <4>1. PICK k \in DOMAIN pending : k <= n /\ k \in Nat /\ pending[k].id = i
        BY <2>1, <3>2
      <4>2. k < m + n /\ m + n \in DOMAIN pending /\ pending'[m] = pending[m + n]
        BY <2>1, <4>1
      <4>. QED  BY <1>1, <4>1, <4>2 DEF InLine
    <3>. QED  BY <3>1, <3>2
  <2>4. ASSUME NEW l \in DOMAIN pending', NEW m \in DOMAIN pending', l < m
        PROVE  pending'[l].id < pending'[m].id
    <3>1. l + n < m + n
      BY <2>1, <2>4
    <3>. QED  BY <1>1, <2>1, <3>1 DEF InLine
  <2>5. \A i \in DOMAIN rows' : i \notin open /\ \A f \in unsent : i < f.id
    BY <1>1, <2>1, Known DEF InLine, Below
  <2>6. \A f \in unsent : \A m \in DOMAIN pending' : pending'[m].id < f.id
    BY <1>1, <2>1 DEF InLine
  <2>. QED  BY <2>2, <2>3, <2>4, <2>5, <2>6 DEF InLine
<1>9. CASE Forget
  BY <1>1, <1>9, ForgetSteps DEF InLine
<1>10. CASE Stop
  <2>1. open' = {} /\ unsent' = {} /\ pending' = <<>> /\ rows' = rows
    BY <1>10 DEF Stop, Halt
  <2>2. DOMAIN pending' = {}
    BY <2>1
  <2>. QED  BY <2>1, <2>2 DEF InLine
<1>11. CASE Start
  BY <1>2, <1>11 DEF Start, Resume
<1>12. CASE Signal \/ UNCHANGED vars
  BY <1>2, <1>12 DEF Signal, vars, feedVars
<1>13. CASE \E c \in Clients : Open(c) \/ Serve(c) \/ Drop(c) \/ Stall(c) \/ ReadOn(c)
  BY <1>2, <1>13 DEF Open, Serve, Query, SendReplay, EndOnShutdown, Deliver, Skip, Evict, Drop, Stall,
                     ReadOn, feedVars
<1>. QED  BY <1>3, <1>4, <1>5, <1>6, <1>7, <1>8, <1>9, <1>10, <1>11, <1>12, <1>13
          DEF Next, IngestStep, WriterStep


\* A frame that is a row.
IsRow(g) == g \in {[id |-> i, rec |-> rows[i]] : i \in DOMAIN rows}

LEMMA KeptIs ==
  ASSUME LogInv, TurnInv, InTurn, NEW g \in Kept
  PROVE  /\ g.id \in Nat /\ g.rec \in Nat /\ g.rec <= serial
         /\ IsRow(g) => g.id \in DOMAIN rows /\ rows[g.id] = g.rec
         /\ IsRow(g) \/ g \in unsent \/ \E n \in DOMAIN pending : g = pending[n]
         /\ IsRow(g) => g \notin unsent /\ \A n \in DOMAIN pending : g # pending[n]
<1>1. IsRow(g) => g.id \in DOMAIN rows /\ rows[g.id] = g.rec
  BY DEF IsRow
<1>2. IsRow(g) \/ g \in unsent \/ \E n \in DOMAIN pending : g = pending[n]
  BY DEF Kept, IsRow
<1>3. g.id \in Nat /\ g.rec <= serial
  BY <1>1, <1>2, Known
<1>4. \A i \in DOMAIN rows : rows[i] \in Nat
  BY Bounds DEF LogInv, OneRow
<1>5. \A f \in unsent : f.rec \in Nat
  BY Bounds DEF LogInv, LogType, Frame
<1>6. g.rec \in Nat
  BY <1>1, <1>2, <1>4, <1>5, Frames, Bounds DEF LogInv
<1>7. IsRow(g) => g \notin unsent /\ \A n \in DOMAIN pending : g # pending[n]
  BY <1>1 DEF LogInv, OneRow
<1>. QED  BY <1>1, <1>2, <1>3, <1>6, <1>7

\* But for a broadcast, no step adds to what is kept.
LEMMA KeptShrinks ==
  ASSUME LogInv, TurnInv, InTurn, [Next]_vars, ~Broadcast(serial + 1)
  PROVE  Kept' \subseteq Kept /\ \A g \in Kept' : IsRow(g) => IsRow(g)'
<1>1. ASSUME UNCHANGED rows, unsent' \subseteq unsent,
             \A n \in DOMAIN pending' :
               pending'[n] \in unsent \/ \E m \in DOMAIN pending : pending'[n] = pending[m]
      PROVE  Kept' \subseteq Kept /\ \A g \in Kept' : IsRow(g) => IsRow(g)'
  BY <1>1 DEF Kept, IsRow
<1>2. CASE Issue \/ Overload
  BY <1>1, <1>2 DEF Issue, Overload
<1>3. CASE Accept
  <2>1. PICK f \in unsent : unsent' = unsent \ {f} /\ pending' = Append(pending, f)
    BY <1>3 DEF Accept
  <2>2. UNCHANGED rows
    BY <1>3 DEF Accept
  <2>3. \A n \in DOMAIN pending' :
          pending'[n] \in unsent \/ \E m \in DOMAIN pending : pending'[n] = pending[m]
    <3>1. /\ DOMAIN pending = 1..Len(pending) /\ DOMAIN pending' = 1..Len(pending) + 1
          /\ Len(pending) \in Nat
          /\ \A n \in DOMAIN pending : pending'[n] = pending[n]
          /\ pending'[Len(pending) + 1] = f
      BY <2>1, Appended DEF LogInv, LogType
    <3>2. \A n \in DOMAIN pending' : n \in DOMAIN pending \/ n = Len(pending) + 1
      BY <3>1
    <3>. QED  BY <3>1, <3>2
  <2>. QED  BY <1>1, <2>1, <2>2, <2>3
<1>4. CASE Discard
  BY <1>1, <1>4, DiscardSteps DEF LogInv
<1>5. CASE Persist
  <2>1. PICK n \in Nat :
          /\ \A m \in DOMAIN pending' :
               m \in Nat \ {0} /\ m + n \in DOMAIN pending /\ pending'[m] = pending[m + n]
          /\ DOMAIN rows \subseteq DOMAIN rows'
          /\ \A i \in DOMAIN rows : rows'[i] = rows[i]
          /\ \A i \in DOMAIN rows' \ DOMAIN rows : \E k \in DOMAIN pending :
               k <= n /\ k \in Nat /\ pending[k].id = i /\ rows'[i] = pending[k].rec
    BY <1>5, PersistSteps DEF LogInv
  <2>2. unsent' = unsent
    BY <1>5 DEF Persist
  <2>3. \A k \in DOMAIN pending : pending[k] = [id |-> pending[k].id, rec |-> pending[k].rec]
    BY Frames DEF LogInv, Frame
  <2>4. \A i \in DOMAIN rows' :
          \/ [id |-> i, rec |-> rows'[i]] = [id |-> i, rec |-> rows[i]] /\ i \in DOMAIN rows
          \/ \E k \in DOMAIN pending : [id |-> i, rec |-> rows'[i]] = pending[k]
    BY <2>1, <2>3
  <2>5. \A g : IsRow(g) => IsRow(g)'
    BY <2>1 DEF IsRow
  <2>6. Kept' \subseteq Kept
    <3>1. {pending'[k] : k \in DOMAIN pending'} \subseteq Kept
      BY <2>1 DEF Kept
    <3>2. {[id |-> i, rec |-> rows'[i]] : i \in DOMAIN rows'} \subseteq Kept
      BY <2>4 DEF Kept
    <3>. QED  BY <2>2, <3>1, <3>2 DEF Kept
  <2>. QED  BY <2>5, <2>6
<1>6. CASE Forget
  <2>1. /\ UNCHANGED <<unsent, pending>>
        /\ DOMAIN rows' \subseteq DOMAIN rows /\ \A i \in DOMAIN rows' : rows'[i] = rows[i]
    BY <1>6, ForgetSteps
  <2>2. Kept' \subseteq Kept
    BY <2>1 DEF Kept
  <2>3. ASSUME NEW g \in Kept', IsRow(g)  PROVE IsRow(g)'
    <3>1. g \notin unsent' /\ \A n \in DOMAIN pending' : g # pending'[n]
      BY <2>1, <2>2, <2>3, KeptIs
    <3>. QED  BY <3>1 DEF Kept, IsRow
  <2>. QED  BY <2>2, <2>3
<1>7. CASE Stop
  <2>1. unsent' = {} /\ rows' = rows /\ pending' = <<>>
    BY <1>7 DEF Stop, Halt
  <2>2. DOMAIN pending' = {}
    BY <2>1
  <2>. QED  BY <1>1, <2>1, <2>2
<1>8. CASE Start
  BY <1>1, <1>8 DEF Start, Resume
<1>9. CASE Signal \/ UNCHANGED vars
  BY <1>1, <1>9 DEF Signal, vars, feedVars
<1>10. CASE \E c \in Clients : Open(c) \/ Serve(c) \/ Drop(c) \/ Stall(c) \/ ReadOn(c)
  BY <1>1, <1>10 DEF Open, Serve, Query, SendReplay, EndOnShutdown, Deliver, Skip, Evict, Drop, Stall,
                     ReadOn, feedVars
<1>. QED  BY <1>2, <1>3, <1>4, <1>5, <1>6, <1>7, <1>8, <1>9, <1>10 DEF Next, IngestStep, WriterStep

\* What a client has still to receive of what it is due.
Owed(c) == {g \in Kept : g.rec \in due[c] /\ g.rec \notin Received(c)}

\* A frame the receiver has still to reach.
Coming(c, g) == \E k \in DOMAIN feed : k >= pos[c] /\ feed[k] = g

\* The high-water mark is from a row or from Last-Event-ID; what is due and ahead
\* of the receiver is above Last-Event-ID while the query waits, and is replayed
\* if it is within the mark.
SkipInv(c) ==
  /\ \A x \in due[c] : x <= serial
  /\ phase[c] = "live" => high[c] <= lastId[c] \/ Below(high[c])
  /\ phase[c] = "query" => \A g : Coming(c, g) /\ g.rec \in due[c] => g.id > lastId[c]
  /\ phase[c] = "live" => \A g \in Owed(c) : Coming(c, g) /\ g.id <= high[c] => g \in outbox[c]

\* What is owed is above Last-Event-ID, so that a new connection may ask for it, and
\* on its way to the client once there is one.
OwedInv(c) ==
  /\ lastId[c] = 0 => due[c] = {}
  /\ \A g \in Owed(c) : g.id > lastId[c]
  /\ phase[c] = "query" => \A g \in Owed(c) : Coming(c, g) \/ IsRow(g)
  /\ phase[c] = "live" => \A g \in Owed(c) : Coming(c, g) \/ g \in outbox[c]

\* A replay may be as long as the log, so that none is cut short.
Ample == MaxFrames <= MaxReplay

DueInv(c) ==
  /\ InTurn => SkipInv(c)
  /\ Settled /\ Ample => OwedInv(c)

\* Nothing happens to a client but that what is kept gets less.
LEMMA DueSame ==
  ASSUME LogInv, ConnType, NEW c \in Clients, DueInv(c), AtClient(c)' = AtClient(c),
         due'[c] = due[c], feed' = feed, serial' = serial, setting' = setting,
         Kept' \subseteq Kept, \A g \in Kept' : IsRow(g) => IsRow(g)',
         \A x \in Nat : Below(x) => Below(x)'
  PROVE  DueInv(c)'
<1>1. /\ phase'[c] = phase[c] /\ pos'[c] = pos[c] /\ high'[c] = high[c] /\ outbox'[c] = outbox[c]
      /\ got'[c] = got[c] /\ lastId'[c] = lastId[c] /\ due'[c] = due[c]
  BY DEF AtClient
<1>2. \A g : Coming(c, g)' = Coming(c, g)
  BY <1>1 DEF Coming
<1>3. Received(c)' = Received(c)
  BY <1>1 DEF Received
<1>4. Owed(c)' \subseteq Owed(c)
  BY <1>1, <1>3 DEF Owed
<1>5. \A g \in Owed(c)' : IsRow(g) => IsRow(g)'
  BY DEF Owed
<1>6. high[c] \in Nat /\ InTurn' = InTurn /\ Settled' = Settled
  BY Numbers DEF InTurn, Settled
<1>7. SkipInv(c) => SkipInv(c)'
  BY <1>1, <1>2, <1>4, <1>6 DEF SkipInv
<1>8. OwedInv(c) => OwedInv(c)'
  BY <1>1, <1>2, <1>4, <1>5 DEF OwedInv
<1>. QED  BY <1>6, <1>7, <1>8 DEF DueInv

\* A connection ends.
LEMMA DueEnd ==
  ASSUME NEW c \in Clients, DueInv(c), phase'[c] = "off",
         UNCHANGED <<setting, serial>>, due'[c] = due[c], got'[c] = got[c], lastId'[c] = lastId[c],
         Kept' \subseteq Kept
  PROVE  DueInv(c)'
<1>1. InTurn' = InTurn /\ Settled' = Settled /\ Received(c)' = Received(c)
  BY DEF InTurn, Settled, Received
<1>2. Owed(c)' \subseteq Owed(c)
  BY <1>1 DEF Owed
<1>. QED  BY <1>1, <1>2 DEF DueInv, SkipInv, OwedInv

LEMMA DueBroadcast ==
  ASSUME LogInv, TurnInv, InTurn, ConnType, NEW c \in Clients, ConnInv(c), DueInv(c),
         Broadcast(serial + 1), serial' = serial + 1,
         due'[c] = IF lastId[c] \in 1..feed'[Len(feed')].id - 1 THEN due[c] \cup {serial + 1}
                                                                ELSE due[c],
         UNCHANGED <<setting, connVars, got, lastId>>
  PROVE  DueInv(c)'
<1>1. PICK f \in Frame :
        /\ f.id = last /\ f.rec = serial + 1
        /\ open = {last} /\ open' = {} /\ unsent = {} /\ unsent' = {f}
        /\ UNCHANGED <<last, pending, rows>>
        /\ Len(feed') = Len(feed) + 1 /\ Len(feed) \in Nat
        /\ DOMAIN feed' = DOMAIN feed \cup {Len(feed) + 1}
        /\ \A k \in DOMAIN feed : feed'[k] = feed[k] /\ k \in 1..Len(feed)
        /\ feed'[Len(feed) + 1] = f
  BY NewFrame
<1>2. /\ phase'[c] = phase[c] /\ pos'[c] = pos[c] /\ high'[c] = high[c] /\ outbox'[c] = outbox[c]
      /\ lastId'[c] = lastId[c] /\ Received(c)' = Received(c)
      /\ InTurn' = InTurn /\ Settled' = Settled
  BY DEF connVars, Received, InTurn, Settled
<1>3. last \in Nat /\ serial \in Nat /\ lastId[c] \in Nat /\ high[c] \in Nat /\ pos[c] \in Nat
  BY Known, Numbers
<1>4. SkipInv(c)
  BY DEF DueInv
<1>5. /\ \A x \in due'[c] : x \in due[c] \/ (x = serial + 1 /\ lastId[c] # 0 /\ lastId[c] < f.id)
      /\ \A x \in due[c] : x <= serial /\ x \in Nat
  <2>1. feed'[Len(feed')] = f
    BY <1>1
  <2>2. lastId[c] \in 1..f.id - 1 => lastId[c] # 0 /\ lastId[c] < f.id
    BY <1>1, <1>3
  <2>3. due[c] \subseteq Nat
    BY Bounds DEF ConnType
  <2>. QED  BY <1>4, <2>1, <2>2, <2>3 DEF SkipInv
<1>6. /\ Kept' = Kept \cup {f}
      /\ \A g : IsRow(g)' = IsRow(g)
  BY <1>1 DEF Kept, IsRow
<1>7. \A g \in Owed(c)' : g \in Owed(c) \/ (g = f /\ lastId[c] # 0 /\ lastId[c] < f.id)
  <2>1. \A g \in Kept : g.rec # serial + 1
    BY <1>3, KeptIs
  <2>2. \A g \in Kept : g.rec \in due'[c] => g.rec \in due[c]
    BY <1>5, <2>1
  <2>3. f.rec \notin due[c]
    BY <1>1, <1>3, <1>5
  <2>. QED  BY <1>1, <1>2, <1>5, <1>6, <2>2, <2>3 DEF Owed
<1>8. \A g : /\ Coming(c, g) => Coming(c, g)'
             /\ Coming(c, g)' => Coming(c, g) \/ g = f
  BY <1>1, <1>2 DEF Coming
<1>9. phase[c] # "off" => Coming(c, f)'
  <2>1. phase[c] # "off" => pos[c] <= Len(feed) + 1
    BY DEF ConnInv, PlaceInv
  <2>. QED  BY <1>1, <1>2, <1>3, <2>1 DEF Coming
<1>10. SkipInv(c)'
  <2>1. \A x \in due'[c] : x <= serial'
    BY <1>3, <1>5
  <2>2. phase[c] = "live" => high[c] <= lastId[c] \/ Below(high[c])'
    BY <1>1, <1>2, <1>4 DEF SkipInv, Below
  <2>3. ASSUME phase[c] = "query", NEW g, Coming(c, g)', g.rec \in due'[c]
        PROVE  g.id > lastId[c]
    <3>1. CASE g = f
      BY <1>1, <1>3, <1>5, <2>3, <3>1
    <3>2. CASE Coming(c, g)
      <4>1. PICK k \in DOMAIN feed : k >= pos[c] /\ feed[k] = g
        BY <3>2 DEF Coming
      <4>2. g.rec <= serial /\ g.rec \in Nat
        BY <4>1, Frames, Bounds DEF LogInv, OneFrame
      <4>3. g.rec \in due[c]
        BY <1>3, <1>5, <2>3, <4>2
      <4>. QED  BY <1>4, <2>3, <3>2, <4>3 DEF SkipInv
    <3>. QED  BY <1>8, <2>3, <3>1, <3>2
  <2>4. ASSUME phase[c] = "live", NEW g \in Owed(c)', Coming(c, g)', g.id <= high[c]
        PROVE  g \in outbox[c]
    <3>1. CASE g = f /\ lastId[c] < f.id
      <4>1. high[c] <= lastId[c] \/ (high[c] <= last /\ high[c] # last)
        BY <1>1, <1>4, <2>4 DEF SkipInv, Below
      <4>. QED  BY <1>1, <1>3, <2>4, <3>1, <4>1
    <3>2. CASE g \in Owed(c)
      <4>1. g # f
        <5>1. g \in Kept
          BY <3>2 DEF Owed
        <5>. QED  BY <1>1, <1>3, <5>1, KeptIs
      <4>. QED  BY <1>4, <1>8, <2>4, <3>2, <4>1 DEF SkipInv
    <3>. QED  BY <1>7, <2>4, <3>1, <3>2
  <2>. QED  BY <1>2, <2>1, <2>2, <2>3, <2>4 DEF SkipInv
<1>11. OwedInv(c) => OwedInv(c)'
  <2> SUFFICES ASSUME OwedInv(c) PROVE OwedInv(c)'
    OBVIOUS
  <2>1. lastId[c] = 0 => due'[c] = {}
    BY <1>5 DEF OwedInv
  <2>2. \A g \in Owed(c)' : g.id > lastId[c]
    BY <1>1, <1>3, <1>7 DEF OwedInv
  <2>3. phase[c] = "query" => \A g \in Owed(c)' : Coming(c, g)' \/ IsRow(g)'
    BY <1>6, <1>7, <1>8, <1>9 DEF OwedInv
  <2>4. phase[c] = "live" => \A g \in Owed(c)' : Coming(c, g)' \/ g \in outbox[c]
    BY <1>7, <1>8, <1>9 DEF OwedInv
  <2>. QED  BY <1>2, <2>1, <2>2, <2>3, <2>4 DEF OwedInv
<1>. QED  BY <1>2, <1>10, <1>11 DEF DueInv

\* Nothing is ahead of a new receiver; settled, everything kept is a row.
LEMMA DueOpen ==
  ASSUME LogInv, ConnType, NEW c \in Clients, DueInv(c), Open(c)
  PROVE  DueInv(c)'
<1>1. /\ phase'[c] = "query" /\ pos'[c] = Len(feed) + 1
      /\ UNCHANGED <<setting, feed, serial, rows, unsent, pending, due, got, lastId>>
  BY DEF Open, ConnType, feedVars
<1>2. InTurn' = InTurn /\ Settled' = Settled /\ Owed(c)' = Owed(c) /\ \A g : IsRow(g)' = IsRow(g)
  BY <1>1 DEF InTurn, Settled, Owed, Kept, Received, IsRow
<1>3. \A g : ~Coming(c, g)'
  <2>1. \A k \in 1..Len(feed) : ~(k >= Len(feed) + 1)
    BY Numbers
  <2>. QED  BY <1>1, <2>1, Numbers DEF Coming
<1>4. SkipInv(c) => SkipInv(c)'
  BY <1>1, <1>3 DEF SkipInv
<1>5. Settled => \A g \in Owed(c) : IsRow(g)
  <2>1. Settled => unsent = {} /\ pending = <<>>
    BY DEF Open, Quiet
  <2>2. DOMAIN <<>> = {}
    OBVIOUS
  <2>. QED  BY <2>1, <2>2 DEF Owed, Kept, IsRow
<1>6. Settled /\ OwedInv(c) => OwedInv(c)'
  BY <1>1, <1>2, <1>5 DEF OwedInv
<1>. QED  BY <1>2, <1>4, <1>6 DEF DueInv

\* The replay has no gap below its last row.
LEMMA SinceIdClosed ==
  ASSUME LogInv, NEW after \in Nat, NEW j \in SinceId(after), NEW i \in DOMAIN rows, i > after, i <= j
  PROVE  i \in SinceId(after)
<1> DEFINE behind == {x \in DOMAIN rows : x > after}
           Less(x) == {y \in behind : y < x}
<1>1. DOMAIN rows \subseteq 1..last /\ last \in Nat /\ MaxReplay \in Nat
  <2>1. MaxReplay \in Nat
    BY TailAssumption
  <2>. QED  BY <2>1, Bounds DEF LogInv, LogType, OneRow
<1>2. IsFiniteSet(Less(j))
  <2>1. IsFiniteSet(1..last) /\ Less(j) \subseteq 1..last
    BY <1>1, FS_Interval
  <2>. QED  BY <2>1, FS_Subset
<1>3. j \in behind /\ Cardinality(Less(j)) < MaxReplay /\ i \in behind
  BY DEF SinceId
<1>4. Less(i) \subseteq Less(j)
  BY <1>1, <1>3
<1> HIDE DEF Less, behind
<1>5. /\ Cardinality(Less(i)) <= Cardinality(Less(j))
      /\ Cardinality(Less(i)) \in Nat /\ Cardinality(Less(j)) \in Nat
  BY <1>2, <1>4, FS_Subset, FS_CardinalityType
<1>6. Cardinality(Less(i)) < MaxReplay
  BY <1>1, <1>3, <1>5
<1>. QED  BY <1>3, <1>6 DEF SinceId, Less, behind

\* A replay that may be as long as the log leaves nothing out.
LEMMA SinceIdAll ==
  ASSUME LogInv, MaxFrames <= MaxReplay, NEW after \in Nat, NEW i \in DOMAIN rows, i > after
  PROVE  i \in SinceId(after)
<1> DEFINE behind == {x \in DOMAIN rows : x > after}
           Less(x) == {y \in behind : y < x}
<1>1. /\ DOMAIN rows \subseteq 1..last /\ last \in 0..MaxFrames
      /\ MaxReplay \in Nat /\ MaxFrames \in Nat
  <2>1. MaxReplay \in Nat
    BY TailAssumption
  <2>. QED  BY <2>1, Bounds DEF LogInv, LogType, OneRow
<1>2. i \in Nat /\ 1 <= i /\ i <= MaxFrames
  BY <1>1
<1>3. IsFiniteSet(1..i - 1) /\ Cardinality(1..i - 1) = i - 1
  <2>1. 1 \in Int /\ i - 1 \in Int /\ (IF 1 > i - 1 THEN 0 ELSE i - 1 - 1 + 1) = i - 1
    BY <1>2
  <2>. QED  BY <2>1, FS_Interval
<1>4. Less(i) \subseteq 1..i - 1
  BY <1>1, <1>2
<1>5. i \in behind
  OBVIOUS
<1> HIDE DEF Less, behind
<1>6. Cardinality(Less(i)) <= i - 1 /\ Cardinality(Less(i)) \in Nat
  BY <1>3, <1>4, FS_Subset, FS_CardinalityType
<1>7. Cardinality(Less(i)) < MaxReplay
  BY <1>1, <1>2, <1>6
<1>. QED  BY <1>5, <1>7 DEF SinceId, Less, behind

\* What is ahead of Last-Event-ID and within the mark is among the rows replayed;
\* what is not yet a row is above every row, so above the mark.
LEMMA DueQuery ==
  ASSUME LogInv, TurnInv, LineInv, ConnType, NEW c \in Clients, DueInv(c), Query(c), InTurn
  PROVE  DueInv(c)'
<1> DEFINE ids == IF lastId[c] = 0 THEN {} ELSE SinceId(lastId[c])
<1>1. /\ phase[c] = "query" /\ phase'[c] = "live"
      /\ outbox'[c] = {[id |-> i, rec |-> rows[i]] : i \in ids}
      /\ high'[c] = HighWater(lastId[c], ids)
      /\ UNCHANGED <<setting, feed, serial, last, open, rows, unsent, pending, pos, due, got, lastId>>
  BY DEF Query, ConnType, feedVars
<1>2. /\ InTurn' = InTurn /\ Settled' = Settled /\ Owed(c)' = Owed(c)
      /\ \A g : Coming(c, g)' = Coming(c, g)
  BY <1>1 DEF InTurn, Settled, Owed, Kept, Received, Coming
<1>3. lastId[c] \in Nat /\ lastId[c] \in 0..MaxFrames /\ ids \in SUBSET DOMAIN rows
  BY Numbers DEF ConnType, SinceId
<1>4. high'[c] \in ids \cup {lastId[c]} /\ high'[c] \in Nat
  <2>. HIDE DEF ids
  <2>. QED  BY <1>1, <1>3, HighWaterMax, Bounds
<1>5. InLine /\ SkipInv(c) /\ MaxReplay \in Nat
  BY TailAssumption DEF LineInv, DueInv
<1>6. \A g : IsRow(g) /\ g.id \in ids => g \in outbox'[c]
  BY <1>1 DEF IsRow
<1>7. high'[c] <= lastId[c] \/ Below(high[c])'
  <2>1. \A i \in DOMAIN rows : Below(i)
    BY <1>5, Known DEF InLine, Below
  <2>2. high'[c] \in ids => high'[c] <= last' /\ high'[c] \notin open'
    BY <1>1, <1>3, <2>1 DEF Below
  <2>. QED  BY <1>3, <1>4, <2>2 DEF Below
<1>8. ASSUME NEW g \in Owed(c), Coming(c, g), g.id <= high'[c]  PROVE g \in outbox'[c]
  <2>1. g \in Kept /\ g.rec \in due[c] /\ g.id > lastId[c]
    BY <1>1, <1>5, <1>8 DEF Owed, SkipInv
  <2>2. g.id \in Nat
    BY <2>1, KeptIs
  <2>3. high'[c] \in ids /\ lastId[c] # 0
    BY <1>3, <1>4, <1>8, <2>1, <2>2
  <2>4. high'[c] \in SinceId(lastId[c]) /\ high'[c] \in DOMAIN rows
    BY <1>3, <2>3
  <2>5. IsRow(g)
    <3>1. \A f \in unsent : f.id \in Nat /\ high'[c] < f.id
      BY <1>5, <2>4, Known DEF InLine
    <3>2. \A n \in DOMAIN pending : pending[n].id \in Nat /\ high'[c] < pending[n].id
      BY <1>5, <2>4, Known DEF InLine
    <3>. QED  BY <1>4, <1>8, <2>1, <2>2, <3>1, <3>2, KeptIs
  <2>6. g.id \in SinceId(lastId[c])
    BY <1>3, <1>8, <2>1, <2>4, <2>5, KeptIs, SinceIdClosed
  <2>. QED  BY <1>6, <2>3, <2>5, <2>6
<1>9. SkipInv(c)'
  <2>1. \A x \in due'[c] : x <= serial'
    BY <1>1, <1>5 DEF SkipInv
  <2>2. \A g \in Owed(c)' : Coming(c, g)' /\ g.id <= high'[c] => g \in outbox'[c]
    BY <1>2, <1>8
  <2>3. high'[c] <= lastId'[c] \/ Below(high[c])'
    BY <1>1, <1>7
  <2>. QED  BY <1>1, <2>1, <2>2, <2>3 DEF SkipInv
<1>10. Ample /\ OwedInv(c) => OwedInv(c)'
  <2> SUFFICES ASSUME Ample, OwedInv(c) PROVE OwedInv(c)'
    OBVIOUS
  <2>1. ASSUME NEW g \in Owed(c), IsRow(g)  PROVE g \in outbox'[c]
    <3>1. g \in Kept /\ g.rec \in due[c] /\ g.id > lastId[c] /\ lastId[c] # 0
      BY <2>1 DEF Owed, OwedInv
    <3>2. g.id \in SinceId(lastId[c])
      BY <1>3, <2>1, <3>1, KeptIs, SinceIdAll DEF Ample
    <3>. QED  BY <1>6, <2>1, <3>1, <3>2
  <2>. QED  BY <1>1, <1>2, <2>1 DEF OwedInv
<1>. QED  BY <1>2, <1>9, <1>10 DEF DueInv

\* A client that is sent a line is owed one record less.
LEMMA OwedSent ==
  ASSUME LogInv, ConnType, NEW c \in Clients, NEW f, f.id \in 1..MaxFrames, f.rec \in Records,
         Write(c, f), base' = base, UNCHANGED <<rows, unsent, pending, due>>
  PROVE  Owed(c)' = {g \in Owed(c) : g.rec # f.rec} /\ lastId'[c] = f.id
<1> DEFINE n == Len(got[c])
<1>1. /\ Len(got'[c]) = n + 1 /\ lastId'[c] = f.id
      /\ \A j \in 1..n : got'[c][j] = got[c][j]
      /\ got'[c][n + 1] = f.rec
  BY Sent
<1>2. n \in Nat
  BY Numbers
<1> HIDE DEF n
<1>3. Received(c) = {got[c][j] : j \in 1..n} /\ Received(c)' = {got'[c][j] : j \in 1..n + 1}
  BY <1>1 DEF Received, n
<1>4. 1..n + 1 = 1..n \cup {n + 1}
  BY <1>2
<1>5. Received(c)' = Received(c) \cup {f.rec}
  BY <1>1, <1>3, <1>4
<1>6. Kept' = Kept /\ due'[c] = due[c]
  BY DEF Kept
<1>. QED  BY <1>1, <1>5, <1>6 DEF Owed

LEMMA DueReplay ==
  ASSUME LogInv, TurnInv, ConnType, NEW c \in Clients, ConnInv(c), OrderInv(c), DueInv(c),
         SendReplay(c), InTurn
  PROVE  DueInv(c)'
<1>1. PICK f \in outbox[c] : /\ outbox' = [outbox EXCEPT ![c] = outbox[c] \ {f}] /\ Write(c, f)
                             /\ \A g \in outbox[c] : f.id <= g.id
  BY DEF SendReplay
<1>2. /\ outbox'[c] = outbox[c] \ {f} /\ phase[c] = "live"
      /\ UNCHANGED <<setting, feed, serial, last, open, rows, unsent, pending, phase, pos, high, base,
                     due>>
  BY <1>1 DEF SendReplay, Polled, ConnType, feedVars
<1>3. \A g \in outbox[c] : g.id \in 1..MaxFrames /\ g.rec \in Records /\ g.id \in Nat
  BY Bounds DEF ConnType, Line
<1>4. Owed(c)' = {g \in Owed(c) : g.rec # f.rec} /\ lastId'[c] = f.id
  BY <1>1, <1>2, <1>3, OwedSent
<1>5. /\ InTurn' = InTurn /\ Settled' = Settled
      /\ \A g : Coming(c, g)' = Coming(c, g)
  BY <1>2 DEF InTurn, Settled, Coming
<1>6. f.id <= high[c] /\ \A g \in outbox[c] : f.id = g.id => f = g
  BY DEF ConnInv, ReplayInv
<1>7. lastId[c] < f.id /\ lastId[c] \in Nat /\ high[c] \in Nat
  BY <1>3, Numbers DEF OrderInv
<1>8. SkipInv(c)
  BY DEF DueInv
<1>9. SkipInv(c)'
  <2>1. high[c] <= f.id \/ Below(high[c])
    BY <1>2, <1>3, <1>7, <1>8 DEF SkipInv
  <2>2. \A g \in Owed(c)' : Coming(c, g) /\ g.id <= high[c] => g \in outbox'[c]
    BY <1>2, <1>4, <1>8 DEF SkipInv
  <2>. QED  BY <1>2, <1>4, <1>5, <1>8, <2>1, <2>2 DEF SkipInv, Below
<1>10. OwedInv(c) => OwedInv(c)'
  <2> SUFFICES ASSUME OwedInv(c) PROVE OwedInv(c)'
    OBVIOUS
  <2>1. ASSUME NEW g \in Owed(c), g.rec # f.rec  PROVE g.id > f.id
    <3>1. g.id \in Nat
      BY <2>1, KeptIs DEF Owed
    <3>2. CASE g \in outbox[c]
      BY <1>1, <1>3, <1>6, <2>1, <3>2
    <3>3. CASE g \notin outbox[c]
      <4>1. ~(g.id <= high[c])
        BY <1>2, <1>8, <2>1, <3>3 DEF OwedInv, SkipInv
      <4>. QED  BY <1>3, <1>6, <1>7, <3>1, <4>1
    <3>. QED  BY <3>2, <3>3
  <2>2. \A g \in Owed(c)' : Coming(c, g) \/ g \in outbox'[c]
    BY <1>2, <1>4 DEF OwedInv
  <2>3. lastId'[c] # 0
    BY <1>3, <1>4
  <2>. QED  BY <1>2, <1>4, <1>5, <2>1, <2>2, <2>3 DEF OwedInv
<1>. QED  BY <1>5, <1>8, <1>9, <1>10 DEF DueInv

\* The feed is in the order of the ids: what is behind the frame in it is above it.
LEMMA DueDeliver ==
  ASSUME LogInv, TurnInv, ConnType, NEW c \in Clients, ConnInv(c), DueInv(c), Deliver(c), InTurn
  PROVE  DueInv(c)'
<1> DEFINE f == feed[pos[c]]
<1>1. /\ phase[c] = "live" /\ outbox[c] = {} /\ pos[c] \in DOMAIN feed /\ ~(f.id <= high[c])
      /\ f.id \in 1..MaxFrames /\ f.rec \in Records /\ Write(c, f)
  BY AtFrame DEF Deliver, Receiving, Polled, Replayed
<1>2. /\ pos'[c] = pos[c] + 1
      /\ UNCHANGED <<setting, feed, serial, last, open, rows, unsent, pending, phase, high, outbox,
                     base, due>>
  BY DEF Deliver, ConnType, feedVars
<1>3. /\ Len(feed) \in Nat /\ DOMAIN feed = 1..Len(feed) /\ pos[c] \in Nat /\ high[c] \in Nat
      /\ f.id \in Nat
  BY <1>1, Numbers, Bounds
<1>4. ASSUME NEW g, Coming(c, g), g # f  PROVE Coming(c, g)' /\ g.id > f.id
  <2>1. PICK k \in DOMAIN feed : k >= pos[c] /\ feed[k] = g
    BY <1>4 DEF Coming
  <2>2. k > pos[c] /\ k >= pos[c] + 1
    BY <1>3, <1>4, <2>1
  <2>3. f.id < g.id /\ g.id \in Nat
    BY <1>1, <2>1, <2>2, Frames DEF TurnInv, Ascending, LogInv
  <2>. QED  BY <1>2, <1>3, <2>1, <2>2, <2>3 DEF Coming
<1>5. \A g : Coming(c, g)' => Coming(c, g)
  BY <1>2, <1>3 DEF Coming
<1>6. Owed(c)' = {g \in Owed(c) : g.rec # f.rec} /\ lastId'[c] = f.id
  <2>. HIDE DEF f
  <2>. QED  BY <1>1, <1>2, OwedSent
<1>7. InTurn' = InTurn /\ Settled' = Settled
  BY <1>2 DEF InTurn, Settled
<1>8. SkipInv(c)
  BY DEF DueInv
<1> HIDE DEF f
<1>9. SkipInv(c)'
  <2>1. high[c] <= f.id
    BY <1>1, <1>3
  <2>. QED  BY <1>1, <1>2, <1>5, <1>6, <1>8, <2>1 DEF SkipInv
<1>10. OwedInv(c) => OwedInv(c)'
  <2> SUFFICES ASSUME OwedInv(c) PROVE OwedInv(c)'
    OBVIOUS
  <2>1. \A g \in Owed(c)' : Coming(c, g)' /\ g.id > f.id
    BY <1>1, <1>4, <1>6 DEF OwedInv
  <2>2. lastId'[c] # 0
    BY <1>1, <1>6
  <2>. QED  BY <1>1, <1>2, <1>6, <2>1, <2>2 DEF OwedInv
<1>. QED  BY <1>7, <1>8, <1>9, <1>10 DEF DueInv

\* A frame that is skipped is owed no more.
LEMMA DueSkip ==
  ASSUME LogInv, ConnType, NEW c \in Clients, DueInv(c), Skip(c), InTurn
  PROVE  /\ DueInv(c)'
         /\ feed[pos[c]] \notin Owed(c)
<1> DEFINE f == feed[pos[c]]
<1>1. phase[c] = "live" /\ outbox[c] = {} /\ pos[c] \in DOMAIN feed /\ f.id <= high[c]
  BY AtFrame DEF Skip, Receiving, Polled, Replayed
<1>2. /\ pos'[c] = pos[c] + 1
      /\ UNCHANGED <<setting, feed, serial, last, open, rows, unsent, pending, phase, high, outbox,
                     due, got, lastId>>
  BY DEF Skip, ConnType, feedVars
<1>3. /\ Len(feed) \in Nat /\ DOMAIN feed = 1..Len(feed) /\ pos[c] \in Nat
  BY Numbers
<1>4. SkipInv(c)
  BY DEF DueInv
<1>5. Coming(c, f)
  BY <1>1, <1>3 DEF Coming
<1>6. f \notin Owed(c)
  BY <1>1, <1>4, <1>5 DEF SkipInv
<1>7. \A g : /\ Coming(c, g) /\ g # f => Coming(c, g)'
             /\ Coming(c, g)' => Coming(c, g)
  <2>1. \A k \in DOMAIN feed : k >= pos[c] /\ k # pos[c] => k >= pos[c] + 1
    BY <1>3
  <2>2. \A k \in DOMAIN feed : k >= pos[c] + 1 => k >= pos[c]
    BY <1>3
  <2>. QED  BY <1>2, <2>1, <2>2 DEF Coming
<1>8. Owed(c)' = Owed(c) /\ InTurn' = InTurn /\ Settled' = Settled
  BY <1>2 DEF Owed, Kept, Received, InTurn, Settled
<1> HIDE DEF f
<1>9. SkipInv(c)'
  BY <1>1, <1>2, <1>4, <1>7, <1>8 DEF SkipInv, Below
<1>10. OwedInv(c) => OwedInv(c)'
  BY <1>1, <1>2, <1>6, <1>7, <1>8 DEF OwedInv
<1>. QED  BY <1>6, <1>8, <1>9, <1>10 DEF DueInv, f

LEMMA ClientDues ==
  ASSUME LogInv, TurnInv, LineInv, ConnType, NEW c \in Clients, ConnInv(c), OrderInv(c), DueInv(c),
         Open(c) \/ Serve(c) \/ Drop(c) \/ Stall(c) \/ ReadOn(c), InTurn
  PROVE  DueInv(c)'
<1>1. CASE EndOnShutdown(c) \/ Evict(c) \/ Drop(c)
  <2>1. /\ phase'[c] = "off" /\ UNCHANGED <<setting, serial, due, got, lastId, rows, unsent, pending>>
    BY <1>1 DEF EndOnShutdown, Evict, CloseStream, Receiving, Drop, ConnType, feedVars
  <2>2. Kept' = Kept
    BY <2>1 DEF Kept
  <2>. QED  BY <2>1, <2>2, DueEnd
<1>2. CASE Stall(c) \/ ReadOn(c)
  <2>1. /\ UNCHANGED <<setting, feed, serial, due, last, open, rows, unsent, pending>>
        /\ AtClient(c)' = AtClient(c)
    BY <1>2 DEF Stall, ReadOn, feedVars, connVars, AtClient
  <2>2. Kept' = Kept /\ (\A g : IsRow(g)' = IsRow(g)) /\ \A x : Below(x)' = Below(x)
    BY <2>1 DEF Kept, IsRow, Below
  <2>. QED  BY <2>1, <2>2, DueSame
<1>. QED  BY <1>1, <1>2, DueOpen, DueQuery, DueReplay, DueDeliver, DueSkip DEF Serve

AllDue == \A c \in Clients : DueInv(c)

LEMMA DueInit == Init => LineInv /\ AllDue
<1> SUFFICES ASSUME Init PROVE LineInv /\ AllDue
  OBVIOUS
<1>1. DOMAIN <<>> = {} /\ DOMAIN rows = {} /\ unsent = {} /\ pending = <<>>
  BY DEF Init, FeedInit
<1>2. LineInv
  BY <1>1 DEF LineInv, InLine
<1>3. ASSUME NEW c \in Clients  PROVE DueInv(c)
  <2>1. phase[c] = "off" /\ due[c] = {}
    BY DEF Init, TailInit
  <2>. QED  BY <2>1 DEF DueInv, SkipInv, OwedInv, Owed
<1>. QED  BY <1>2, <1>3 DEF AllDue

LEMMA DueNext ==
  ASSUME LogInv, TurnInv, LineInv, ConnType, AllConns, AllOrders, AllDue, [Next]_vars
  PROVE  AllDue'
<1> SUFFICES ASSUME NEW c \in Clients, InTurn PROVE DueInv(c)'
  <2>1. Settled => InTurn
    BY DEF Settled, InTurn
  <2>2. setting' = setting
    BY SettingFixed
  <2>. QED  BY <2>1, <2>2 DEF AllDue, DueInv, InTurn, Settled
<1>1. ConnInv(c) /\ OrderInv(c) /\ DueInv(c)
  BY DEF AllConns, AllOrders, AllDue
<1>2. setting' = setting
  BY SettingFixed
<1>3. ASSUME ~Broadcast(serial + 1), UNCHANGED <<feed, serial, connVars, got, lastId, due>>,
             \A x \in Nat : Below(x) => Below(x)'
      PROVE  DueInv(c)'
  <2>1. AtClient(c)' = AtClient(c)
    BY <1>3 DEF connVars, AtClient
  <2>. QED  BY <1>1, <1>2, <1>3, <2>1, DueSame, KeptShrinks
<1>4. CASE IngestStep
  <2>1. CASE Broadcast(serial + 1)
    <3>1. UNCHANGED pending /\ feed' # feed
      <4>1. feed \in Seq(Frame) /\ \E f \in Frame : feed' = Append(feed, f)
        BY <2>1, BroadcastFrame DEF LogInv, LogType
      <4>2. Len(feed') # Len(feed)
        BY <4>1, Appended
      <4>. QED  BY <2>1, <4>2 DEF Broadcast
    <3>2. ~Issue /\ ~Accept /\ ~Overload
      BY <3>1 DEF Issue, Accept, Overload
    <3>. QED  BY <1>1, <1>4, <2>1, <3>2, DueBroadcast DEF IngestStep
  <2>2. CASE ~Broadcast(serial + 1)
    <3>1. (Issue \/ Accept \/ Overload) /\ UNCHANGED tailVars
      BY <1>4, <2>2 DEF IngestStep
    <3>2. \A x \in Nat : Below(x) => Below(x)'
      <4>1. CASE Issue
        <5>1. last' = last + 1 /\ (open' = open \cup {last + 1} \/ open' = open)
          BY <4>1 DEF Issue
        <5>2. \A x \in Nat : x <= last => x <= last + 1 /\ x # last + 1
          BY Known
        <5>. QED  BY <5>1, <5>2 DEF Below
      <4>2. CASE Accept \/ Overload
        BY <4>2 DEF Accept, Overload, Below
      <4>. QED  BY <3>1, <4>1, <4>2
    <3>. QED  BY <1>3, <2>2, <3>1, <3>2 DEF Issue, Accept, Overload, tailVars
  <2>. QED  BY <2>1, <2>2
<1>5. CASE WriterStep
  <2>1. UNCHANGED <<last, open, feed>>
    BY <1>5, RowsFromFeed, DiscardSteps DEF WriterStep, LogInv
  <2>2. ~Broadcast(serial + 1)
    <3>1. Broadcast(serial + 1) => Len(feed') # Len(feed)
      BY BroadcastFrame, Appended DEF LogInv, LogType
    <3>. QED  BY <2>1, <3>1
  <2>. QED  BY <1>3, <1>5, <2>1, <2>2 DEF WriterStep, tailVars, Below
<1>6. CASE Stop \/ Start
  <2>1. phase'[c] = "off" /\ UNCHANGED <<serial, due, got, lastId>>
    <3>1. CASE Stop
      BY <3>1 DEF Stop
    <3>2. CASE Start
      BY <1>1, <3>2 DEF Start, Resume, connVars, ConnInv, PlaceInv, ConnType
    <3>. QED  BY <1>6, <3>1, <3>2
  <2>2. ~Broadcast(serial + 1)
    BY <1>6 DEF Stop, Start, Halt, Resume, Broadcast
  <2>. QED  BY <1>1, <1>2, <2>1, <2>2, DueEnd, KeptShrinks
<1>7. CASE Signal \/ UNCHANGED vars
  <2>1. UNCHANGED <<last, open, feed, serial, connVars, got, lastId, due>>
    BY <1>7 DEF Signal, vars, feedVars, tailVars
  <2>2. ~Broadcast(serial + 1)
    <3>1. Broadcast(serial + 1) => Len(feed') # Len(feed)
      BY BroadcastFrame, Appended DEF LogInv, LogType
    <3>. QED  BY <2>1, <3>1
  <2>. QED  BY <1>3, <2>1, <2>2 DEF Below
<1>8. ASSUME NEW d \in Clients, Open(d) \/ Serve(d) \/ Drop(d) \/ Stall(d) \/ ReadOn(d)
      PROVE  DueInv(c)'
  <2>1. CASE d = c
    BY <1>1, <1>8, <2>1, ClientDues
  <2>2. CASE d # c
    <3>1. AtClient(c)' = AtClient(c)
      BY <1>8, <2>2, OthersSame
    <3>2. UNCHANGED <<feed, serial, due, last, open, rows, unsent, pending>>
      BY <1>8 DEF Open, Serve, Query, SendReplay, EndOnShutdown, Deliver, Skip, Evict, Drop, Stall,
                  ReadOn, feedVars
    <3>3. Kept' = Kept /\ (\A g : IsRow(g)' = IsRow(g)) /\ \A x : Below(x)' = Below(x)
      BY <3>2 DEF Kept, IsRow, Below
    <3>. QED  BY <1>1, <1>2, <3>1, <3>2, <3>3, DueSame
  <2>. QED  BY <2>1, <2>2
<1>. QED  BY <1>4, <1>5, <1>6, <1>7, <1>8 DEF Next

----------------------------------------------------------------------------
(* The theorems.                                                           *)

TailInv == LogInv /\ ConnType /\ AllConns

\* The log, the types and the connections hold together: a frame is skipped or
\* sent by its id, so what was sent is known only through the one id of a record.
THEOREM TailInvariance == Spec => []TailInv
<1>1. Init => TailInv
  BY LogInit, ConnTypeInit, ConnsInit DEF TailInv
<1>2. TailInv /\ [Next]_vars => TailInv'
  BY LogNext, ConnTypeNext, ConnsNext DEF TailInv
<1>. QED  BY <1>1, <1>2, PTL DEF Spec

\* Ids, positions and lines stay within what was broadcast.
THEOREM TailTypes == Spec => []TypeOK
<1>1. TailInv => TypeOK
  BY DEF TailInv, LogInv, LogType, ConnType, Line, TypeOK
<1>. QED  BY <1>1, TailInvariance, PTL

\* No connection sends a line twice: replayed and live lines never overlap,
\* however broadcasts, commits and the query of the replay interleave.
THEOREM SentOncePerConnection == Spec => []OncePerConnection
<1>1. TailInv => OncePerConnection
  BY DEF TailInv, AllConns, ConnInv, PlaceInv, Here, OncePerConnection
<1>. QED  BY <1>1, TailInvariance, PTL

\* With records in turn, the order of what is sent as well.
LEMMA TailOrder == Spec => [](TurnInv /\ AllOrders)
<1> DEFINE I == TurnInv /\ AllOrders
<1>1. TailInv /\ I /\ [Next]_vars => I'
  BY TurnNext, OrdersNext DEF TailInv
<1>. QED  BY <1>1, OrdersInit, TailInvariance, PTL DEF Spec

\* And what each client is still owed.
LEMMA TailDue == Spec => [](LineInv /\ AllDue)
<1> DEFINE I == LineInv /\ AllDue
<1>1. TailInv /\ TurnInv /\ AllOrders /\ I /\ [Next]_vars => I'
  BY LineNext, DueNext DEF TailInv
<1>. QED  BY <1>1, DueInit, TailInvariance, TailOrder, PTL DEF Spec

\* Ingested in turn, records reach a client once, over all of its connections and
\* over kills that give an id to a second record: a line is sent only if its id is
\* above Last-Event-ID, and every line sent before is not above it.
THEOREM SentOnce == Spec => []NoDuplicates
<1>1. TurnInv /\ AllOrders => NoDuplicates
  BY DEF AllOrders, OrderInv, NoDuplicates
<1>. QED  BY <1>1, TailOrder, PTL

\* A frame that is skipped as already delivered was delivered, if the client was
\* due it and it is kept at all: whatever was shed, rolled back or pruned on the way.
THEOREM SkipsAreSafe == Spec => SkippedWereReplayed
<1>1. ASSUME TailInv, AllDue
      PROVE  \A c \in Clients :
               InTurn /\ Skip(c) /\ feed[pos[c]] \in Kept /\ feed[pos[c]].rec \in due[c] =>
                 feed[pos[c]].rec \in Received(c)
  BY <1>1, DueSkip DEF TailInv, AllDue, Owed
<1>. QED  BY <1>1, TailInvariance, TailDue, PTL DEF SkippedWereReplayed

\* Nothing is lost to a client that connects between the records and reconnects
\* with its Last-Event-ID, as long as no replay is cut at MAX_REPLAY: over evictions,
\* drops, restarts and kills.
THEOREM NothingIsMissed ==
  ASSUME MaxFrames <= MaxReplay
  PROVE  Spec => [](Settled => NothingMissed)
<1>1. ASSUME TailInv, AllDue, Settled  PROVE NothingMissed
  <2> SUFFICES ASSUME NEW c \in Clients, phase[c] = "live", outbox[c] = {}, pos[c] > Len(feed),
                      NEW i \in DOMAIN rows, rows[i] \in due[c], rows[i] \notin Received(c)
               PROVE  FALSE
    BY DEF NothingMissed
  <2> DEFINE g == [id |-> i, rec |-> rows[i]]
  <2>1. g \in Owed(c)
    BY DEF Owed, Kept
  <2>2. Coming(c, g)
    BY <1>1, <2>1 DEF AllDue, DueInv, OwedInv, Ample
  <2>3. ~Coming(c, g)
    BY <1>1, Numbers DEF TailInv, Coming
  <2>. QED  BY <2>2, <2>3
<1>. QED  BY <1>1, TailInvariance, TailDue, PTL
=============================================================================

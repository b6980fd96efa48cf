---------------------------- MODULE ReadersProofs ----------------------------
(***************************************************************************)
(* Proofs about Readers, for any set of queries and exports, any size of   *)
(* the pool, and any number of changes.                                    *)
(***************************************************************************)
EXTENDS Readers, SequenceTheorems, FiniteSetTheorems, TLAPS

\* The queries that own a permit, and those of them that hold a connection.
Owners == {q \in Queries : query[q].pc \in {"queued", "reading", "returning", "pushed"}}
Holders == {q \in Queries : query[q].pc \in {"reading", "returning"}}

\* Permits and connections in step: each permit is in the semaphore or owned, and
\* what the pool and its queries hold is never more than there are permits.
InStep ==
  /\ DOMAIN query = Queries
  /\ permits \in Nat /\ idle \in Nat
  /\ IsFiniteSet(Owners)
  /\ permits + Cardinality(Owners) = Size
  /\ idle + Cardinality(Holders) <= Size

pool == <<idle, permits, query>>

\* A place of a query that owns a permit, or a connection.
Owning(place) == place \in {"queued", "reading", "returning", "pushed"}
Holding(place) == place \in {"reading", "returning"}

\* What one query does to the numbers of those that own and hold: it joins,
\* leaves or stays.
LEMMA OneMoves ==
  ASSUME InStep, NEW q \in Queries, DOMAIN query' = Queries,
         \A p \in Queries \ {q} : query'[p] = query[p]
  PROVE  /\ IsFiniteSet(Owners') /\ IsFiniteSet(Holders)
         /\ Cardinality(Owners) \in Nat /\ Cardinality(Owners') \in Nat
         /\ Cardinality(Holders) \in Nat /\ Cardinality(Holders') \in Nat
         /\ Holders' \subseteq Owners'
         /\ Cardinality(Holders') <= Cardinality(Owners')
         /\ Cardinality(Owners') = Cardinality(Owners)
              + (IF Owning(query'[q].pc) THEN 1 ELSE 0) - (IF Owning(query[q].pc) THEN 1 ELSE 0)
         /\ Cardinality(Holders') = Cardinality(Holders)
              + (IF Holding(query'[q].pc) THEN 1 ELSE 0) - (IF Holding(query[q].pc) THEN 1 ELSE 0)
<1> DEFINE O == Owners \ {q}
           H == Holders \ {q}
<1>1. /\ Owners = IF Owning(query[q].pc) THEN O \cup {q} ELSE O
      /\ Owners' = IF Owning(query'[q].pc) THEN O \cup {q} ELSE O
      /\ Holders = IF Holding(query[q].pc) THEN H \cup {q} ELSE H
      /\ Holders' = IF Holding(query'[q].pc) THEN H \cup {q} ELSE H
  BY DEF Owners, Holders, Owning, Holding
<1>2. Holders \subseteq Owners /\ Holders' \subseteq Owners' /\ H \subseteq O /\ O \subseteq Owners
  BY DEF Owners, Holders
<1>3. IsFiniteSet(O) /\ IsFiniteSet(H) /\ IsFiniteSet(Holders)
  BY <1>2, FS_Subset DEF InStep
<1>4. /\ IsFiniteSet(O \cup {q}) /\ Cardinality(O \cup {q}) = Cardinality(O) + 1
      /\ IsFiniteSet(H \cup {q}) /\ Cardinality(H \cup {q}) = Cardinality(H) + 1
  BY <1>3, FS_AddElement
<1>5. IsFiniteSet(Owners') /\ IsFiniteSet(Holders')
  BY <1>1, <1>3, <1>4
<1>6. Cardinality(O) \in Nat /\ Cardinality(H) \in Nat
  BY <1>3, FS_CardinalityType
<1>7. /\ Cardinality(Owners') = Cardinality(Owners)
            + (IF Owning(query'[q].pc) THEN 1 ELSE 0) - (IF Owning(query[q].pc) THEN 1 ELSE 0)
      /\ Cardinality(Holders') = Cardinality(Holders)
            + (IF Holding(query'[q].pc) THEN 1 ELSE 0) - (IF Holding(query[q].pc) THEN 1 ELSE 0)
  <2>1. Cardinality(Owners) = Cardinality(O) + (IF Owning(query[q].pc) THEN 1 ELSE 0)
    <3>1. CASE Owning(query[q].pc)
      <4>1. Owners = O \cup {q}
        BY <1>1, <3>1
      <4>. QED  BY <1>4, <3>1, <4>1
    <3>2. CASE ~Owning(query[q].pc)
      <4>1. Owners = O
        BY <1>1, <3>2
      <4>2. Cardinality(Owners) = Cardinality(O)
        BY <4>1, Zenon
      <4>. QED  BY <1>6, <3>2, <4>2
    <3>. QED  BY <3>1, <3>2
  <2>2. Cardinality(Owners') = Cardinality(O) + (IF Owning(query'[q].pc) THEN 1 ELSE 0)
    <3>1. CASE Owning(query'[q].pc)
      <4>1. Owners' = O \cup {q}
        BY <1>1, <3>1
      <4>. QED  BY <1>4, <3>1, <4>1
    <3>2. CASE ~Owning(query'[q].pc)
      <4>1. Owners' = O
        BY <1>1, <3>2
      <4>. QED  BY <1>6, <3>2, <4>1
    <3>. QED  BY <3>1, <3>2
  <2>3. Cardinality(Holders) = Cardinality(H) + (IF Holding(query[q].pc) THEN 1 ELSE 0)
    <3>1. CASE Holding(query[q].pc)
      <4>1. Holders = H \cup {q}
        BY <1>1, <3>1
      <4>. QED  BY <1>4, <3>1, <4>1
    <3>2. CASE ~Holding(query[q].pc)
      <4>1. Holders = H
        BY <1>1, <3>2
      <4>. QED  BY <1>6, <3>2, <4>1
    <3>. QED  BY <3>1, <3>2
  <2>4. Cardinality(Holders') = Cardinality(H) + (IF Holding(query'[q].pc) THEN 1 ELSE 0)
    <3>1. CASE Holding(query'[q].pc)
      <4>1. Holders' = H \cup {q}
        BY <1>1, <3>1
      <4>. QED  BY <1>4, <3>1, <4>1
    <3>2. CASE ~Holding(query'[q].pc)
      <4>1. Holders' = H
        BY <1>1, <3>2
      <4>. QED  BY <1>6, <3>2, <4>1
    <3>. QED  BY <3>1, <3>2
  <2>. QED  BY <1>6, <2>1, <2>2, <2>3, <2>4
<1>8. Cardinality(Holders') <= Cardinality(Owners')
  BY <1>2, <1>5, FS_Subset
<1>9. /\ Cardinality(Owners) \in Nat /\ Cardinality(Owners') \in Nat
      /\ Cardinality(Holders) \in Nat /\ Cardinality(Holders') \in Nat
  BY <1>3, <1>5, FS_CardinalityType DEF InStep
<1>. QED  BY <1>2, <1>3, <1>5, <1>7, <1>8, <1>9

\* At first the pool is full.
LEMMA InStepInit == Init => InStep
<1> SUFFICES ASSUME Init PROVE InStep
  OBVIOUS
<1>1. Owners = {} /\ Holders = {}
  BY DEF Init, NoQuery, Owners, Holders
<1>. QED  BY <1>1, FS_EmptySet, ReadersAssumption DEF Init, InStep

\* A query keeps permits and connections in step, wherever it is cancelled, fails
\* or panics.
LEMMA QueryStep ==
  ASSUME InStep, NEW q \in Queries, Query(q)
  PROVE  InStep'
<1> USE ReadersAssumption
<1>1. DOMAIN query' = Queries /\ \A p \in Queries \ {q} : query'[p] = query[p]
  BY DEF InStep, Query, Ask, Cancel, Panic, RunFails, Reader, Acquire, Open, OpenFails, Run, Return,
         Go, Finished, Finish
<1>2. Over.pc = "over"
  BY DEF Over, NoQuery
<1> DEFINE a == query[q].pc
           b == query'[q].pc
<1>3. ASSUME UNCHANGED <<idle, permits>>, Owning(a) = Owning(b), Holding(a) = Holding(b)
      PROVE  InStep'
  BY <1>1, <1>3, OneMoves DEF InStep
<1>4. CASE Ask(q)
  <2>1. a = "new" /\ b = "waiting" /\ UNCHANGED <<idle, permits>>
    BY <1>4 DEF Ask, At, InStep
  <2>. QED  BY <2>1, <1>3 DEF Owning, Holding
<1>5. CASE Cancel(q)
  <2>1. a = "waiting" /\ b = "over" /\ UNCHANGED <<idle, permits>>
    BY <1>2, <1>5 DEF Cancel, At, Finished, InStep
  <2>. QED  BY <2>1, <1>3 DEF Owning, Holding
<1>6. CASE Acquire(q)
  <2>1. a = "waiting" /\ b = "queued" /\ idle' = idle /\ permits' = permits - 1 /\ permits > 0
    BY <1>6 DEF Acquire, At, Go, InStep
  <2>. QED  BY <2>1, <1>1, OneMoves DEF Owning, Holding, InStep
<1>7. CASE Open(q)
  <2>1. a = "queued" /\ b = "reading" /\ permits' = permits
    BY <1>7 DEF Open, At, Go, InStep
  <2>2. CASE idle > 0
    BY <1>1, <1>7, <2>1, <2>2, OneMoves DEF Owning, Holding, InStep, Open
  <2>3. CASE ~(idle > 0)
    <3>1. idle' = 0 /\ idle = 0
      BY <1>7, <2>3 DEF Open, InStep
    <3>. QED  BY <1>1, <2>1, <3>1, OneMoves DEF Owning, Holding, InStep
  <2>. QED  BY <2>2, <2>3
<1>8. CASE OpenFails(q)
  <2>1. a = "queued" /\ b = "over" /\ idle' = idle /\ permits' = permits + 1
    BY <1>2, <1>8 DEF OpenFails, At, Finished, InStep
  <2>. QED  BY <2>1, <1>1, OneMoves DEF Owning, Holding, InStep
<1>9. CASE Panic(q)
  <2>1. a = "reading" /\ b = "over" /\ idle' = idle /\ permits' = permits + 1
    BY <1>2, <1>9 DEF Panic, At, Finished, InStep
  <2>. QED  BY <2>1, <1>1, OneMoves DEF Owning, Holding, InStep
<1>10. CASE Run(q)
  <2>1. a = "reading" /\ b \in {"reading", "returning"} /\ UNCHANGED <<idle, permits>>
    BY <1>10 DEF Run, At, InStep
  <2>. QED  BY <2>1, <1>3 DEF Owning, Holding
<1>11. CASE RunFails(q)
  <2>1. a = "reading" /\ b = "returning" /\ UNCHANGED <<idle, permits>>
    BY <1>11 DEF RunFails, At, InStep, Over, NoQuery
  <2>. QED  BY <2>1, <1>3 DEF Owning, Holding
<1>12. CASE Return(q)
  <2>1. CASE At(q, "returning") /\ idle' = idle + 1 /\ Go(q, "pushed") /\ UNCHANGED permits
    <3>1. a = "returning" /\ b = "pushed"
      BY <2>1 DEF At, Go, InStep
    <3>. QED  BY <2>1, <3>1, <1>1, OneMoves DEF Owning, Holding, InStep
  <2>2. CASE At(q, "pushed") /\ permits' = permits + 1 /\ Finish(q) /\ UNCHANGED idle
    <3>1. a = "pushed"
      BY <2>2 DEF At
    <3>2. b \in {"waiting", "over"}
      <4>1. CASE WalksOn(q)
        BY <2>2, <4>1 DEF Finish, InStep
      <4>2. CASE ~WalksOn(q)
        BY <1>2, <2>2, <4>2 DEF Finish, InStep
      <4>. QED  BY <4>1, <4>2
    <3>. QED  BY <2>2, <3>1, <3>2, <1>1, OneMoves DEF Owning, Holding, InStep
  <2>. QED  BY <1>12, <2>1, <2>2 DEF Return
<1>. QED  BY <1>4, <1>5, <1>6, <1>7, <1>8, <1>9, <1>10, <1>11, <1>12 DEF Query, Reader

\* Every step keeps permits and connections in step: the writer and the exports
\* do not touch them.
LEMMA InStepNext ==
  ASSUME InStep, [Next]_vars
  PROVE  InStep'
<1>1. ASSUME UNCHANGED pool PROVE InStep'
  BY <1>1 DEF pool, InStep, Owners, Holders
<1>2. CASE Commit \/ Prune \/ UNCHANGED vars
  BY <1>1, <1>2 DEF Commit, Prune, vars, pool
<1>3. ASSUME NEW e \in Exports, Export(e) PROVE InStep'
  BY <1>1, <1>3 DEF Export, AskExport, CancelExport, AcquireSlot, TakeSlot, OpenExport,
       OpenExportFails, EndExport, SendChunk, SendLast, RowFails, ReadChunk, Leave, pool
<1>4. ASSUME NEW q \in Queries, Query(q) PROVE InStep'
  BY <1>4, QueryStep
<1>. QED  BY <1>2, <1>3, <1>4 DEF Next

\* A pool never holds more connections than it began with, although a query that
\* panicked loses one and the next one opens another in its place.
THEOREM PoolIsBounded == Spec => []ConnectionsBounded
<1>1. InStep => ConnectionsBounded
  BY DEF InStep, Holders, ConnectionsBounded
<1>. QED  BY <1>1, InStepInit, InStepNext, PTL DEF Spec

----------------------------------------------------------------------------
(* The ends of a set of ids, and the newest and oldest of them.            *)

\* A set of numbers that has a member has a least one.
LEMMA LeastIs ==
  ASSUME NEW S \in SUBSET Nat, S # {}
  PROVE  Min(S) \in S /\ \A y \in S : Min(S) <= y
<1>1. PICK m \in S : \A y \in S \ {m} : ~ (<<y, m>> \in OpToRel(<, Nat))
  BY NatLessThanWellFounded, WFMin
<1>2. ASSUME NEW y \in S PROVE m <= y
  <2>1. CASE y = m
    BY <2>1
  <2>2. CASE y # m
    <3>1. ~ (<<y, m>> \in OpToRel(<, Nat))
      BY <1>1, <2>2
    <3>2. y \in Nat /\ m \in Nat
      OBVIOUS
    <3>3. ~ (y < m)
      BY <3>1, <3>2 DEF OpToRel
    <3>. QED  BY <3>2, <3>3
  <2>. QED  BY <2>1, <2>2
<1>3. \E x \in S : \A y \in S : x <= y
  BY <1>2
<1>. QED  BY <1>3 DEF Min

\* A finite set of numbers that has a member has a greatest one: one of those with
\* the fewest above them.
LEMMA GreatestIs ==
  ASSUME NEW S \in SUBSET Nat, IsFiniteSet(S), S # {}
  PROVE  Max(S) \in S /\ \A y \in S : y <= Max(S)
<1> DEFINE above(i) == {j \in S : j > i}
           T == {Cardinality(above(i)) : i \in S}
<1>1. ASSUME NEW i \in S PROVE IsFiniteSet(above(i)) /\ Cardinality(above(i)) \in Nat
  BY FS_Subset, FS_CardinalityType
<1>2. T \in SUBSET Nat /\ T # {}
  BY <1>1
<1>3. Min(T) \in T /\ \A t \in T : Min(T) <= t
  <2>. HIDE DEF T
  <2>. QED  BY <1>2, LeastIs
<1>4. PICK m \in S : Min(T) = Cardinality(above(m))
  BY <1>3
<1>5. ASSUME NEW y \in S, y > m PROVE FALSE
  <2>1. above(y) \in SUBSET above(m) /\ y \in above(m) /\ y \notin above(y)
    <3>1. m \in Nat /\ y \in Nat
      OBVIOUS
    <3>2. ASSUME NEW j \in S, j > y PROVE j > m
      <4>1. j \in Nat
        OBVIOUS
      <4>. QED  BY <1>5, <3>1, <3>2, <4>1
    <3>3. ~ (y > y)
      BY <3>1
    <3>. QED  BY <1>5, <3>2, <3>3, Zenon
  <2>2. Cardinality(above(m)) <= Cardinality(above(y))
    BY <1>3, <1>4
  <2>3. Cardinality(above(m)) = Cardinality(above(y))
    BY <1>1, <2>1, <2>2, FS_Subset
  <2>. QED  BY <1>1, <2>1, <2>3, FS_Subset
<1>6. \E x \in S : \A y \in S : x >= y
  BY <1>5
<1>7. Max(S) \in S /\ \A y \in S : Max(S) >= y
  BY <1>6 DEF Max
<1>. QED  BY <1>7

\* What is newer than one of the newest is one of the newest.
LEMMA NewestClosed ==
  ASSUME NEW S \in SUBSET Nat, IsFiniteSet(S), NEW n \in Nat,
         NEW m \in Newest(n, S), NEW i \in S, i >= m
  PROVE  i \in Newest(n, S)
<1> DEFINE above(k) == {j \in S : j > k}
<1>1. m \in S /\ Cardinality(above(m)) < n
  BY DEF Newest
<1>2. above(i) \in SUBSET above(m) /\ above(m) \in SUBSET S
  <2>1. ASSUME NEW j \in S, j > i PROVE j > m
    <3>1. i \in Nat /\ m \in Nat /\ j \in Nat
      BY <1>1
    <3>. QED  BY <2>1, <3>1
  <2>. QED  BY <2>1
<1>3. IsFiniteSet(above(m)) /\ IsFiniteSet(above(i))
  BY <1>2, FS_Subset
<1>4. Cardinality(above(i)) <= Cardinality(above(m))
  BY <1>2, <1>3, FS_Subset
<1>5. Cardinality(above(i)) \in Nat /\ Cardinality(above(m)) \in Nat
  BY <1>3, FS_CardinalityType
<1>. HIDE DEF above
<1>6. Cardinality(above(i)) < n
  BY <1>1, <1>4, <1>5
<1>. QED  BY <1>6 DEF above, Newest

\* What is older than one of the oldest is one of the oldest.
LEMMA OldestClosed ==
  ASSUME NEW S \in SUBSET Nat, IsFiniteSet(S), NEW n \in Nat,
         NEW m \in Oldest(n, S), NEW i \in S, i <= m
  PROVE  i \in Oldest(n, S)
<1> DEFINE below(k) == {j \in S : j < k}
<1>1. m \in S /\ Cardinality(below(m)) < n
  BY DEF Oldest
<1>2. below(i) \in SUBSET below(m) /\ below(m) \in SUBSET S
  <2>1. ASSUME NEW j \in S, j < i PROVE j < m
    <3>1. i \in Nat /\ m \in Nat /\ j \in Nat
      BY <1>1
    <3>. QED  BY <2>1, <3>1
  <2>. QED  BY <2>1
<1>3. IsFiniteSet(below(m)) /\ IsFiniteSet(below(i))
  BY <1>2, FS_Subset
<1>4. Cardinality(below(i)) <= Cardinality(below(m))
  BY <1>2, <1>3, FS_Subset
<1>5. Cardinality(below(i)) \in Nat /\ Cardinality(below(m)) \in Nat
  BY <1>3, FS_CardinalityType
<1>. HIDE DEF below
<1>6. Cardinality(below(i)) < n
  BY <1>1, <1>4, <1>5
<1>. QED  BY <1>6 DEF below, Oldest

\* A page that is not full is all there is.
LEMMA ShortIsAll ==
  ASSUME NEW S \in SUBSET Nat, IsFiniteSet(S), NEW n \in Nat \ {0},
         Cardinality(Newest(n, S)) # n
  PROVE  Newest(n, S) = S
<1> DEFINE N == Newest(n, S)
           above(k) == {j \in S : j > k}
<1>1. N \in SUBSET S
  BY DEF Newest
<1>2. ASSUME NEW k \in S PROVE IsFiniteSet(above(k)) /\ Cardinality(above(k)) \in Nat
  BY FS_Subset, FS_CardinalityType
<1>3. IsFiniteSet(N) /\ Cardinality(N) \in Nat
  BY <1>1, FS_Subset, FS_CardinalityType
<1>4. ASSUME S \ N # {} PROVE Cardinality(N) >= n
  <2>1. S \ N \in SUBSET S /\ IsFiniteSet(S \ N) /\ S \ N \in SUBSET Nat
    BY FS_Subset
  <2>2. PICK i \in S \ N : \A y \in S \ N : y <= i
    <3>. HIDE DEF N
    <3>. QED  BY <1>4, <2>1, GreatestIs
  <2>3. above(i) \in SUBSET N
    BY <2>1, <2>2
  <2>4. Cardinality(above(i)) <= Cardinality(N)
    BY <1>3, <2>3, FS_Subset
  <2>5. ~ (Cardinality(above(i)) < n)
    BY <2>2 DEF Newest
  <2>. HIDE DEF above, N
  <2>. QED  BY <1>2, <1>3, <2>2, <2>4, <2>5
<1>5. ASSUME N # {} PROVE Cardinality(N) <= n
  <2>1. N \in SUBSET Nat
    BY <1>1
  <2>2. PICK m \in N : \A y \in N : m <= y
    <3>. HIDE DEF N
    <3>. QED  BY <1>5, <2>1, LeastIs
  <2>3. m \in S /\ Cardinality(above(m)) < n
    BY <2>2 DEF Newest
  <2>4. N \in SUBSET (above(m) \cup {m})
    BY <1>1, <2>1, <2>2
  <2>5. /\ IsFiniteSet(above(m) \cup {m})
        /\ Cardinality(above(m) \cup {m}) = Cardinality(above(m)) + 1
    <3>1. m \in Nat /\ m \notin above(m) /\ IsFiniteSet(above(m))
      BY <1>2, <2>3
    <3>. HIDE DEF above
    <3>. QED  BY <3>1, FS_AddElement
  <2>6. Cardinality(N) <= Cardinality(above(m) \cup {m})
    BY <2>4, <2>5, FS_Subset
  <2>. HIDE DEF above, N
  <2>. QED  BY <1>2, <1>3, <2>3, <2>5, <2>6
<1>6. N = {} => Cardinality(N) = 0
  BY FS_EmptySet
<1>7. S \ N = {}
  <2>. HIDE DEF N
  <2>1. Cardinality(N) # n
    BY DEF N
  <2>. QED  BY <1>3, <1>4, <1>5, <1>6, <2>1
<1>. QED  BY <1>1, <1>7

----------------------------------------------------------------------------
(* What a query does to itself.                                            *)

\* A query moves on and keeps what it has read.
Moves(q, from, to) ==
  /\ query[q].pc = from /\ query'[q].pc = to
  /\ query'[q].kind = query[q].kind /\ query'[q].from = query[q].from
  /\ query'[q].at = query[q].at /\ query'[q].got = query[q].got

\* The walk goes on below the last row of the page.
NextPage(q) ==
  /\ WalksOn(q)
  /\ query[q].pc = "pushed" /\ query'[q].pc = "waiting"
  /\ query'[q].kind = query[q].kind /\ query'[q].from = query[q].from
  /\ query'[q].at = Min(PageOf(q)) /\ query'[q].got = query[q].got

\* A query forgets what it has read.
Forgets(q) ==
  /\ query'[q].kind = "none" /\ query'[q].from = {} /\ query'[q].got = <<>>
  /\ query'[q].pc \in {"over", "returning"}

\* The steps of a query: it is asked, runs a statement, moves, turns to the next
\* page, or forgets.
LEMMA QueryBecomes ==
  ASSUME DOMAIN query = Queries, NEW q \in Queries, Query(q)
  PROVE  /\ UNCHANGED <<rows, ever>> /\ DOMAIN query' = Queries
         /\ \A p \in Queries \ {q} : query'[p] = query[p]
         /\ \/ Ask(q) \/ Run(q) \/ NextPage(q) \/ Forgets(q)
            \/ Moves(q, "waiting", "queued") \/ Moves(q, "queued", "reading")
            \/ Moves(q, "returning", "pushed")
<1>1. /\ UNCHANGED <<rows, ever>> /\ DOMAIN query' = Queries
      /\ \A p \in Queries \ {q} : query'[p] = query[p]
  BY DEF Query, Ask, Cancel, Panic, RunFails, Reader, Acquire, Open, OpenFails, Run, Return,
         Go, Finished, Finish
<1>2. /\ Over.kind = "none" /\ Over.from = {} /\ Over.got = <<>> /\ Over.pc = "over"
  BY DEF Over, NoQuery
<1>3. CASE Cancel(q) \/ Panic(q) \/ OpenFails(q)
  <2>1. query'[q] = Over
    BY <1>3 DEF Cancel, Panic, OpenFails, Finished
  <2>. QED  BY <1>1, <1>2, <2>1 DEF Forgets
<1>4. CASE RunFails(q)
  <2>1. query'[q] = [Over EXCEPT !.pc = "returning"]
    BY <1>4 DEF RunFails
  <2>2. Forgets(q)
    BY <2>1 DEF Forgets, Over, NoQuery
  <2>. QED  BY <1>1, <2>2
<1>5. CASE Acquire(q)
  <2>1. Moves(q, "waiting", "queued")
    BY <1>5 DEF Acquire, At, Go, Moves
  <2>. QED  BY <1>1, <2>1
<1>6. CASE Open(q)
  <2>1. Moves(q, "queued", "reading")
    BY <1>6 DEF Open, At, Go, Moves
  <2>. QED  BY <1>1, <2>1
<1>7. CASE Return(q)
  <2>1. CASE At(q, "returning") /\ Go(q, "pushed")
    <3>1. Moves(q, "returning", "pushed")
      BY <2>1 DEF At, Go, Moves
    <3>. QED  BY <1>1, <3>1
  <2>2. CASE At(q, "pushed") /\ Finish(q)
    <3>1. CASE WalksOn(q)
      <4>1. NextPage(q)
        BY <2>2, <3>1 DEF At, Finish, NextPage
      <4>. QED  BY <1>1, <4>1
    <3>2. CASE ~WalksOn(q)
      <4>1. query'[q] = Over
        BY <2>2, <3>2 DEF Finish
      <4>. QED  BY <1>1, <1>2, <4>1 DEF Forgets
    <3>. QED  BY <3>1, <3>2
  <2>. QED  BY <1>7, <2>1, <2>2 DEF Return
<1>. QED  BY <1>1, <1>3, <1>4, <1>5, <1>6, <1>7 DEF Query, Reader

----------------------------------------------------------------------------
(* The shape of what a query asks and has read.                            *)

\* What a query has read are ids, what it found stored was stored, and while it is
\* not at its end there is a statement left to run.
Asked(q) ==
  /\ query[q].pc \in QueryPlaces /\ query[q].kind \in Kinds[q] \cup {"none"}
  /\ query[q].from \subseteq ever
  /\ query[q].got \in Seq(SUBSET Ids)
  /\ query[q].pc \in {"waiting", "queued", "reading"} =>
       /\ query[q].kind \in {"walk", "context", "stats", "count"}
       /\ query[q].kind = "count" => Len(query[q].got) = 0
       /\ query[q].kind = "stats" => Len(query[q].got) < 4
       /\ query[q].kind = "context" => Len(query[q].got) < 3

AskedInv ==
  /\ DOMAIN query = Queries
  /\ rows \subseteq ever /\ ever \subseteq Ids
  /\ \A q \in Queries : Asked(q)

\* How many statements the kinds of queries make, and which.
LEMMA StatementsAre ==
  ASSUME AskedInv, NEW q \in Queries, query[q].pc = "reading"
  PROVE  LET n == Len(query[q].got) + 1
             i == query[q].at IN
           /\ n \in Nat \ {0}
           /\ Statements(q)[n] \in SUBSET Ids
           /\ query[q].kind \in {"walk", "context", "stats", "count"}
           /\ query[q].kind = "walk" => Len(Statements(q)) = n /\ Statements(q)[n] = Page(q)
           /\ query[q].kind = "count" => Len(Statements(q)) = 1 /\ n = 1
           /\ query[q].kind = "stats" =>
                /\ Len(Statements(q)) = 4 /\ n \in 1..4
                /\ n \in 1..2 => Statements(q)[n] = rows \cap Window
                /\ n = 3 => Statements(q)[n] = Top(Device, rows \cap Window)
                /\ n = 4 => Statements(q)[n] = Top(Tag, rows \cap Window)
           /\ query[q].kind = "context" =>
                /\ Len(Statements(q)) = 3 /\ n \in 1..3
                /\ n = 1 => Statements(q)[n] = rows \cap {i}
                /\ n = 2 => Statements(q)[n] = Newest(Around, Below(i))
                /\ n = 3 => Statements(q)[n] = Oldest(Around, {j \in rows : j > i})
<1> DEFINE n == Len(query[q].got) + 1
           i == query[q].at
<1>1. /\ query[q].got \in Seq(SUBSET Ids) /\ rows \in SUBSET Ids
      /\ query[q].kind \in {"walk", "context", "stats", "count"}
      /\ query[q].kind = "count" => Len(query[q].got) = 0
      /\ query[q].kind = "stats" => Len(query[q].got) < 4
      /\ query[q].kind = "context" => Len(query[q].got) < 3
  BY DEF AskedInv, Asked
<1>2. Len(query[q].got) \in Nat /\ n \in Nat \ {0}
  BY <1>1, LenProperties
<1>3. CASE query[q].kind = "walk"
  <2>1. Statements(q) = [k \in 1..n |-> Page(q)]
    BY <1>3 DEF Statements
  <2>2. Page(q) \in SUBSET Ids
    BY <1>1 DEF Page, Newest, Below
  <2>3. [k \in 1..n |-> Page(q)] \in Seq(SUBSET Ids) /\ n \in 1..n
    BY <1>2, <2>2, IsASeq
  <2>4. Len([k \in 1..n |-> Page(q)]) = n
    BY <1>2, <2>3, LenProperties
  <2>. QED  BY <1>2, <1>3, <2>1, <2>2, <2>3, <2>4
<1>4. CASE query[q].kind = "count"
  <2>1. Statements(q) = <<{}>> /\ n = 1
    BY <1>1, <1>4 DEF Statements
  <2>. QED  BY <1>2, <1>4, <2>1
<1>5. CASE query[q].kind = "stats"
  <2> DEFINE a == rows \cap Window
             b == Top(Device, rows \cap Window)
             c == Top(Tag, rows \cap Window)
  <2>1. Statements(q) = <<a, a, b, c>>
    BY <1>5 DEF Statements
  <2>2. n = 1 \/ n = 2 \/ n = 3 \/ n = 4
    BY <1>1, <1>2, <1>5
  <2>3. a \in SUBSET Ids /\ b \in SUBSET Ids /\ c \in SUBSET Ids
    BY <1>1 DEF Top
  <2>. HIDE DEF a, b, c, n
  <2>4. /\ Len(Statements(q)) = 4
        /\ Statements(q)[1] = a /\ Statements(q)[2] = a
        /\ Statements(q)[3] = b /\ Statements(q)[4] = c
    BY <2>1
  <2>5. n \in 1..4 /\ Statements(q)[n] \in SUBSET Ids
    BY <2>2, <2>3, <2>4
  <2>6. /\ n \in 1..2 => Statements(q)[n] = a
        /\ n = 3 => Statements(q)[n] = b
        /\ n = 4 => Statements(q)[n] = c
    BY <2>2, <2>4
  <2>. QED  BY <1>2, <1>5, <2>4, <2>5, <2>6 DEF a, b, c, n
<1>6. CASE query[q].kind = "context"
  <2>1. Statements(q) = <<rows \cap {i}, Newest(Around, Below(i)),
                          Oldest(Around, {j \in rows : j > i})>>
    BY <1>6 DEF Statements, Preceding
  <2>2. n \in 1..3
    BY <1>1, <1>2, <1>6
  <2>3. /\ rows \cap {i} \in SUBSET Ids /\ Newest(Around, Below(i)) \in SUBSET Ids
        /\ Oldest(Around, {j \in rows : j > i}) \in SUBSET Ids
    BY <1>1 DEF Newest, Oldest, Below
  <2>5. /\ Len(Statements(q)) = 3
        /\ Statements(q)[1] = rows \cap {i}
        /\ Statements(q)[2] = Newest(Around, Below(i))
        /\ Statements(q)[3] = Oldest(Around, {j \in rows : j > i})
    <3> DEFINE a == rows \cap {i}
               b == Newest(Around, Below(i))
               c == Oldest(Around, {j \in rows : j > i})
    <3>1. Statements(q) = <<a, b, c>>
      BY <2>1
    <3>. HIDE DEF a, b, c
    <3>2. Len(Statements(q)) = 3 /\ Statements(q)[1] = a /\ Statements(q)[2] = b
            /\ Statements(q)[3] = c
      BY <3>1
    <3>. QED  BY <3>2 DEF a, b, c
  <2>6. n = 1 \/ n = 2 \/ n = 3
    BY <2>2
  <2>7. /\ Statements(q)[n] \in SUBSET Ids
        /\ n = 1 => Statements(q)[n] = rows \cap {i}
        /\ n = 2 => Statements(q)[n] = Newest(Around, Below(i))
        /\ n = 3 => Statements(q)[n] = Oldest(Around, {j \in rows : j > i})
    <3>. HIDE DEF n
    <3>. QED  BY <2>3, <2>5, <2>6
  <2>. QED  BY <1>2, <1>6, <2>2, <2>5, <2>7
<1>. QED  BY <1>1, <1>3, <1>4, <1>5, <1>6

\* What a statement adds to what was read.
LEMMA RunAdds ==
  ASSUME AskedInv, NEW q \in Queries, Run(q)
  PROVE  LET n == Len(query[q].got) + 1
             done == query'[q].got IN
           /\ query[q].pc = "reading" /\ query'[q].pc \in {"reading", "returning"}
           /\ query'[q].kind = query[q].kind /\ query'[q].from = query[q].from
           /\ query'[q].at = query[q].at
           /\ done = Append(query[q].got, Statements(q)[n])
           /\ done \in Seq(SUBSET Ids) /\ Len(done) = n /\ done[n] = Statements(q)[n]
           /\ \A k \in 1..n - 1 : done[k] = query[q].got[k]
           /\ query'[q].pc = "reading" <=> ~NotThere(q) /\ n # Len(Statements(q))
<1> DEFINE n == Len(query[q].got) + 1
           done == Append(query[q].got, Statements(q)[n])
<1>1. /\ query[q].pc = "reading"
      /\ query'[q].kind = query[q].kind /\ query'[q].from = query[q].from
      /\ query'[q].at = query[q].at
      /\ query'[q].got = done
      /\ query'[q].pc = IF NotThere(q) \/ Len(done) = Len(Statements(q)) THEN "returning"
                          ELSE "reading"
  BY DEF Run, At, AskedInv
<1>2. query[q].got \in Seq(SUBSET Ids)
  BY DEF AskedInv, Asked
<1>3. Statements(q)[n] \in SUBSET Ids
  BY <1>1, StatementsAre
<1>4. /\ done \in Seq(SUBSET Ids) /\ Len(done) = n /\ done[n] = Statements(q)[n]
      /\ \A k \in 1..Len(query[q].got) : done[k] = query[q].got[k]
  BY <1>2, <1>3, AppendProperties
<1>5. n - 1 = Len(query[q].got)
  BY <1>2, LenProperties
<1>. HIDE DEF n
<1>6. \A k \in 1..n - 1 : done[k] = query[q].got[k]
  BY <1>4, <1>5
<1>. QED  BY <1>1, <1>4, <1>6 DEF n

\* Each step of a query leaves it in shape.
LEMMA QueryAsks ==
  ASSUME AskedInv, NEW q \in Queries, Query(q)
  PROVE  Asked(q)'
<1>1. /\ Asked(q) /\ DOMAIN query = Queries /\ rows \subseteq ever /\ ever \subseteq Ids
  BY DEF AskedInv
<1>2. UNCHANGED <<rows, ever>>
  BY <1>1, QueryBecomes
<1>3. CASE Ask(q)
  <2>1. PICK k \in Kinds[q] :
          /\ query'[q].pc = "waiting" /\ query'[q].kind = k /\ query'[q].got = <<>>
          /\ query'[q].from \subseteq rows
    BY <1>1, <1>3 DEF Ask
  <2>2. query'[q].got \in Seq(SUBSET Ids) /\ Len(query'[q].got) = 0
    BY <2>1, EmptySeq
  <2>3. k \in {"walk", "context", "stats", "count"}
    BY ReadersAssumption
  <2>. QED  BY <1>1, <1>2, <2>1, <2>2, <2>3 DEF Asked, QueryPlaces
<1>4. CASE Run(q)
  <2> DEFINE n == Len(query[q].got) + 1
  <2>1. /\ query[q].pc = "reading" /\ query'[q].pc \in {"reading", "returning"}
        /\ query'[q].kind = query[q].kind /\ query'[q].from = query[q].from
        /\ query'[q].got \in Seq(SUBSET Ids) /\ Len(query'[q].got) = n
        /\ query'[q].pc = "reading" => n # Len(Statements(q))
    BY <1>4, RunAdds
  <2>2. /\ n \in Nat
        /\ query[q].kind \in {"walk", "context", "stats", "count"}
        /\ query[q].kind = "walk" => Len(Statements(q)) = n
        /\ query[q].kind = "count" => Len(Statements(q)) = 1 /\ n = 1
        /\ query[q].kind = "stats" => Len(Statements(q)) = 4 /\ n \in 1..4
        /\ query[q].kind = "context" => Len(Statements(q)) = 3 /\ n \in 1..3
    BY <2>1, StatementsAre
  <2>. HIDE DEF n
  <2>3. /\ query'[q].pc \in {"waiting", "queued", "reading"} => query'[q].pc = "reading"
        /\ query'[q].pc \in QueryPlaces /\ query'[q].kind \in Kinds[q] \cup {"none"}
        /\ query'[q].from \subseteq ever'
    BY <1>1, <1>2, <2>1 DEF Asked, QueryPlaces
  <2>4. query'[q].pc = "reading" =>
          /\ query'[q].kind \in {"walk", "context", "stats", "count"}
          /\ query'[q].kind = "count" => Len(query'[q].got) = 0
          /\ query'[q].kind = "stats" => Len(query'[q].got) < 4
          /\ query'[q].kind = "context" => Len(query'[q].got) < 3
    <3>1. query'[q].pc = "reading" => query'[q].kind # "count" /\ query'[q].kind # "walk"
      BY <2>1, <2>2
    <3>2. query'[q].pc = "reading" /\ query'[q].kind = "stats" => Len(query'[q].got) < 4
      BY <2>1, <2>2
    <3>3. query'[q].pc = "reading" /\ query'[q].kind = "context" => Len(query'[q].got) < 3
      BY <2>1, <2>2
    <3>. QED  BY <2>1, <2>2, <3>1, <3>2, <3>3
  <2>. QED  BY <2>1, <2>3, <2>4 DEF Asked
<1>5. CASE NextPage(q)
  <2>1. query[q].kind = "walk"
    BY <1>5 DEF NextPage, WalksOn
  <2>. QED  BY <1>1, <1>2, <1>5, <2>1 DEF Asked, NextPage, QueryPlaces
<1>6. CASE Forgets(q)
  BY <1>1, <1>6, EmptySeq DEF Asked, Forgets, QueryPlaces
<1>7. CASE Moves(q, "waiting", "queued") \/ Moves(q, "queued", "reading") \/ Moves(q, "returning", "pushed")
  BY <1>1, <1>2, <1>7 DEF Asked, Moves, QueryPlaces
<1>. QED  BY <1>1, <1>3, <1>4, <1>5, <1>6, <1>7, QueryBecomes

\* The other steps leave the queries alone; a row that is new was never stored
\* before.
LEMMA OthersChange ==
  ASSUME rows \subseteq ever, ever \subseteq Ids,
         Commit \/ Prune \/ (\E e \in Exports : Export(e)) \/ UNCHANGED vars
  PROVE  /\ UNCHANGED query
         /\ rows' \subseteq ever' /\ ever \subseteq ever' /\ ever' \subseteq Ids
         /\ \A i \in rows' : i \in rows \/ i \notin ever
<1>1. CASE Commit
  <2>1. PICK S \in SUBSET (Ids \ ever) : rows' = rows \cup S /\ ever' = ever \cup S
    BY <1>1 DEF Commit
  <2>. QED  BY <1>1, <2>1 DEF Commit
<1>2. CASE Prune \/ UNCHANGED vars \/ \E e \in Exports : Export(e)
  <2>1. query' = query /\ ever' = ever /\ rows' \subseteq rows
    BY <1>2 DEF Prune, vars, Export, AskExport, CancelExport, AcquireSlot, TakeSlot, OpenExport,
                OpenExportFails, EndExport, SendChunk, SendLast, RowFails, ReadChunk, Leave
  <2>. QED  BY <2>1
<1>. QED  BY <1>1, <1>2

\* Every step leaves every query in shape.
LEMMA AskedNext ==
  ASSUME AskedInv, [Next]_vars
  PROVE  AskedInv'
<1>1. CASE Commit \/ Prune \/ (\E e \in Exports : Export(e)) \/ UNCHANGED vars
  <2>1. /\ UNCHANGED query
        /\ rows' \subseteq ever' /\ ever \subseteq ever' /\ ever' \subseteq Ids
    BY <1>1, OthersChange DEF AskedInv
  <2>2. ASSUME NEW q \in Queries PROVE Asked(q)'
    BY <2>1 DEF Asked, AskedInv
  <2>. QED  BY <2>1, <2>2 DEF AskedInv
<1>2. ASSUME NEW q \in Queries, Query(q) PROVE AskedInv'
  <2>1. /\ UNCHANGED <<rows, ever>> /\ DOMAIN query' = Queries
        /\ \A p \in Queries \ {q} : query'[p] = query[p]
    BY <1>2, QueryBecomes DEF AskedInv
  <2>2. \A p \in Queries \ {q} : Asked(p)'
    BY <2>1 DEF Asked, AskedInv
  <2>3. Asked(q)'
    BY <1>2, QueryAsks
  <2>. QED  BY <2>1, <2>2, <2>3 DEF AskedInv
<1>. QED  BY <1>1, <1>2 DEF Next

LEMMA AskedInit == Init => AskedInv
<1> SUFFICES ASSUME Init PROVE AskedInv
  OBVIOUS
<1>1. rows \subseteq ever /\ ever \subseteq Ids /\ DOMAIN query = Queries
  BY ReadersAssumption DEF Init
<1>2. ASSUME NEW q \in Queries PROVE Asked(q)
  <2>1. /\ query[q].pc = "new" /\ query[q].kind = "none" /\ query[q].from = {}
        /\ query[q].got = <<>>
    BY DEF Init, NoQuery
  <2>2. query[q].got \in Seq(SUBSET Ids)
    BY <2>1, EmptySeq
  <2>. QED  BY <2>1, <2>2 DEF Asked, QueryPlaces
<1>. QED  BY <1>1, <1>2 DEF AskedInv

----------------------------------------------------------------------------
(* The pages of a walk.                                                    *)

\* The rows that a walk is to show.
Kept(q) == query[q].from \cap rows \cap Hits

\* A row is on one of the pages; the pages hold what is kept from an id up, and
\* nothing below it.
Shown(got, x) == \E k \in DOMAIN got : x \in got[k]
DownTo(got, i, kept) ==
  /\ i \in Nat
  /\ \A k \in DOMAIN got : \A x \in got[k] : i <= x
  /\ \A x \in kept : i <= x => Shown(got, x)

Descends(got) ==
  \A j, k \in DOMAIN got : j < k => \A x \in got[j], y \in got[k] : y < x

\* What a walk has read when its last page was the last one, or has another below.
ReadTo(got, kept) ==
  LET page == got[Len(got)] IN
    /\ got # <<>>
    /\ Cardinality(page) = PageLimit => DownTo(got, Min(page), kept)
    /\ Cardinality(page) # PageLimit => \A x \in kept : Shown(got, x)

\* A query that walks has read all down to its cursor.
Walked(q) ==
  query[q].kind = "walk" =>
    /\ Descends(query[q].got)
    /\ query[q].pc \in {"waiting", "queued", "reading"} =>
         DownTo(query[q].got, query[q].at, Kept(q))
    /\ query[q].pc \in {"returning", "pushed"} => ReadTo(query[q].got, Kept(q))

WalkInv == \A q \in Queries : Walked(q)

\* The next page below the cursor brings a walk down to the end of the page.
LEMMA PageReadsDown ==
  ASSUME NEW R \in SUBSET Ids, NEW kept \in SUBSET (R \cap Hits), NEW got \in Seq(SUBSET Ids),
         NEW i, DownTo(got, i, kept), Descends(got),
         NEW page, page = Newest(PageLimit, {j \in R : j < i} \cap Hits)
  PROVE  /\ Append(got, page) \in Seq(SUBSET Ids)
         /\ Descends(Append(got, page)) /\ ReadTo(Append(got, page), kept)
<1> USE ReadersAssumption
<1> DEFINE S == {j \in R : j < i} \cap Hits
           done == Append(got, page)
           n == Len(got)
<1>1. S \in SUBSET Ids /\ S \in SUBSET Nat /\ IsFiniteSet(S) /\ i \in Nat /\ \A x \in S : x < i
  BY FS_Subset DEF DownTo
<1>2. page \in SUBSET S /\ page \in SUBSET Ids /\ page \in SUBSET Nat
  BY <1>1 DEF Newest
<1>3. /\ done \in Seq(SUBSET Ids) /\ Len(done) = n + 1 /\ done[n + 1] = page
      /\ n \in Nat /\ \A k \in 1..n : done[k] = got[k]
  BY <1>2, AppendProperties, LenProperties
<1>4. DOMAIN done = 1..n + 1 /\ DOMAIN got = 1..n
  BY <1>3, LenProperties
<1>5. \A x : Shown(got, x) => Shown(done, x)
  BY <1>3, <1>4 DEF Shown
<1>6. \A x \in page : Shown(done, x)
  <2>1. n + 1 \in DOMAIN done
    BY <1>3, <1>4
  <2>. QED  BY <1>3, <2>1 DEF Shown
<1>0. ASSUME NEW k \in 1..n
      PROVE  \A x \in got[k] : x \in Nat
  <2>1. got[k] \in SUBSET Ids
    BY ElementOfSeq
  <2>. QED  BY <2>1
<1>7. ASSUME NEW j \in DOMAIN done, NEW k \in DOMAIN done, j < k, NEW x \in done[j],
               NEW y \in done[k]
      PROVE  y < x
  <2>1. j \in 1..n /\ x \in got[j]
    BY <1>3, <1>4, <1>7
  <2>2. x \in Nat
    BY <1>0, <2>1
  <2>3. CASE k \in 1..n
    BY <1>3, <1>4, <1>7, <2>1, <2>3 DEF Descends
  <2>4. CASE k = n + 1
    <3>1. y \in page /\ y < i /\ y \in Nat
      BY <1>1, <1>2, <1>3, <1>7, <2>4
    <3>2. i <= x
      BY <1>4, <2>1 DEF DownTo
    <3>. QED  BY <1>1, <2>2, <3>1, <3>2
  <2>. QED  BY <1>4, <2>3, <2>4
<1>8. \A x \in kept : x \in Nat /\ (i <= x => Shown(done, x)) /\ (~ (i <= x) => x \in S)
  <2>1. \A x \in kept : i <= x => Shown(done, x)
    BY <1>5 DEF DownTo
  <2>2. \A x \in kept : x \in Nat /\ x \in R /\ x \in Hits
    OBVIOUS
  <2>3. \A x \in kept : ~ (i <= x) => x < i
    BY <1>1, <2>2
  <2>. QED  BY <2>1, <2>2, <2>3
<1>9. ASSUME Cardinality(page) = PageLimit
      PROVE  DownTo(done, Min(page), kept)
  <2>1. page # {}
    BY <1>9, FS_EmptySet
  <2>2. Min(page) \in page /\ \A x \in page : Min(page) <= x
    BY <1>2, <2>1, LeastIs
  <2> DEFINE m == Min(page)
  <2>3. m \in page /\ m \in Nat /\ m < i /\ \A x \in page : m <= x
    BY <1>1, <1>2, <2>2
  <2>. HIDE DEF m
  <2>4. ASSUME NEW k \in DOMAIN done, NEW x \in done[k] PROVE m <= x
    <3>1. CASE k \in 1..n
      <4>1. x \in got[k] /\ x \in Nat
        BY <1>0, <1>3, <2>4, <3>1
      <4>2. i <= x
        BY <1>4, <3>1, <4>1 DEF DownTo
      <4>. QED  BY <1>1, <2>3, <4>1, <4>2
    <3>2. CASE k = n + 1
      BY <1>3, <2>3, <2>4, <3>2
    <3>. QED  BY <1>3, <1>4, <3>1, <3>2
  <2>5. ASSUME NEW x \in kept, m <= x PROVE Shown(done, x)
    <3>1. CASE i <= x
      BY <1>8, <3>1
    <3>2. CASE ~ (i <= x)
      <4>1. x \in S /\ x >= m
        BY <1>8, <2>3, <2>5, <3>2
      <4>2. x \in page
        <5>. HIDE DEF S
        <5>1. page = Newest(PageLimit, S)
          BY DEF S
        <5>. QED  BY <1>1, <2>3, <4>1, <5>1, NewestClosed
      <4>. QED  BY <1>6, <4>2
    <3>. QED  BY <3>1, <3>2
  <2>. QED  BY <2>3, <2>4, <2>5 DEF DownTo, m
<1>10. ASSUME Cardinality(page) # PageLimit, NEW x \in kept
       PROVE  Shown(done, x)
  <2>1. page = S
    <3>. HIDE DEF S
    <3>1. page = Newest(PageLimit, S)
      BY DEF S
    <3>. QED  BY <1>1, <1>10, <3>1, ShortIsAll
  <2>. QED  BY <1>6, <1>8, <2>1
<1>11. done # <<>>
  BY <1>3, EmptySeq
<1>12. ReadTo(done, kept)
  <2>1. done[Len(done)] = page
    BY <1>3
  <2>. HIDE DEF done
  <2>. QED  BY <1>9, <1>10, <1>11, <2>1 DEF ReadTo
<1>. QED  BY <1>3, <1>7, <1>12 DEF Descends

\* A step of a query that walks, or of one that does not, keeps what is said of
\* its pages.
LEMMA QueryWalks ==
  ASSUME AskedInv, WalkInv, NEW q \in Queries, Query(q)
  PROVE  Walked(q)'
<1> USE ReadersAssumption
<1>1. /\ Asked(q) /\ Walked(q) /\ DOMAIN query = Queries /\ rows \subseteq ever /\ ever \subseteq Ids
  BY DEF AskedInv, WalkInv
<1>2. UNCHANGED <<rows, ever>>
  BY <1>1, QueryBecomes
<1> SUFFICES ASSUME query'[q].kind = "walk"
             PROVE  /\ Descends(query'[q].got)
                    /\ query'[q].pc \in {"waiting", "queued", "reading"} =>
                         DownTo(query'[q].got, query'[q].at, Kept(q)')
                    /\ query'[q].pc \in {"returning", "pushed"} => ReadTo(query'[q].got, Kept(q)')
  BY DEF Walked
<1>3. CASE Ask(q)
  <2>1. PICK k \in Kinds[q], i \in Ids :
          query' = [query EXCEPT ![q] = [pc |-> "waiting", kind |-> k, got |-> <<>>,
                                         from |-> IF k = "count" THEN {} ELSE rows,
                                         at |-> IF k = "context" THEN i ELSE Max(Ids) + 1]]
    BY <1>3 DEF Ask
  <2>2. /\ query'[q].pc = "waiting" /\ query'[q].got = <<>> /\ query'[q].at = Max(Ids) + 1
        /\ query'[q].from = rows
    BY <1>1, <2>1
  <2>3. Ids \in SUBSET Nat /\ Ids # {} /\ IsFiniteSet(Ids)
    BY <2>1
  <2>4. Max(Ids) \in Nat /\ \A x \in Ids : x <= Max(Ids) /\ x \in Nat
    BY <2>3, GreatestIs
  <2>5. \A x \in Ids : ~ (Max(Ids) + 1 <= x)
    BY <2>4
  <2>6. Kept(q)' \subseteq Ids
    BY <1>1, <1>2, <2>2 DEF Kept
  <2>7. DOMAIN query'[q].got = {}
    BY <2>2, EmptySeq
  <2>8. DownTo(query'[q].got, query'[q].at, Kept(q)')
    <3>1. \A got, kept : DOMAIN got = {} /\ kept \subseteq Ids => DownTo(got, Max(Ids) + 1, kept)
      BY <2>4, <2>5 DEF DownTo
    <3>. QED  BY <2>2, <2>6, <2>7, <3>1
  <2>. QED  BY <2>2, <2>7, <2>8 DEF Descends
<1>4. CASE Run(q)
  <2> DEFINE n == Len(query[q].got) + 1
  <2>1. /\ query[q].pc = "reading" /\ query'[q].pc \in {"reading", "returning"}
        /\ query[q].kind = "walk" /\ query'[q].from = query[q].from
        /\ query'[q].got = Append(query[q].got, Statements(q)[n])
        /\ query'[q].pc = "reading" => n # Len(Statements(q))
    BY <1>4, RunAdds
  <2>2. Len(Statements(q)) = n /\ Statements(q)[n] = Page(q)
    BY <2>1, StatementsAre
  <2>3. query'[q].pc = "returning"
    BY <2>1, <2>2
  <2>4. Kept(q)' = Kept(q) /\ Kept(q) \in SUBSET (rows \cap Hits)
    BY <1>2, <2>1 DEF Kept
  <2>5. /\ query[q].got \in Seq(SUBSET Ids) /\ Descends(query[q].got)
        /\ DownTo(query[q].got, query[q].at, Kept(q))
    BY <1>1, <2>1 DEF Asked, Walked
  <2>6. Page(q) = Newest(PageLimit, {j \in rows : j < query[q].at} \cap Hits)
    BY DEF Page, Below
  <2>7. /\ Descends(Append(query[q].got, Page(q)))
        /\ ReadTo(Append(query[q].got, Page(q)), Kept(q))
    <3>1. rows \in SUBSET Ids
      BY <1>1
    <3>. QED  BY <2>4, <2>5, <2>6, <3>1, PageReadsDown
  <2>. QED  BY <2>1, <2>2, <2>3, <2>4, <2>7
<1>5. CASE NextPage(q)
  <2>1. /\ query[q].kind = "walk" /\ Cardinality(PageOf(q)) = PageLimit
        /\ query[q].pc = "pushed" /\ query'[q].pc = "waiting"
        /\ query'[q].at = Min(PageOf(q)) /\ query'[q].got = query[q].got
        /\ query'[q].from = query[q].from
    BY <1>5 DEF NextPage, WalksOn
  <2>2. Kept(q)' = Kept(q)
    BY <1>2, <2>1 DEF Kept
  <2>3. Descends(query[q].got) /\ ReadTo(query[q].got, Kept(q))
    BY <1>1, <2>1 DEF Walked
  <2>4. DownTo(query[q].got, Min(PageOf(q)), Kept(q))
    BY <2>1, <2>3 DEF ReadTo, PageOf
  <2>. QED  BY <2>1, <2>2, <2>3, <2>4
<1>6. CASE Forgets(q)
  BY <1>6 DEF Forgets
<1>7. CASE Moves(q, "waiting", "queued") \/ Moves(q, "queued", "reading") \/ Moves(q, "returning", "pushed")
  <2>1. /\ query[q].kind = "walk" /\ query'[q].got = query[q].got /\ query'[q].at = query[q].at
        /\ query'[q].from = query[q].from
        /\ \/ /\ query[q].pc \in {"waiting", "queued"}
              /\ query'[q].pc \in {"queued", "reading"}
           \/ query[q].pc = "returning" /\ query'[q].pc = "pushed"
    BY <1>7 DEF Moves
  <2>2. Kept(q)' = Kept(q)
    BY <1>2, <2>1 DEF Kept
  <2>. QED  BY <1>1, <2>1, <2>2 DEF Walked
<1>. QED  BY <1>1, <1>3, <1>4, <1>5, <1>6, <1>7, QueryBecomes

\* Rows that come were not there when a walk began, and those that go are no
\* longer expected of it.
LEMMA WalkNext ==
  ASSUME AskedInv, WalkInv, [Next]_vars
  PROVE  WalkInv'
<1>1. CASE Commit \/ Prune \/ (\E e \in Exports : Export(e)) \/ UNCHANGED vars
  <2>1. UNCHANGED query /\ \A i \in rows' : i \in rows \/ i \notin ever
    BY <1>1, OthersChange DEF AskedInv
  <2>2. ASSUME NEW q \in Queries PROVE Walked(q)'
    <3>1. Walked(q) /\ query[q].from \subseteq ever
      BY DEF WalkInv, AskedInv, Asked
    <3>2. Kept(q)' \in SUBSET Kept(q)
      BY <2>1, <3>1 DEF Kept
    <3>3. \A got, i : DownTo(got, i, Kept(q)) => DownTo(got, i, Kept(q)')
      BY <3>2 DEF DownTo
    <3>4. \A got : ReadTo(got, Kept(q)) => ReadTo(got, Kept(q)')
      BY <3>2, <3>3 DEF ReadTo
    <3>. QED  BY <2>1, <3>1, <3>3, <3>4 DEF Walked
  <2>. QED  BY <2>2 DEF WalkInv
<1>2. ASSUME NEW q \in Queries, Query(q) PROVE WalkInv'
  <2>1. /\ UNCHANGED <<rows, ever>>
        /\ \A p \in Queries \ {q} : query'[p] = query[p]
    BY <1>2, QueryBecomes DEF AskedInv
  <2>2. \A p \in Queries \ {q} : Walked(p)'
    BY <2>1 DEF Walked, WalkInv, Kept
  <2>3. Walked(q)'
    BY <1>2, QueryWalks
  <2>. QED  BY <2>2, <2>3 DEF WalkInv
<1>. QED  BY <1>1, <1>2 DEF Next

\* A client that passes the last id it saw is shown each row that stays, and none
\* twice, whatever is committed and pruned between its pages.
THEOREM WalksShowAll == Spec => []WalkShowsAll
<1>1. Init => WalkInv
  BY DEF Init, WalkInv, Walked, NoQuery
<1>2. AskedInv /\ WalkInv => WalkShowsAll
  <2> SUFFICES ASSUME AskedInv, WalkInv, NEW q \in Queries, query[q].kind = "walk"
               PROVE  /\ Descends(query[q].got)
                      /\ At(q, "returning") /\ ~WalksOn(q) =>
                           Stayed(q) \cap Hits \subseteq
                             UNION {query[q].got[k] : k \in DOMAIN query[q].got}
    BY DEF WalkShowsAll, Descends
  <2>1. Descends(query[q].got) /\ (query[q].pc = "returning" => ReadTo(query[q].got, Kept(q)))
    BY DEF WalkInv, Walked
  <2>2. ASSUME At(q, "returning"), ~WalksOn(q), NEW x \in Kept(q)
        PROVE  Shown(query[q].got, x)
    BY <2>1, <2>2 DEF ReadTo, WalksOn, PageOf, At
  <2>3. Stayed(q) \cap Hits = Kept(q)
    BY DEF Stayed, Kept
  <2>. QED  BY <2>1, <2>2, <2>3 DEF Shown
<1>. QED  BY <1>1, <1>2, AskedInit, AskedNext, WalkNext, PTL DEF Spec

----------------------------------------------------------------------------
(* The statements of a context.                                            *)

\* A set of rows below i, or above it, that leaves out none that is kept between
\* i and one of them.
UpToRow(S, i, kept) == \A m \in S : m < i /\ \A j \in kept : m <= j /\ j < i => j \in S
FromRow(S, i, kept) == \A m \in S : i < m /\ \A j \in kept : i < j /\ j <= m => j \in S

\* The parts of a context that were read lie around the row without a gap; it goes
\* beyond its first statement only if the row is there.
Surrounded(q) ==
  LET got == query[q].got
      i == query[q].at IN
    query[q].kind = "context" =>
      /\ i \in Nat
      /\ Len(got) = 1 /\ query[q].pc \in {"waiting", "queued", "reading"} => got[1] = {i}
      /\ Len(got) >= 2 => got[1] = {i} /\ UpToRow(got[2], i, Stayed(q))
      /\ Len(got) >= 3 => FromRow(got[3], i, Stayed(q))

ContextInv == \A q \in Queries : Surrounded(q)

\* The newest below a row and the oldest above it leave out none between.
LEMMA AroundIsClosed ==
  ASSUME NEW R \in SUBSET Ids, NEW i \in Nat, NEW kept \in SUBSET R
  PROVE  /\ UpToRow(Newest(Around, {j \in R : j < i}), i, kept)
         /\ FromRow(Oldest(Around, {j \in R : j > i}), i, kept)
<1> USE ReadersAssumption
<1>1. \A j \in R : j \in Nat
  OBVIOUS
<1>2. UpToRow(Newest(Around, {j \in R : j < i}), i, kept)
  <2> DEFINE S == {j \in R : j < i}
  <2>1. S \in SUBSET Ids /\ S \in SUBSET Nat /\ IsFiniteSet(S)
    BY FS_Subset
  <2>2. ASSUME NEW m \in Newest(Around, S) PROVE m < i
    BY DEF Newest
  <2>3. ASSUME NEW m \in Newest(Around, S), NEW j \in kept, m <= j, j < i
        PROVE  j \in Newest(Around, S)
    <3>1. j \in S /\ m \in Nat /\ j \in Nat
      BY <1>1, <2>1, <2>3 DEF Newest
    <3>2. j >= m
      BY <2>3, <3>1
    <3>. HIDE DEF S
    <3>. QED  BY <2>1, <3>1, <3>2, NewestClosed
  <2>. QED  BY <2>2, <2>3 DEF UpToRow
<1>3. FromRow(Oldest(Around, {j \in R : j > i}), i, kept)
  <2> DEFINE S == {j \in R : j > i}
  <2>1. S \in SUBSET Ids /\ S \in SUBSET Nat /\ IsFiniteSet(S)
    BY FS_Subset
  <2>2. ASSUME NEW m \in Oldest(Around, S) PROVE i < m
    <3>1. m \in R /\ m > i
      BY DEF Oldest
    <3>. QED  BY <1>1, <3>1
  <2>3. ASSUME NEW m \in Oldest(Around, S), NEW j \in kept, i < j, j <= m
        PROVE  j \in Oldest(Around, S)
    <3>1. j \in Nat /\ j \in R
      BY <1>1
    <3>2. j \in S
      BY <2>3, <3>1
    <3>. HIDE DEF S
    <3>. QED  BY <2>1, <2>3, <3>2, OldestClosed
  <2>. QED  BY <2>2, <2>3 DEF FromRow
<1>. QED  BY <1>2, <1>3

\* A statement of a context adds the row, what is below it or what is above it.
LEMMA RunSurrounds ==
  ASSUME AskedInv, ContextInv, NEW q \in Queries, Run(q), query'[q].kind = "context"
  PROVE  Surrounded(q)'
<1> DEFINE got == query[q].got
           done == query'[q].got
           n == Len(got) + 1
           i == query[q].at
<1>1. /\ UNCHANGED <<rows, ever>> /\ rows \in SUBSET Ids
      /\ got \in Seq(SUBSET Ids)
  BY DEF Run, AskedInv, Asked
<1>2. /\ query[q].pc = "reading" /\ query[q].kind = "context"
      /\ query'[q].from = query[q].from /\ query'[q].at = i
      /\ Len(done) = n /\ done[n] = Statements(q)[n]
      /\ \A k \in 1..n - 1 : done[k] = got[k]
      /\ query'[q].pc = "reading" <=> ~NotThere(q) /\ n # Len(Statements(q))
      /\ query'[q].pc \in {"reading", "returning"}
  BY RunAdds
<1>3. /\ n \in 1..3
      /\ n = 1 => done[n] = rows \cap {i}
      /\ n = 2 => done[n] = Newest(Around, {j \in rows : j < i})
      /\ n = 3 => done[n] = Oldest(Around, {j \in rows : j > i})
  BY <1>2, StatementsAre DEF Below
<1>4. Stayed(q)' = Stayed(q) /\ Stayed(q) \in SUBSET rows
  BY <1>1, <1>2 DEF Stayed
<1>5. /\ i \in Nat
      /\ Len(got) = 1 => got[1] = {i}
      /\ Len(got) >= 2 => got[1] = {i} /\ UpToRow(got[2], i, Stayed(q))
  BY <1>2 DEF ContextInv, Surrounded
<1>6. Len(got) \in Nat /\ (Len(got) = 0 => got = <<>>)
  BY <1>1, LenProperties, EmptySeq
<1>7. /\ UpToRow(Newest(Around, {j \in rows : j < i}), i, Stayed(q))
      /\ FromRow(Oldest(Around, {j \in rows : j > i}), i, Stayed(q))
  BY <1>1, <1>4, <1>5, AroundIsClosed
<1>8. CASE n = 1
  <2>1. got = <<>> /\ done[1] = rows \cap {i} /\ Len(done) = 1
    BY <1>2, <1>3, <1>6, <1>8
  <2>2. query'[q].pc \in {"waiting", "queued", "reading"} => done[1] = {i}
    BY <1>2, <2>1 DEF NotThere
  <2>. QED  BY <1>2, <1>5, <2>1, <2>2 DEF Surrounded
<1>9. CASE n = 2
  <2>0. Len(got) = 1 /\ 1 \in 1..n - 1
    <3>1. Len(got) \in Nat
      BY <1>6
    <3>2. Len(got) + 1 = 2
      BY <1>9
    <3>3. \A x \in Nat : x + 1 = 2 => x = 1
      OBVIOUS
    <3>4. Len(got) = 1
      BY <3>1, <3>2, <3>3, Zenon
    <3>. QED  BY <1>9, <3>4
  <2>1. Len(done) = 2 /\ done[1] = {i} /\ done[2] = Newest(Around, {j \in rows : j < i})
    <3>1. done[1] = got[1]
      BY <1>2, <2>0
    <3>. QED  BY <1>2, <1>3, <1>5, <1>9, <2>0, <3>1
  <2>2. UpToRow(done[2], i, Stayed(q)')
    BY <1>4, <1>7, <2>1
  <2>. QED  BY <1>2, <1>5, <2>1, <2>2 DEF Surrounded
<1>10. CASE n = 3
  <2>1. /\ Len(done) = 3 /\ done[1] = {i} /\ done[2] = got[2]
        /\ done[3] = Oldest(Around, {j \in rows : j > i})
        /\ UpToRow(got[2], i, Stayed(q))
    BY <1>2, <1>3, <1>5, <1>6, <1>10
  <2>2. UpToRow(done[2], i, Stayed(q)') /\ FromRow(done[3], i, Stayed(q)')
    BY <1>4, <1>7, <2>1
  <2>. QED  BY <1>2, <1>5, <2>1, <2>2 DEF Surrounded
<1>. QED  BY <1>3, <1>8, <1>9, <1>10

\* A step of a query keeps its context without a gap.
LEMMA QuerySurrounds ==
  ASSUME AskedInv, ContextInv, NEW q \in Queries, Query(q)
  PROVE  Surrounded(q)'
<1> SUFFICES ASSUME query'[q].kind = "context" PROVE Surrounded(q)'
  BY DEF Surrounded
<1>1. /\ Asked(q) /\ Surrounded(q) /\ DOMAIN query = Queries
  BY DEF AskedInv, ContextInv
<1>2. UNCHANGED <<rows, ever>>
  BY <1>1, QueryBecomes
<1>3. CASE Ask(q)
  <2>1. PICK k \in Kinds[q], i \in Ids :
          query' = [query EXCEPT ![q] = [pc |-> "waiting", kind |-> k, got |-> <<>>,
                                         from |-> IF k = "count" THEN {} ELSE rows,
                                         at |-> IF k = "context" THEN i ELSE Max(Ids) + 1]]
    BY <1>3 DEF Ask
  <2>2. query'[q].at = i /\ query'[q].got = <<>>
    BY <1>1, <2>1
  <2>3. Len(query'[q].got) = 0 /\ i \in Nat
    BY <2>2, EmptySeq, ReadersAssumption
  <2>. QED  BY <2>2, <2>3 DEF Surrounded
<1>4. CASE Run(q)
  BY <1>4, RunSurrounds
<1>5. CASE NextPage(q)
  BY <1>5 DEF NextPage, WalksOn
<1>6. CASE Forgets(q)
  BY <1>6 DEF Forgets
<1>7. CASE Moves(q, "waiting", "queued") \/ Moves(q, "queued", "reading") \/ Moves(q, "returning", "pushed")
  <2>1. /\ query[q].kind = "context" /\ query'[q].got = query[q].got /\ query'[q].at = query[q].at
        /\ query'[q].from = query[q].from
        /\ \/ /\ query[q].pc \in {"waiting", "queued"}
              /\ query'[q].pc \in {"queued", "reading"}
           \/ query[q].pc = "returning" /\ query'[q].pc = "pushed"
    BY <1>7 DEF Moves
  <2>2. Stayed(q)' = Stayed(q)
    BY <1>2, <2>1 DEF Stayed
  <2>. QED  BY <1>1, <2>1, <2>2 DEF Surrounded
<1>. QED  BY <1>1, <1>3, <1>4, <1>5, <1>6, <1>7, QueryBecomes

\* Rows that come or go between the statements make no gap among those that stay.
LEMMA ContextNext ==
  ASSUME AskedInv, ContextInv, [Next]_vars
  PROVE  ContextInv'
<1>1. CASE Commit \/ Prune \/ (\E e \in Exports : Export(e)) \/ UNCHANGED vars
  <2>1. UNCHANGED query /\ \A i \in rows' : i \in rows \/ i \notin ever
    BY <1>1, OthersChange DEF AskedInv
  <2>2. ASSUME NEW q \in Queries PROVE Surrounded(q)'
    <3>1. Surrounded(q) /\ query[q].from \subseteq ever
      BY DEF ContextInv, AskedInv, Asked
    <3>2. Stayed(q)' \in SUBSET Stayed(q)
      BY <2>1, <3>1 DEF Stayed
    <3>3. \A S, i : /\ UpToRow(S, i, Stayed(q)) => UpToRow(S, i, Stayed(q)')
                    /\ FromRow(S, i, Stayed(q)) => FromRow(S, i, Stayed(q)')
      BY <3>2 DEF UpToRow, FromRow
    <3>. QED  BY <2>1, <3>1, <3>3 DEF Surrounded
  <2>. QED  BY <2>2 DEF ContextInv
<1>2. ASSUME NEW q \in Queries, Query(q) PROVE ContextInv'
  <2>1. /\ UNCHANGED <<rows, ever>>
        /\ \A p \in Queries \ {q} : query'[p] = query[p]
    BY <1>2, QueryBecomes DEF AskedInv
  <2>2. \A p \in Queries \ {q} : Surrounded(p)'
    BY <2>1 DEF Surrounded, ContextInv, Stayed
  <2>3. Surrounded(q)'
    BY <1>2, QuerySurrounds
  <2>. QED  BY <2>2, <2>3 DEF ContextInv
<1>. QED  BY <1>1, <1>2 DEF Next

\* Between the first and the last line of a context no line is missing that was
\* stored all the while, although its three statements see three tables.
THEOREM ContextsAreGapless == Spec => []ContextIsGapless
<1>1. Init => ContextInv
  BY DEF Init, ContextInv, Surrounded, NoQuery
<1>2. AskedInv /\ ContextInv => ContextIsGapless
  <2> SUFFICES ASSUME AskedInv, ContextInv, NEW q \in Queries, query[q].kind = "context",
                      Len(query[q].got) = 3,
                      NEW j \in Stayed(q),
                      j >= Min(query[q].got[1] \cup query[q].got[2] \cup query[q].got[3]),
                      j <= Max(query[q].got[1] \cup query[q].got[2] \cup query[q].got[3])
               PROVE  j \in query[q].got[1] \cup query[q].got[2] \cup query[q].got[3]
    BY DEF ContextIsGapless
  <2> DEFINE below == query[q].got[2]
             above == query[q].got[3]
             i == query[q].at
             shown == query[q].got[1] \cup below \cup above
  <2>1. /\ query[q].got[1] = {i} /\ i \in Nat
        /\ UpToRow(below, i, Stayed(q)) /\ FromRow(above, i, Stayed(q))
    BY DEF ContextInv, Surrounded
  <2>2. \A k \in 1..3 : query[q].got[k] \in SUBSET Ids
    BY ElementOfSeq DEF AskedInv, Asked
  <2>3. query[q].got[1] \in SUBSET Ids /\ below \in SUBSET Ids /\ above \in SUBSET Ids
    BY <2>2
  <2>4. shown \in SUBSET Nat /\ IsFiniteSet(shown) /\ shown # {}
    BY <2>1, <2>3, FS_Subset, ReadersAssumption
  <2>5. j \in Nat
    BY ReadersAssumption DEF Stayed, AskedInv, Asked
  <2>. HIDE DEF shown
  <2>6. /\ Min(shown) \in shown /\ Max(shown) \in shown
        /\ Min(shown) \in Nat /\ Max(shown) \in Nat
    BY <2>4, LeastIs, GreatestIs
  <2>7. Min(shown) <= j /\ j <= Max(shown)
    BY <2>5, <2>6 DEF shown
  <2>8. CASE j = i
    BY <2>1, <2>8 DEF shown
  <2>9. CASE j < i
    <3>1. Min(shown) < i
      BY <2>1, <2>5, <2>6, <2>7, <2>9
    <3>2. ASSUME NEW m \in above PROVE ~ (m < i)
      <4>1. m \in Nat
        BY <2>3, ReadersAssumption
      <4>. QED  BY <2>1, <4>1 DEF FromRow
    <3>3. Min(shown) \in below
      BY <2>1, <2>6, <3>1, <3>2 DEF shown
    <3>. QED  BY <2>1, <2>7, <2>9, <3>3 DEF UpToRow, shown
  <2>10. CASE j > i
    <3>1. Max(shown) > i
      BY <2>1, <2>5, <2>6, <2>7, <2>10
    <3>2. ASSUME NEW m \in below PROVE ~ (m > i)
      <4>1. m \in Nat
        BY <2>3, ReadersAssumption
      <4>. QED  BY <2>1, <4>1 DEF UpToRow
    <3>3. Max(shown) \in above
      BY <2>1, <2>6, <3>1, <3>2 DEF shown
    <3>4. i < j
      BY <2>1, <2>5, <2>10
    <3>. QED  BY <2>1, <2>7, <3>3, <3>4 DEF FromRow, shown
  <2>. QED  BY <2>1, <2>5, <2>8, <2>9, <2>10
<1>. QED  BY <1>1, <1>2, AskedInit, AskedNext, ContextNext, PTL DEF Spec

----------------------------------------------------------------------------
(* The largest groups.                                                     *)

\* Groups of ids are finitely many numbers, and fewer rows make no group larger.
LEMMA GroupsAre ==
  ASSUME NEW f \in [Ids -> Nat], NEW S \in SUBSET Ids
  PROVE  /\ Groups(f, S) \in SUBSET Nat /\ IsFiniteSet(Groups(f, S))
         /\ \A g : Count(f, S, g) \in Nat
         /\ \A T \in SUBSET S : \A g : Count(f, T, g) <= Count(f, S, g)
<1>1. IsFiniteSet(S)
  BY FS_Subset, ReadersAssumption
<1>2. Groups(f, S) \in SUBSET Nat
  BY DEF Groups
<1>3. IsFiniteSet(Groups(f, S))
  <2> DEFINE onto == [i \in S |-> f[i]]
  <2>1. onto \in Surjection(S, Groups(f, S))
    BY DEF Surjection, Groups
  <2>. QED  BY <1>1, <2>1, FS_Surjection
<1>4. ASSUME NEW g
      PROVE  IsFiniteSet({i \in S : f[i] = g}) /\ Count(f, S, g) \in Nat
  <2>1. {i \in S : f[i] = g} \in SUBSET S
    OBVIOUS
  <2>2. IsFiniteSet({i \in S : f[i] = g})
    BY <1>1, <2>1, FS_Subset
  <2>. QED  BY <2>2, FS_CardinalityType DEF Count
<1>5. ASSUME NEW T \in SUBSET S, NEW g PROVE Count(f, T, g) <= Count(f, S, g)
  <2>1. {i \in T : f[i] = g} \in SUBSET {i \in S : f[i] = g}
    OBVIOUS
  <2>. QED  BY <1>4, <2>1, FS_Subset DEF Count
<1>. QED  BY <1>2, <1>3, <1>4, <1>5

\* ORDER BY COUNT(*) DESC is an order: what is ahead of a group has fewer ahead of
\* it, and of two groups one is ahead.
LEMMA AheadIsOrder ==
  ASSUME NEW f \in [Ids -> Nat], NEW S \in SUBSET Ids, NEW g \in Groups(f, S)
  PROVE  /\ Ahead(f, S, g) \in SUBSET Groups(f, S)
         /\ IsFiniteSet(Ahead(f, S, g)) /\ Cardinality(Ahead(f, S, g)) \in Nat
         /\ \A h \in Ahead(f, S, g) :
              /\ Ahead(f, S, h) \in SUBSET Ahead(f, S, g)
              /\ Cardinality(Ahead(f, S, h)) < Cardinality(Ahead(f, S, g))
         /\ \A h \in Groups(f, S) : Count(f, S, h) > Count(f, S, g) => h \in Ahead(f, S, g)
<1> DEFINE ahead(h) == Ahead(f, S, h)
<1>1. /\ \A h \in Groups(f, S) : h \in Nat /\ Count(f, S, h) \in Nat
      /\ IsFiniteSet(Groups(f, S))
  BY GroupsAre
<1>2. \A h : ahead(h) \in SUBSET Groups(f, S)
  BY DEF Ahead
<1>3. \A h : IsFiniteSet(ahead(h)) /\ Cardinality(ahead(h)) \in Nat
  <2> TAKE h
  <2>1. IsFiniteSet(ahead(h))
    BY <1>1, <1>2, FS_Subset
  <2>. QED  BY <2>1, FS_CardinalityType
<1>4. ASSUME NEW h \in ahead(g)
      PROVE  ahead(h) \in SUBSET ahead(g) /\ Cardinality(ahead(h)) < Cardinality(ahead(g))
  <2>1. h \in Groups(f, S) /\ h \notin ahead(h)
    BY <1>1, <1>2 DEF Ahead
  <2>2. ahead(h) \in SUBSET ahead(g)
    <3>1. ASSUME NEW k \in ahead(h) PROVE k \in ahead(g)
      <4>1. k \in Groups(f, S)
        BY <1>2
      <4>2. /\ g \in Nat /\ h \in Nat /\ k \in Nat
            /\ Count(f, S, g) \in Nat /\ Count(f, S, h) \in Nat /\ Count(f, S, k) \in Nat
        BY <1>1, <2>1, <4>1
      <4>3. /\ Count(f, S, k) > Count(f, S, h) \/ (Count(f, S, k) = Count(f, S, h) /\ k < h)
            /\ Count(f, S, h) > Count(f, S, g) \/ (Count(f, S, h) = Count(f, S, g) /\ h < g)
        BY <1>4, <3>1 DEF Ahead
      <4>4. Count(f, S, k) > Count(f, S, g) \/ (Count(f, S, k) = Count(f, S, g) /\ k < g)
        BY <4>2, <4>3
      <4>. QED  BY <4>1, <4>4 DEF Ahead
    <3>. QED  BY <3>1
  <2>3. ahead(h) # ahead(g)
    BY <1>4, <2>1
  <2>4. Cardinality(ahead(h)) <= Cardinality(ahead(g)) /\ Cardinality(ahead(h)) # Cardinality(ahead(g))
    BY <1>3, <2>2, <2>3, FS_Subset
  <2>. HIDE DEF ahead
  <2>. QED  BY <1>3, <2>2, <2>4
<1>5. \A h \in Groups(f, S) : Count(f, S, h) > Count(f, S, g) => h \in ahead(g)
  BY DEF Ahead
<1>. QED  BY <1>2, <1>3, <1>4, <1>5

\* Whatever of a set of rows stays, the largest groups of that set leave none of it
\* out but for as many larger groups as there may be.
LEMMA TopCounts ==
  ASSUME NEW f \in [Ids -> Nat], NEW S \in SUBSET Ids, NEW stays \in SUBSET S
  PROVE  TopCounted(f, Top(f, S), stays)
<1> DEFINE part == Top(f, S)
           rank(g) == Cardinality(Ahead(f, S, g))
<1>1. /\ IsFiniteSet(Groups(f, S)) /\ Groups(f, S) \in SUBSET Nat
      /\ \A g : Count(f, S, g) \in Nat /\ Count(f, stays, g) \in Nat
      /\ \A g : Count(f, stays, g) <= Count(f, S, g)
  BY GroupsAre
<1>2. part \in SUBSET S /\ \A i \in S : i \in part <=> rank(f[i]) < TopNames
  BY DEF Top
<1>3. \A i \in S : f[i] \in Groups(f, S)
  BY DEF Groups
<1>4. /\ \A g \in Groups(f, S) : rank(g) \in Nat
      /\ \A g \in Groups(f, S) : \A h \in Ahead(f, S, g) :
           h \in Groups(f, S) /\ rank(h) < rank(g)
      /\ \A g, h \in Groups(f, S) : Count(f, S, h) > Count(f, S, g) => h \in Ahead(f, S, g)
  BY AheadIsOrder
<1>5. TopNames \in Nat
  BY ReadersAssumption
<1>6. Groups(f, part) \in SUBSET Groups(f, S) /\ IsFiniteSet(Groups(f, part))
  <2>1. Groups(f, part) \in SUBSET Groups(f, S)
    BY <1>2 DEF Groups
  <2>. QED  BY <1>1, <2>1, FS_Subset
<1>7. \A g \in Groups(f, S) : g \in Groups(f, part) <=> rank(g) < TopNames
  <2> TAKE g \in Groups(f, S)
  <2>1. PICK i \in S : g = f[i]
    BY DEF Groups
  <2>2. ASSUME g \in Groups(f, part) PROVE rank(g) < TopNames
    <3>1. PICK j \in part : g = f[j]
      BY <2>2 DEF Groups
    <3>. QED  BY <1>2, <3>1
  <2>3. ASSUME rank(g) < TopNames PROVE g \in Groups(f, part)
    BY <1>2, <2>1, <2>3 DEF Groups
  <2>. QED  BY <2>2, <2>3
<1>8. \A g \in Groups(f, part) : Count(f, part, g) = Count(f, S, g)
  <2> TAKE g \in Groups(f, part)
  <2>1. rank(g) < TopNames
    BY <1>6, <1>7
  <2>2. {i \in part : f[i] = g} = {i \in S : f[i] = g}
    BY <1>2, <2>1
  <2>. QED  BY <2>2 DEF Count
<1>. HIDE DEF part, rank
<1>9. ASSUME NEW i \in stays \ part
      PROVE  /\ f[i] \notin Groups(f, part)
             /\ Cardinality(Groups(f, part)) >= TopNames
             /\ \A g \in Groups(f, part) : Count(f, part, g) >= Count(f, stays, f[i])
  <2>1. f[i] \in Groups(f, S) /\ ~ (rank(f[i]) < TopNames)
    BY <1>2, <1>3
  <2>2. f[i] \notin Groups(f, part)
    BY <1>7, <2>1
  <2>3. Cardinality(Groups(f, part)) >= TopNames
    <3> DEFINE unlisted == {g \in Groups(f, S) : ~ (rank(g) < TopNames)}
               ranks == {rank(g) : g \in unlisted}
    <3>1. ranks \in SUBSET Nat /\ ranks # {}
      BY <1>4, <2>1
    <3>2. Min(ranks) \in ranks /\ \A r \in ranks : Min(ranks) <= r
      <4>. HIDE DEF ranks
      <4>. QED  BY <3>1, LeastIs
    <3>3. PICK m \in unlisted : rank(m) = Min(ranks)
      BY <3>2
    <3>4. \A g \in unlisted : rank(m) <= rank(g)
      BY <3>2, <3>3
    <3>5. ASSUME NEW h \in Ahead(f, S, m) PROVE h \in Groups(f, part)
      <4>1. h \in Groups(f, S) /\ rank(h) < rank(m) /\ rank(h) \in Nat /\ rank(m) \in Nat
        BY <1>4
      <4>2. h \notin unlisted
        BY <3>4, <4>1
      <4>. QED  BY <1>7, <4>1, <4>2
    <3>6. rank(m) <= Cardinality(Groups(f, part))
      BY <1>6, <3>5, FS_Subset DEF rank
    <3>7. rank(m) \in Nat /\ rank(m) >= TopNames /\ Cardinality(Groups(f, part)) \in Nat
      BY <1>4, <1>5, <1>6, FS_CardinalityType
    <3>. QED  BY <1>5, <3>6, <3>7
  <2>4. ASSUME NEW g \in Groups(f, part) PROVE Count(f, part, g) >= Count(f, stays, f[i])
    <3>1. g \in Groups(f, S) /\ rank(g) < TopNames
      BY <1>6, <1>7
    <3>2. ~ (Count(f, S, f[i]) > Count(f, S, g))
      <4>1. ASSUME f[i] \in Ahead(f, S, g) PROVE FALSE
        <5>1. rank(f[i]) < rank(g) /\ rank(f[i]) \in Nat /\ rank(g) \in Nat
          BY <1>4, <2>1, <3>1, <4>1
        <5>. QED  BY <1>5, <2>1, <3>1, <5>1
      <4>. QED  BY <1>4, <2>1, <3>1, <4>1
    <3>3. Count(f, stays, f[i]) <= Count(f, S, f[i]) /\ Count(f, part, g) = Count(f, S, g)
      BY <1>1, <1>8
    <3>. QED  BY <1>1, <3>2, <3>3
  <2>. QED  BY <2>2, <2>3, <2>4
<1>. QED  BY <1>9 DEF TopCounted, part

\* It stays so when less of it stays.
LEMMA TopStillCounts ==
  ASSUME NEW f \in [Ids -> Nat], NEW part \in SUBSET Ids,
         NEW stays \in SUBSET Ids, NEW fewer \in SUBSET stays,
         TopCounted(f, part, stays)
  PROVE  TopCounted(f, part, fewer)
<1>1. \A g : /\ Count(f, fewer, g) <= Count(f, stays, g)
             /\ Count(f, fewer, g) \in Nat /\ Count(f, stays, g) \in Nat
             /\ Count(f, part, g) \in Nat
  BY GroupsAre
<1>2. ASSUME NEW i \in fewer \ part, NEW g \in Groups(f, part)
      PROVE  Count(f, part, g) >= Count(f, fewer, f[i])
  <2>1. Count(f, part, g) >= Count(f, stays, f[i])
    BY DEF TopCounted
  <2>. QED  BY <1>1, <2>1
<1>. QED  BY <1>2 DEF TopCounted

----------------------------------------------------------------------------
(* The statements of the stats.                                            *)

\* The rows of the window that stayed since the stats were asked.
Inside(q) == Stayed(q) \cap Window

\* What one of the four statements is to count.
Counts(k, part, stays) ==
  /\ k \in 1..2 => stays \subseteq part
  /\ k = 3 => TopCounted(Device, part, stays)
  /\ k = 4 => TopCounted(Tag, part, stays)

\* The stats that were read count what stayed; all four are read before the end.
Counted(q) ==
  query[q].kind = "stats" =>
    /\ \A k \in DOMAIN query[q].got : Counts(k, query[q].got[k], Inside(q))
    /\ query[q].pc = "returning" => Len(query[q].got) = 4

StatsInv == \A q \in Queries : Counted(q)

\* What was counted stays counted when less of it stays.
LEMMA StillCounts ==
  ASSUME NEW k, NEW part \in SUBSET Ids, NEW stays \in SUBSET Ids, NEW fewer \in SUBSET stays,
         Counts(k, part, stays)
  PROVE  Counts(k, part, fewer)
<1>1. Device \in [Ids -> Nat] /\ Tag \in [Ids -> Nat]
  BY ReadersAssumption
<1>. QED  BY <1>1, TopStillCounts DEF Counts

\* Whichever statement of the stats is next, it counts the rows that stayed.
LEMMA RunCounts ==
  ASSUME AskedInv, StatsInv, NEW q \in Queries, Run(q), query'[q].kind = "stats"
  PROVE  Counted(q)'
<1> DEFINE got == query[q].got
           done == query'[q].got
           n == Len(got) + 1
           inside == rows \cap Window
<1>1. /\ UNCHANGED <<rows, ever>> /\ rows \in SUBSET Ids
      /\ got \in Seq(SUBSET Ids)
  BY DEF Run, AskedInv, Asked
<1>2. /\ query[q].pc = "reading" /\ query[q].kind = "stats"
      /\ query'[q].from = query[q].from
      /\ done \in Seq(SUBSET Ids) /\ Len(done) = n /\ done[n] = Statements(q)[n]
      /\ \A k \in 1..n - 1 : done[k] = got[k]
      /\ query'[q].pc = "reading" <=> ~NotThere(q) /\ n # Len(Statements(q))
  BY RunAdds
<1>3. /\ Len(Statements(q)) = 4 /\ n \in 1..4
      /\ n \in 1..2 => done[n] = inside
      /\ n = 3 => done[n] = Top(Device, inside)
      /\ n = 4 => done[n] = Top(Tag, inside)
  BY <1>2, StatementsAre
<1>4. Inside(q)' = Inside(q) /\ Inside(q) \in SUBSET inside /\ inside \in SUBSET Ids
  BY <1>1, <1>2 DEF Inside, Stayed
<1>5. Device \in [Ids -> Nat] /\ Tag \in [Ids -> Nat]
  BY ReadersAssumption
<1>6. DOMAIN got = 1..n - 1 /\ DOMAIN done = 1..n
  <2>1. Len(got) \in Nat /\ DOMAIN got = 1..Len(got)
    BY <1>1, LenProperties
  <2>2. Len(got) = n - 1
    BY <2>1
  <2>. QED  BY <1>2, <2>1, <2>2, LenProperties
<1>. HIDE DEF n, done, inside
<1>7. Counts(n, done[n], Inside(q))
  BY <1>3, <1>4, <1>5, TopCounts DEF Counts
<1>8. ASSUME NEW k \in 1..n - 1 PROVE Counts(k, done[k], Inside(q))
  <2>1. Counts(k, got[k], Inside(q))
    BY <1>2, <1>6 DEF StatsInv, Counted
  <2>. QED  BY <1>2, <2>1
<1>9. ASSUME NEW k \in 1..n PROVE Counts(k, done[k], Inside(q))
  <2>1. k = n \/ k \in 1..n - 1
    BY <1>3
  <2>. QED  BY <1>7, <1>8, <2>1
<1>10. query'[q].pc = "returning" => Len(done) = 4
  <2>1. ~NotThere(q)
    BY <1>2 DEF NotThere
  <2>. QED  BY <1>2, <1>3, <2>1
<1>11. \A k \in DOMAIN done : Counts(k, done[k], Inside(q)')
  BY <1>4, <1>6, <1>9
<1>. QED  BY <1>10, <1>11 DEF Counted, Counts, done

\* A step of a query leaves what it counted as it is.
LEMMA QueryCounts ==
  ASSUME AskedInv, StatsInv, NEW q \in Queries, Query(q)
  PROVE  Counted(q)'
<1> SUFFICES ASSUME query'[q].kind = "stats" PROVE Counted(q)'
  BY DEF Counted
<1>1. Counted(q) /\ DOMAIN query = Queries
  BY DEF AskedInv, StatsInv
<1>2. UNCHANGED <<rows, ever>>
  BY <1>1, QueryBecomes
<1>3. CASE Ask(q)
  <2>1. query'[q].pc = "waiting" /\ query'[q].got = <<>>
    BY <1>1, <1>3 DEF Ask
  <2>2. DOMAIN query'[q].got = {}
    BY <2>1, EmptySeq
  <2>. QED  BY <2>1, <2>2 DEF Counted
<1>4. CASE Run(q)
  BY <1>4, RunCounts
<1>5. CASE NextPage(q)
  BY <1>5 DEF NextPage, WalksOn
<1>6. CASE Forgets(q)
  BY <1>6 DEF Forgets
<1>7. CASE Moves(q, "waiting", "queued") \/ Moves(q, "queued", "reading") \/ Moves(q, "returning", "pushed")
  <2>1. /\ query[q].kind = "stats" /\ query'[q].got = query[q].got
        /\ query'[q].from = query[q].from /\ query'[q].pc # "returning"
    BY <1>7 DEF Moves
  <2>2. Inside(q)' = Inside(q)
    BY <1>2, <2>1 DEF Inside, Stayed
  <2>. QED  BY <1>1, <2>1, <2>2 DEF Counted, Counts
<1>. QED  BY <1>1, <1>3, <1>4, <1>5, <1>6, <1>7, QueryBecomes

\* Rows that come or go between the statements change nothing of what stays counted.
LEMMA StatsNext ==
  ASSUME AskedInv, StatsInv, [Next]_vars
  PROVE  StatsInv'
<1>1. CASE Commit \/ Prune \/ (\E e \in Exports : Export(e)) \/ UNCHANGED vars
  <2>1. UNCHANGED query /\ \A i \in rows' : i \in rows \/ i \notin ever
    BY <1>1, OthersChange DEF AskedInv
  <2>2. ASSUME NEW q \in Queries PROVE Counted(q)'
    <3>1. /\ Counted(q) /\ query[q].from \subseteq ever /\ rows \subseteq Ids
          /\ query[q].got \in Seq(SUBSET Ids)
      BY DEF StatsInv, AskedInv, Asked
    <3>2. Inside(q)' \in SUBSET Inside(q) /\ Inside(q) \in SUBSET Ids
      BY <2>1, <3>1 DEF Inside, Stayed
    <3>3. ASSUME NEW k \in DOMAIN query[q].got, Counts(k, query[q].got[k], Inside(q))
          PROVE  Counts(k, query[q].got[k], Inside(q)')
      <4>1. query[q].got[k] \in SUBSET Ids
        BY <3>1, ElementOfSeq, LenProperties
      <4>. QED  BY <3>2, <3>3, <4>1, StillCounts
    <3>. QED  BY <2>1, <3>1, <3>3 DEF Counted, Counts
  <2>. QED  BY <2>2 DEF StatsInv
<1>2. ASSUME NEW q \in Queries, Query(q) PROVE StatsInv'
  <2>1. /\ UNCHANGED <<rows, ever>>
        /\ \A p \in Queries \ {q} : query'[p] = query[p]
    BY <1>2, QueryBecomes DEF AskedInv
  <2>2. \A p \in Queries \ {q} : Counted(p)'
    BY <2>1 DEF Counted, Counts, StatsInv, Inside, Stayed
  <2>3. Counted(q)'
    BY <1>2, QueryCounts
  <2>. QED  BY <2>2, <2>3 DEF StatsInv
<1>. QED  BY <1>1, <1>2 DEF Next

\* The total and the levels count every row of the window that was stored all the
\* while, and a device or a tag is left out for larger ones only, although the four
\* statements see four tables.
THEOREM StatsCountWhatStays == Spec => []StatsAgree
<1>1. Init => StatsInv
  BY DEF Init, StatsInv, Counted, NoQuery
<1>2. AskedInv /\ StatsInv => StatsAgree
  <2> SUFFICES ASSUME AskedInv, StatsInv, NEW q \in Queries,
                      query[q].kind = "stats", query[q].pc = "returning"
               PROVE  /\ Inside(q) \subseteq query[q].got[1] \cap query[q].got[2]
                      /\ TopCounted(Device, query[q].got[3], Inside(q))
                      /\ TopCounted(Tag, query[q].got[4], Inside(q))
    BY DEF StatsAgree, At, Inside
  <2>1. DOMAIN query[q].got = 1..4 /\ \A k \in DOMAIN query[q].got : Counts(k, query[q].got[k], Inside(q))
    BY LenProperties DEF AskedInv, Asked, StatsInv, Counted
  <2>. QED  BY <2>1 DEF Counts
<1>. QED  BY <1>1, <1>2, AskedInit, AskedNext, StatsNext, PTL DEF Spec

----------------------------------------------------------------------------
(* The slots of exports, and the threads.                                  *)

\* The exports that own a slot.
HasSlot(place) == place \in {"queued", "rows"}
Slotted == {e \in Exports : HasSlot(export[e].pc)}

ExportPlaces == {"new", "waiting", "queued", "rows", "sent", "cut", "over"}

\* Of an export: its place, its channel and what it took to send.
Exported(e) ==
  /\ export[e].pc \in ExportPlaces
  /\ \E X : export[e].chan \in Seq(X)
  /\ Len(export[e].chan) <= ChunkBuffer
  /\ export[e].snap \subseteq ever

\* Each slot is in the semaphore or owned by an export.
SlotInv ==
  /\ DOMAIN export = Exports
  /\ slots \in Nat
  /\ IsFiniteSet(Slotted) /\ slots + Cardinality(Slotted) = MaxExports
  /\ \A e \in Exports : Exported(e)

\* What one export does to the number of those that own a slot.
LEMMA SlotMoves ==
  ASSUME SlotInv, NEW e \in Exports, DOMAIN export' = Exports,
         \A f \in Exports \ {e} : export'[f] = export[f]
  PROVE  /\ IsFiniteSet(Slotted')
         /\ Cardinality(Slotted) \in Nat /\ Cardinality(Slotted') \in Nat
         /\ HasSlot(export[e].pc) /\ HasSlot(export'[e].pc) =>
              Cardinality(Slotted') = Cardinality(Slotted)
         /\ ~HasSlot(export[e].pc) /\ ~HasSlot(export'[e].pc) =>
              Cardinality(Slotted') = Cardinality(Slotted)
         /\ ~HasSlot(export[e].pc) /\ HasSlot(export'[e].pc) =>
              Cardinality(Slotted') = Cardinality(Slotted) + 1
         /\ HasSlot(export[e].pc) /\ ~HasSlot(export'[e].pc) =>
              Cardinality(Slotted') = Cardinality(Slotted) - 1
<1>1. IsFiniteSet(Slotted)
  BY DEF SlotInv
<1>2. /\ IsFiniteSet(Slotted \cup {e}) /\ IsFiniteSet(Slotted \ {e})
      /\ e \notin Slotted => Cardinality(Slotted \cup {e}) = Cardinality(Slotted) + 1
      /\ e \in Slotted => Cardinality(Slotted \ {e}) = Cardinality(Slotted) - 1
  BY <1>1, FS_AddElement, FS_RemoveElement
<1>3. /\ HasSlot(export[e].pc) /\ HasSlot(export'[e].pc) => Slotted' = Slotted
      /\ ~HasSlot(export[e].pc) /\ ~HasSlot(export'[e].pc) => Slotted' = Slotted
      /\ ~HasSlot(export[e].pc) /\ HasSlot(export'[e].pc) => Slotted' = Slotted \cup {e}
      /\ HasSlot(export[e].pc) /\ ~HasSlot(export'[e].pc) => Slotted' = Slotted \ {e}
      /\ e \in Slotted <=> HasSlot(export[e].pc)
  BY DEF Slotted
<1>4. IsFiniteSet(Slotted')
  BY <1>1, <1>2, <1>3
<1>5. Cardinality(Slotted) \in Nat /\ Cardinality(Slotted') \in Nat
  BY <1>1, <1>4, FS_CardinalityType
<1>. QED  BY <1>2, <1>3, <1>4, <1>5

\* An export sends from what it took, into a channel that has room.
LEMMA SendFits ==
  ASSUME AskedInv, SlotInv, NEW e \in Exports, NEW S, NEW closes, Send(e, S, closes)
  PROVE  /\ DOMAIN export' = Exports /\ \A f \in Exports \ {e} : export'[f] = export[f]
         /\ export'[e].snap = export[e].snap
         /\ export'[e].pc = IF S = ToCome(e) /\ Cardinality(S) < ChunkRows THEN "sent"
                            ELSE export[e].pc
         /\ \E X : export'[e].chan \in Seq(X)
         /\ Len(export'[e].chan) <= ChunkBuffer
<1> DEFINE Sends(chunk) ==
             export' = [export EXCEPT ![e].last = Max(S \cup {@}),
                                      ![e].pc = IF S = ToCome(e) /\ Cardinality(S) < ChunkRows
                                                THEN "sent" ELSE @,
                                      ![e].chan = IF S = {} /\ ~closes THEN @ ELSE Append(@, chunk)]
<1>0. Len(export[e].chan) < ChunkBuffer /\ Sends([ids |-> S, closes |-> closes])
  BY Zenon DEF Send
<1>10. PICK chunk : Sends(chunk)
  BY <1>0, Zenon
<1>1. /\ DOMAIN export' = Exports /\ \A f \in Exports \ {e} : export'[f] = export[f]
      /\ export'[e].snap = export[e].snap
      /\ export'[e].pc = IF S = ToCome(e) /\ Cardinality(S) < ChunkRows THEN "sent"
                         ELSE export[e].pc
      /\ export'[e].chan = IF S = {} /\ ~closes THEN export[e].chan ELSE Append(export[e].chan, chunk)
  BY <1>10 DEF SlotInv
<1>2. PICK X : export[e].chan \in Seq(X)
  BY DEF SlotInv, Exported
<1>3. export[e].chan \in Seq(X \cup {chunk})
  BY <1>2, SeqMonotonic
<1>4. /\ Append(export[e].chan, chunk) \in Seq(X \cup {chunk})
      /\ Len(Append(export[e].chan, chunk)) = Len(export[e].chan) + 1
      /\ Len(export[e].chan) \in Nat
  BY <1>3, AppendProperties, LenProperties
<1>5. export'[e].chan \in Seq(X \cup {chunk}) /\ Len(export'[e].chan) <= ChunkBuffer
  <2> DEFINE old == export[e].chan
             new == export'[e].chan
  <2>1. Len(old) < ChunkBuffer /\ Len(old) \in Nat /\ ChunkBuffer \in Nat
    BY <1>0, <1>4, ReadersAssumption
  <2>2. \A n \in Nat : n < ChunkBuffer => n <= ChunkBuffer /\ n + 1 <= ChunkBuffer
    BY <2>1
  <2>3. CASE new = old
    BY <1>3, <2>1, <2>2, <2>3
  <2>4. CASE new = Append(old, chunk)
    <3>1. Len(new) = Len(old) + 1 /\ new \in Seq(X \cup {chunk})
      BY <1>4, <2>4
    <3>. QED  BY <2>1, <2>2, <3>1
  <2>. QED  BY <1>1, <2>3, <2>4
<1>. QED  BY <1>1, <1>5

\* An export keeps the slots in step, wherever it fails or its client leaves.
LEMMA ExportStep ==
  ASSUME AskedInv, SlotInv, NEW e \in Exports, Export(e)
  PROVE  SlotInv'
<1> USE ReadersAssumption
<1> DEFINE a == export[e].pc
           b == export'[e].pc
<1>1. /\ DOMAIN export = Exports /\ slots \in Nat /\ IsFiniteSet(Slotted)
      /\ slots + Cardinality(Slotted) = MaxExports
      /\ \A f \in Exports : Exported(f)
      /\ rows \subseteq ever
  BY DEF SlotInv, AskedInv
<1>2. ever' = ever
  BY DEF Export, AskExport, CancelExport, AcquireSlot, TakeSlot, OpenExport, OpenExportFails,
         EndExport, SendChunk, SendLast, RowFails, ReadChunk, Leave
<1>3. ASSUME DOMAIN export' = Exports, \A f \in Exports \ {e} : export'[f] = export[f],
             Exported(e)',
             \/ slots' = slots /\ (HasSlot(a) <=> HasSlot(b))
             \/ slots' = slots - 1 /\ slots > 0 /\ ~HasSlot(a) /\ HasSlot(b)
             \/ slots' = slots + 1 /\ HasSlot(a) /\ ~HasSlot(b)
      PROVE  SlotInv'
  <2>1. \A f \in Exports \ {e} : Exported(f)'
    BY <1>1, <1>2, <1>3 DEF Exported
  <2>2. /\ IsFiniteSet(Slotted')
        /\ Cardinality(Slotted) \in Nat /\ Cardinality(Slotted') \in Nat
        /\ HasSlot(a) /\ HasSlot(b) => Cardinality(Slotted') = Cardinality(Slotted)
        /\ ~HasSlot(a) /\ ~HasSlot(b) => Cardinality(Slotted') = Cardinality(Slotted)
        /\ ~HasSlot(a) /\ HasSlot(b) => Cardinality(Slotted') = Cardinality(Slotted) + 1
        /\ HasSlot(a) /\ ~HasSlot(b) => Cardinality(Slotted') = Cardinality(Slotted) - 1
    BY <1>3, SlotMoves
  <2>3. slots' \in Nat /\ slots' + Cardinality(Slotted') = MaxExports
    BY <1>1, <1>3, <2>2
  <2>. QED  BY <1>3, <2>1, <2>2, <2>3 DEF SlotInv
<1>4. ASSUME NEW place \in ExportPlaces, Move(e, place)
      PROVE  /\ DOMAIN export' = Exports /\ \A f \in Exports \ {e} : export'[f] = export[f]
             /\ Exported(e)' /\ b = place
  <2>1. /\ DOMAIN export' = Exports /\ \A f \in Exports \ {e} : export'[f] = export[f]
        /\ b = place /\ export'[e].chan = export[e].chan /\ export'[e].snap = export[e].snap
    BY <1>1, <1>4 DEF Move
  <2>. QED  BY <1>1, <1>2, <2>1 DEF Exported
<1>5. CASE AskExport(e)
  <2>1. /\ DOMAIN export' = Exports /\ \A f \in Exports \ {e} : export'[f] = export[f]
        /\ b = "waiting" /\ export'[e].chan = export[e].chan /\ export'[e].snap = export[e].snap
        /\ a = "new" /\ slots' = slots
    BY <1>1, <1>5 DEF AskExport, Is
  <2>2. Exported(e)'
    BY <1>1, <1>2, <2>1 DEF Exported, ExportPlaces
  <2>. QED  BY <1>3, <2>1, <2>2 DEF HasSlot
<1>6. CASE CancelExport(e)
  <2>1. a = "waiting" /\ Move(e, "over") /\ slots' = slots
    BY <1>6 DEF CancelExport, Is
  <2>. QED  BY <1>3, <1>4, <2>1 DEF HasSlot, ExportPlaces
<1>7. CASE AcquireSlot(e)
  <2>1. a = "waiting" /\ Move(e, "queued") /\ slots' = slots - 1 /\ slots > 0
    BY <1>7 DEF AcquireSlot, TakeSlot, Is
  <2>. QED  BY <1>3, <1>4, <2>1 DEF HasSlot, ExportPlaces
<1>8. CASE OpenExport(e)
  <2>1. /\ DOMAIN export' = Exports /\ \A f \in Exports \ {e} : export'[f] = export[f]
        /\ b = "rows" /\ export'[e].chan = export[e].chan /\ export'[e].snap = rows
        /\ a = "queued" /\ slots' = slots
    BY <1>1, <1>8 DEF OpenExport, Is
  <2>2. Exported(e)'
    BY <1>1, <1>2, <2>1 DEF Exported, ExportPlaces
  <2>. QED  BY <1>3, <2>1, <2>2 DEF HasSlot
<1>9. CASE OpenExportFails(e) \/ RowFails(e)
  <2>1. a \in {"queued", "rows"} /\ Move(e, "cut") /\ slots' = slots + 1
    BY <1>9 DEF OpenExportFails, RowFails, EndExport, Is
  <2>. QED  BY <1>3, <1>4, <2>1 DEF HasSlot, ExportPlaces
<1>10. ASSUME IsFiniteSet(ToCome(e)) PROVE Cardinality(ToCome(e)) \in Nat
  BY <1>10, FS_CardinalityType
<1>11. IsFiniteSet(ToCome(e))
  <2>1. ToCome(e) \in SUBSET Ids
    BY <1>1 DEF Exported, ToCome, AskedInv
  <2>. QED  BY <2>1, FS_Subset
<1>12. CASE SendChunk(e)
  <2> DEFINE S == Oldest(ChunkRows, ToCome(e))
  <2>1. a = "rows" /\ Cardinality(ToCome(e)) >= ChunkRows /\ Send(e, S, FALSE) /\ slots' = slots
    BY <1>12 DEF SendChunk, Is
  <2>. HIDE DEF S
  <2>2. /\ DOMAIN export' = Exports /\ \A f \in Exports \ {e} : export'[f] = export[f]
        /\ export'[e].snap = export[e].snap
        /\ b = IF S = ToCome(e) /\ Cardinality(S) < ChunkRows THEN "sent" ELSE a
        /\ \E X : export'[e].chan \in Seq(X)
        /\ Len(export'[e].chan) <= ChunkBuffer
    BY <2>1, SendFits
  <2>3. ~ (Cardinality(ToCome(e)) < ChunkRows)
    BY <1>10, <1>11, <2>1
  <2>4. b = "rows"
    BY <2>1, <2>2, <2>3
  <2>5. Exported(e)'
    BY <1>1, <1>2, <2>2, <2>4 DEF Exported, ExportPlaces
  <2>. QED  BY <1>3, <2>1, <2>2, <2>4, <2>5 DEF HasSlot
<1>13. CASE SendLast(e)
  <2> DEFINE S == ToCome(e)
  <2>1. /\ a = "rows" /\ Cardinality(S) < ChunkRows /\ Send(e, S, export[e].json)
        /\ slots' = slots + 1
    BY <1>13 DEF SendLast, Is
  <2>2. /\ DOMAIN export' = Exports /\ \A f \in Exports \ {e} : export'[f] = export[f]
        /\ export'[e].snap = export[e].snap
        /\ b = IF S = ToCome(e) /\ Cardinality(S) < ChunkRows THEN "sent" ELSE a
        /\ \E X : export'[e].chan \in Seq(X)
        /\ Len(export'[e].chan) <= ChunkBuffer
    BY <2>1, SendFits
  <2>3. b = "sent"
    BY <2>1, <2>2
  <2>4. Exported(e)'
    BY <1>1, <1>2, <2>2, <2>3 DEF Exported, ExportPlaces
  <2>. QED  BY <1>3, <2>1, <2>2, <2>3, <2>4 DEF HasSlot
<1>14. CASE ReadChunk(e)
  <2>1. /\ DOMAIN export' = Exports /\ \A f \in Exports \ {e} : export'[f] = export[f]
        /\ b = a /\ export'[e].chan = Tail(export[e].chan) /\ export'[e].snap = export[e].snap
        /\ slots' = slots /\ export[e].chan # <<>>
    BY <1>1, <1>14 DEF ReadChunk
  <2>2. PICK X : export[e].chan \in Seq(X)
    BY <1>1 DEF Exported
  <2>3. /\ Tail(export[e].chan) \in Seq(X) /\ Len(Tail(export[e].chan)) = Len(export[e].chan) - 1
        /\ Len(export[e].chan) \in Nat
    BY <2>1, <2>2, HeadTailProperties, LenProperties
  <2>4. Len(export'[e].chan) <= ChunkBuffer
    BY <1>1, <2>1, <2>3 DEF Exported
  <2>5. Exported(e)'
    BY <1>1, <1>2, <2>1, <2>3, <2>4 DEF Exported
  <2>. QED  BY <1>3, <2>1, <2>5
<1>15. CASE Leave(e)
  <2>1. /\ DOMAIN export' = Exports /\ \A f \in Exports \ {e} : export'[f] = export[f]
        /\ b = "over" /\ export'[e].chan = <<>> /\ export'[e].snap = {}
        /\ a = "rows" /\ slots' = slots + 1
    BY <1>1, <1>15 DEF Leave, Is, NoExport
  <2>2. Exported(e)'
    BY <2>1, EmptySeq DEF Exported, ExportPlaces
  <2>. QED  BY <1>3, <2>1, <2>2 DEF HasSlot
<1>. QED  BY <1>5, <1>6, <1>7, <1>8, <1>9, <1>12, <1>13, <1>14, <1>15 DEF Export

\* The writer and the queries do not touch the exports.
LEMMA SlotNext ==
  ASSUME AskedInv, SlotInv, [Next]_vars
  PROVE  SlotInv'
<1>1. ASSUME UNCHANGED <<export, slots>>, ever \subseteq ever' PROVE SlotInv'
  <2>1. \A e \in Exports : Exported(e)'
    BY <1>1 DEF SlotInv, Exported
  <2>. QED  BY <1>1, <2>1 DEF SlotInv, Slotted
<1>2. CASE Commit \/ Prune \/ UNCHANGED vars
  BY <1>1, <1>2 DEF Commit, Prune, vars
<1>3. ASSUME NEW q \in Queries, Query(q) PROVE SlotInv'
  <2>1. UNCHANGED <<export, slots, ever>>
    BY <1>3 DEF Query, Ask, Cancel, Panic, RunFails, Reader, Acquire, Open, OpenFails, Run, Return
  <2>. QED  BY <1>1, <2>1
<1>4. ASSUME NEW e \in Exports, Export(e) PROVE SlotInv'
  BY <1>4, ExportStep
<1>. QED  BY <1>2, <1>3, <1>4 DEF Next

\* At first no export has a slot.
LEMMA SlotInit == Init => SlotInv
<1> SUFFICES ASSUME Init PROVE SlotInv
  OBVIOUS
<1>1. ASSUME NEW e \in Exports
      PROVE  export[e].pc = "new" /\ export[e].chan = <<>> /\ export[e].snap = {}
  BY DEF Init, NoExport
<1>2. Slotted = {}
  BY <1>1 DEF Slotted, HasSlot
<1>3. \A e \in Exports : Exported(e)
  <2>1. ASSUME NEW e \in Exports
        PROVE  export[e].chan \in Seq({}) /\ Len(export[e].chan) <= ChunkBuffer
    <3>1. <<>> \in Seq({}) /\ Len(<<>>) = 0
      BY EmptySeq
    <3>2. 0 <= ChunkBuffer
      BY ReadersAssumption
    <3>. QED  BY <1>1, <3>1, <3>2
  <2>. QED  BY <1>1, <2>1 DEF Exported, ExportPlaces
<1>. QED  BY <1>2, <1>3, FS_EmptySet, ReadersAssumption DEF Init, SlotInv

\* A query that has a permit and an export that has a slot find a thread: there is
\* one for each of them.
ThreadForEach ==
  /\ \A q \in Queries : At(q, "queued") => ThreadFree
  /\ \A e \in Exports : Is(e, "queued") => ThreadFree

\* The threads that are taken are those of permits and slots.
LEMMA ThreadsTaken ==
  ASSUME InStep, SlotInv
  PROVE  /\ Cardinality(Busy) + Cardinality(Streaming) <= Threads
         /\ permits \in 0..Size /\ slots \in 0..MaxExports
         /\ ThreadForEach
<1> USE ReadersAssumption
<1>1. /\ IsFiniteSet(Owners) /\ permits \in Nat /\ permits + Cardinality(Owners) = Size
      /\ IsFiniteSet(Slotted) /\ slots \in Nat /\ slots + Cardinality(Slotted) = MaxExports
  BY DEF InStep, SlotInv
<1>2. Cardinality(Owners) \in Nat /\ Cardinality(Slotted) \in Nat
  BY <1>1, FS_CardinalityType
<1>3. Busy \in SUBSET Owners /\ Streaming \in SUBSET Slotted
  BY DEF Busy, OnThread, Owners, Streaming, Slotted, HasSlot
<1>4. /\ IsFiniteSet(Busy) /\ Cardinality(Busy) <= Cardinality(Owners)
      /\ IsFiniteSet(Streaming) /\ Cardinality(Streaming) <= Cardinality(Slotted)
  BY <1>1, <1>3, FS_Subset
<1>5. Cardinality(Busy) \in Nat /\ Cardinality(Streaming) \in Nat
  BY <1>4, FS_CardinalityType
<1>6. ASSUME NEW q \in Queries, At(q, "queued") PROVE ThreadFree
  <2>1. q \in Owners /\ q \notin Busy
    BY <1>6 DEF At, Owners, Busy, OnThread
  <2>2. Busy # Owners
    BY <2>1
  <2>3. Cardinality(Busy) # Cardinality(Owners)
    BY <1>1, <1>3, <2>2, FS_Subset
  <2>. QED  BY <1>1, <1>2, <1>4, <1>5, <2>3 DEF ThreadFree
<1>7. ASSUME NEW e \in Exports, Is(e, "queued") PROVE ThreadFree
  <2>1. e \in Slotted /\ e \notin Streaming
    BY <1>7 DEF Is, Slotted, Streaming, HasSlot
  <2>2. Streaming # Slotted
    BY <2>1
  <2>3. Cardinality(Streaming) # Cardinality(Slotted)
    BY <1>1, <1>3, <2>2, FS_Subset
  <2>. QED  BY <1>1, <1>2, <1>4, <1>5, <2>3 DEF ThreadFree
<1>8. /\ Cardinality(Busy) + Cardinality(Streaming) <= Threads
      /\ permits \in 0..Size /\ slots \in 0..MaxExports
  BY <1>1, <1>2, <1>4, <1>5
<1>. QED  BY <1>6, <1>7, <1>8 DEF ThreadForEach

\* The runtime's reader_conns + 4 threads are enough: neither a query nor an
\* export that was admitted waits for one, whatever streams.
THEOREM ThreadsSuffice == Spec => []ThreadForEach
<1>1. InStep /\ SlotInv => ThreadForEach
  BY ThreadsTaken
<1>. QED  BY <1>1, InStepInit, InStepNext, AskedInit, AskedNext, SlotInit, SlotNext, PTL DEF Spec

\* Permits, slots and threads stay within their bounds, and every query and export
\* keeps its shape.
THEOREM ReaderTypes == Spec => []TypeOK
<1>1. InStep /\ SlotInv /\ AskedInv => TypeOK
  BY ThreadsTaken DEF TypeOK, SlotInv, AskedInv, Asked, Exported, ExportPlaces
<1>. QED  BY <1>1, InStepInit, InStepNext, AskedInit, AskedNext, SlotInit, SlotNext, PTL DEF Spec

----------------------------------------------------------------------------
(* The body of an export.                                                  *)

\* Chunks that are the beginning of a table up to a row: all of its rows up to
\* there, each chunk above the one before, and the chunk that closes the array
\* the last of an export that has sent all.
Chunks == [ids : SUBSET Ids, closes : BOOLEAN]

Beginning(s, snap, last, sent) ==
  /\ \A k \in 1..Len(s) : \A x \in s[k].ids : x \in snap /\ x <= last
  /\ \A j, k \in 1..Len(s) : j < k => \A x \in s[j].ids, y \in s[k].ids : x < y
  /\ \A i \in snap : i <= last => \E k \in 1..Len(s) : i \in s[k].ids
  /\ \A k \in 1..Len(s) : s[k].closes => k = Len(s) /\ sent /\ \A i \in snap : i <= last

\* What an export has sent: what its client read and what is in the channel.
Out(e) == export[e].got \o export[e].chan

Streamed(e) ==
  /\ export[e].got \in Seq(Chunks) /\ export[e].chan \in Seq(Chunks)
  /\ export[e].json \in BOOLEAN /\ export[e].last \in Nat /\ export[e].snap \in SUBSET Ids
  /\ Beginning(Out(e), export[e].snap, export[e].last, export[e].pc = "sent")
  /\ export[e].pc \in {"new", "waiting", "queued"} => Out(e) = <<>> /\ export[e].last = 0

StreamInv == DOMAIN export = Exports /\ \A e \in Exports : Streamed(e)

\* An export that has sent nothing has sent the beginning of any table.
LEMMA NothingIsBeginning ==
  ASSUME NEW snap \in SUBSET Ids, NEW sent
  PROVE  Beginning(<<>>, snap, 0, sent)
<1>1. \A k : k \notin 1..Len(<<>>)
  BY EmptySeq
<1>2. ASSUME NEW i \in snap PROVE ~ (i <= 0)
  <2>1. i \in Nat /\ i # 0
    BY ReadersAssumption
  <2>. QED  BY <2>1
<1>. QED  BY <1>1, <1>2 DEF Beginning

\* The next chunk is all there is of the table above the last row and up to a new
\* one; it closes the array only if there is no more.
LEMMA ChunkExtends ==
  ASSUME NEW s \in Seq(Chunks), NEW snap \in SUBSET Ids, NEW last \in Nat,
         Beginning(s, snap, last, FALSE),
         NEW S \in SUBSET Ids, NEW closes \in BOOLEAN, NEW new \in Nat, NEW sent \in BOOLEAN,
         \A x \in S : x \in snap /\ x > last /\ x <= new,
         \A i \in snap : i > last /\ i <= new => i \in S,
         last <= new,
         closes => sent /\ \A i \in snap : i <= new
  PROVE  Beginning(Append(s, [ids |-> S, closes |-> closes]), snap, new, sent)
<1> DEFINE c == [ids |-> S, closes |-> closes]
           t == Append(s, c)
           n == Len(s)
<1>0. \A i \in Ids : i \in Nat
  BY ReadersAssumption
<1>1. /\ c \in Chunks /\ n \in Nat /\ Len(t) = n + 1 /\ t[n + 1] = c
      /\ \A k \in 1..n : t[k] = s[k] /\ s[k].ids \in SUBSET Ids
  <2>1. c \in Chunks
    BY DEF Chunks
  <2>2. \A k \in 1..n : s[k] \in Chunks
    BY ElementOfSeq
  <2>. QED  BY <2>1, <2>2, AppendProperties, LenProperties DEF Chunks
<1>2. /\ c.ids = S /\ c.closes = closes
  OBVIOUS
<1>. HIDE DEF t, n, c
<1>3. \A k \in 1..n + 1 : k \in 1..n \/ k = n + 1
  BY <1>1
<1>4. /\ \A k \in 1..n : \A x \in s[k].ids : x \in snap /\ x <= last
      /\ \A j, k \in 1..n : j < k => \A x \in s[j].ids, y \in s[k].ids : x < y
      /\ \A i \in snap : i <= last => \E k \in 1..n : i \in s[k].ids
      /\ \A k \in 1..n : ~ s[k].closes
  BY DEF Beginning, n
<1>5. ASSUME NEW k \in 1..n + 1, NEW x \in t[k].ids PROVE x \in snap /\ x <= new
  <2>1. CASE k \in 1..n
    <3>1. x \in snap /\ x <= last
      BY <1>1, <1>4, <1>5, <2>1
    <3>. QED  BY <1>0, <3>1
  <2>2. CASE k = n + 1
    BY <1>1, <1>2, <1>5, <2>2
  <2>. QED  BY <1>3, <2>1, <2>2
<1>6. ASSUME NEW j \in 1..n + 1, NEW k \in 1..n + 1, j < k,
             NEW x \in t[j].ids, NEW y \in t[k].ids
      PROVE  x < y
  <2>1. j \in 1..n
    BY <1>1, <1>6
  <2>2. x \in snap /\ x <= last
    BY <1>1, <1>4, <1>6, <2>1
  <2>3. CASE k \in 1..n
    BY <1>1, <1>4, <1>6, <2>1, <2>3
  <2>4. CASE k = n + 1
    <3>1. y \in snap /\ y > last
      BY <1>1, <1>2, <1>6, <2>4
    <3>. QED  BY <1>0, <2>2, <3>1
  <2>. QED  BY <1>3, <2>3, <2>4
<1>7. ASSUME NEW i \in snap, i <= new PROVE \E k \in 1..n + 1 : i \in t[k].ids
  <2>1. CASE i <= last
    <3>1. PICK k \in 1..n : i \in s[k].ids
      BY <1>4, <2>1
    <3>2. k \in 1..n + 1
      BY <1>1
    <3>. QED  BY <1>1, <3>1, <3>2
  <2>2. CASE i > last
    <3>1. i \in S
      BY <1>7, <2>2
    <3>2. n + 1 \in 1..n + 1
      BY <1>1
    <3>. QED  BY <1>1, <1>2, <3>1, <3>2
  <2>. QED  BY <1>0, <2>1, <2>2
<1>8. ASSUME NEW k \in 1..n + 1, t[k].closes
      PROVE  k = n + 1 /\ sent /\ \A i \in snap : i <= new
  <2>1. k = n + 1
    BY <1>1, <1>3, <1>4, <1>8
  <2>. QED  BY <1>1, <1>2, <1>8, <2>1
<1>9. Beginning(t, snap, new, sent)
  BY <1>1, <1>5, <1>6, <1>7, <1>8 DEF Beginning
<1>. QED  BY <1>9 DEF t, c

\* A send adds the rows up to the greatest of them; it closes the array only when
\* they are all that is left.
LEMMA SendExtends ==
  ASSUME StreamInv, NEW e \in Exports, export[e].pc = "rows",
         NEW S \in SUBSET ToCome(e), NEW closes \in BOOLEAN, Send(e, S, closes),
         \A x \in S, i \in ToCome(e) : i <= x => i \in S,
         Cardinality(S) < ChunkRows \/ ~closes,
         closes => S = ToCome(e)
  PROVE  StreamInv'
<1> DEFINE snap == export[e].snap
           last == export[e].last
           new == export'[e].last
           chunk == [ids |-> S, closes |-> closes]
           sent == S = ToCome(e) /\ Cardinality(S) < ChunkRows
<1>1. /\ DOMAIN export = Exports
      /\ export[e].got \in Seq(Chunks) /\ export[e].chan \in Seq(Chunks)
      /\ export[e].json \in BOOLEAN /\ last \in Nat /\ snap \in SUBSET Ids
      /\ Beginning(Out(e), snap, last, FALSE)
  BY DEF StreamInv, Streamed
<1>2. /\ DOMAIN export' = Exports /\ \A f \in Exports \ {e} : export'[f] = export[f]
      /\ export'[e].got = export[e].got /\ export'[e].snap = snap
      /\ export'[e].json = export[e].json
      /\ new = Max(S \cup {last})
      /\ export'[e].pc = IF sent THEN "sent" ELSE "rows"
      /\ export'[e].chan = IF S = {} /\ ~closes THEN export[e].chan ELSE Append(export[e].chan, chunk)
  BY <1>1 DEF Send
<1>3. S \in SUBSET Ids /\ S \in SUBSET snap /\ S \in SUBSET Nat
  BY <1>1, ReadersAssumption DEF ToCome
<1>4. new \in S \cup {last} /\ new \in Nat /\ \A x \in S \cup {last} : x <= new
  <2>1. S \cup {last} \in SUBSET Nat /\ S \cup {last} # {}
    BY <1>1, <1>3
  <2>2. IsFiniteSet(S \cup {last})
    <3>1. IsFiniteSet(S)
      BY <1>3, FS_Subset, ReadersAssumption
    <3>. QED  BY <3>1, FS_AddElement
  <2>3. Max(S \cup {last}) \in S \cup {last} /\ \A x \in S \cup {last} : x <= Max(S \cup {last})
    BY <2>1, <2>2, GreatestIs
  <2>. QED  BY <1>2, <2>1, <2>3
<1>5. ASSUME NEW x \in S PROVE x \in snap /\ x > last /\ x <= new
  BY <1>4 DEF ToCome
<1>6. ASSUME NEW i \in snap, i > last, i <= new PROVE i \in S
  <2>1. i \in ToCome(e)
    BY <1>6 DEF ToCome
  <2>2. i \in Nat
    BY <1>1, ReadersAssumption
  <2>3. new # last
    BY <1>1, <1>6, <2>2
  <2>4. new \in S
    BY <1>4, <2>3
  <2>. QED  BY <1>6, <2>1, <2>4
<1>7. last <= new
  BY <1>4
<1>8. ASSUME closes, NEW i \in snap PROVE sent /\ i <= new
  <2>1. i \in Nat
    BY <1>1, ReadersAssumption
  <2>2. CASE i > last
    BY <1>4, <1>8, <2>2 DEF ToCome
  <2>3. CASE ~ (i > last)
    <3>1. last \in Nat /\ new \in Nat /\ last <= new
      BY <1>1, <1>4, <1>7
    <3>. HIDE DEF last, new
    <3>2. i <= new
      BY <2>1, <2>3, <3>1
    <3>3. sent
      BY <1>8
    <3>. QED  BY <3>2, <3>3
  <2>. QED  BY <1>8, <2>2, <2>3
<1>9. Out(e) \in Seq(Chunks)
  BY <1>1, ConcatProperties DEF Out
<1>. HIDE DEF snap, last, new, sent
<1>10. CASE S = {} /\ ~closes
  <2>1. Out(e)' = Out(e) /\ export'[e].chan \in Seq(Chunks)
    BY <1>1, <1>2, <1>10 DEF Out
  <2>2. new = last
    BY <1>4, <1>10
  <2>3. Beginning(Out(e), snap, last, sent)
    BY <1>1 DEF Beginning
  <2>4. export'[e].pc = "sent" <=> sent
    BY <1>2
  <2>5. Beginning(Out(e)', snap, new, export'[e].pc = "sent")
    BY <2>1, <2>2, <2>3, <2>4 DEF Beginning
  <2>6. Streamed(e)'
    BY <1>1, <1>2, <1>4, <2>1, <2>5 DEF Streamed, snap, new
  <2>7. \A f \in Exports \ {e} : Streamed(f)'
    BY <1>2 DEF StreamInv, Streamed, Out
  <2>. QED  BY <1>2, <2>6, <2>7 DEF StreamInv
<1>11. CASE ~ (S = {} /\ ~closes)
  <2>1. chunk \in Chunks
    BY <1>3 DEF Chunks
  <2>. HIDE DEF chunk
  <2>2. /\ export'[e].chan \in Seq(Chunks)
        /\ Out(e)' = Append(Out(e), chunk)
    <3>1. export'[e].chan = Append(export[e].chan, chunk)
      BY <1>2, <1>11
    <3>2. <<chunk>> \in Seq(Chunks)
      BY <2>1
    <3>3. /\ Append(export[e].chan, chunk) \in Seq(Chunks)
          /\ Append(export[e].chan, chunk) = export[e].chan \o <<chunk>>
          /\ Append(Out(e), chunk) = Out(e) \o <<chunk>>
      BY <1>1, <1>9, <2>1, AppendProperties, AppendIsConcat
    <3>4. Out(e) \o <<chunk>> = export[e].got \o (export[e].chan \o <<chunk>>)
      <4>1. \A s, t, u \in Seq(Chunks) : (s \o t) \o u = s \o (t \o u)
        BY ConcatAssociative
      <4>. QED  BY <1>1, <3>2, <4>1, Zenon DEF Out
    <3>. QED  BY <1>2, <3>1, <3>3, <3>4 DEF Out
  <2>3. Beginning(Append(Out(e), chunk), snap, new, sent)
    <3>1. snap \in SUBSET Ids /\ last \in Nat /\ Beginning(Out(e), snap, last, FALSE)
      BY <1>1 DEF snap, last
    <3>2. sent \in BOOLEAN /\ (closes => sent /\ \A i \in snap : i <= new)
      <4>1. sent \in BOOLEAN
        BY DEF sent
      <4>2. closes => sent
        BY <1>11 DEF sent
      <4>. QED  BY <1>8, <4>1, <4>2
    <3>. QED  BY <1>3, <1>4, <1>5, <1>6, <1>7, <1>9, <3>1, <3>2, ChunkExtends DEF chunk
  <2>4. export'[e].pc = "sent" <=> sent
    BY <1>2
  <2>5. Beginning(Out(e)', snap, new, export'[e].pc = "sent")
    BY <2>2, <2>3, <2>4 DEF Beginning
  <2>6. Streamed(e)'
    BY <1>1, <1>2, <1>4, <2>2, <2>5 DEF Streamed, snap, new
  <2>7. \A f \in Exports \ {e} : Streamed(f)'
    BY <1>2 DEF StreamInv, Streamed, Out
  <2>. QED  BY <1>2, <2>6, <2>7 DEF StreamInv
<1>. QED  BY <1>10, <1>11

\* A client that takes a chunk changes nothing of what was sent.
LEMMA ReadKeeps ==
  ASSUME StreamInv, NEW e \in Exports, ReadChunk(e)
  PROVE  StreamInv'
<1> DEFINE got == export[e].got
           chan == export[e].chan
<1>1. /\ DOMAIN export = Exports /\ got \in Seq(Chunks) /\ chan \in Seq(Chunks) /\ chan # <<>>
  BY DEF StreamInv, Streamed, ReadChunk
<1>2. /\ DOMAIN export' = Exports /\ \A f \in Exports \ {e} : export'[f] = export[f]
      /\ export'[e].chan = Tail(chan) /\ export'[e].got = Append(got, Head(chan))
      /\ export'[e].snap = export[e].snap /\ export'[e].last = export[e].last
      /\ export'[e].json = export[e].json /\ export'[e].pc = export[e].pc
  BY <1>1 DEF ReadChunk
<1>3. Head(chan) \in Chunks /\ Tail(chan) \in Seq(Chunks) /\ <<Head(chan)>> \o Tail(chan) = chan
  BY <1>1, HeadTailProperties
<1>. HIDE DEF got, chan
<1>4. /\ Append(got, Head(chan)) \in Seq(Chunks)
      /\ Append(got, Head(chan)) = got \o <<Head(chan)>>
      /\ <<Head(chan)>> \in Seq(Chunks)
  BY <1>1, <1>3, AppendProperties, AppendIsConcat
<1>5. (got \o <<Head(chan)>>) \o Tail(chan) = got \o (<<Head(chan)>> \o Tail(chan))
  BY <1>1, <1>3, <1>4, ConcatAssociative
<1>6. Out(e)' = Out(e)
  BY <1>2, <1>3, <1>4, <1>5 DEF Out, got, chan
<1>7. Streamed(e)'
  BY <1>2, <1>3, <1>4, <1>6 DEF StreamInv, Streamed
<1>8. \A f \in Exports \ {e} : Streamed(f)'
  BY <1>2 DEF StreamInv, Streamed, Out
<1>. QED  BY <1>2, <1>7, <1>8 DEF StreamInv

\* Each step of an export keeps what it has sent a beginning of its table.
LEMMA ExportStreams ==
  ASSUME AskedInv, StreamInv, NEW e \in Exports, Export(e)
  PROVE  StreamInv'
<1> DEFINE a == export[e].pc
           b == export'[e].pc
           Early == {"new", "waiting", "queued"}
<1>1. DOMAIN export = Exports /\ Streamed(e) /\ rows \in SUBSET Ids
  BY DEF StreamInv, AskedInv
<1>2. ASSUME DOMAIN export' = Exports, \A f \in Exports \ {e} : export'[f] = export[f],
             Streamed(e)'
      PROVE  StreamInv'
  <2>1. \A f \in Exports \ {e} : Streamed(f)'
    BY <1>2 DEF StreamInv, Streamed, Out
  <2>. QED  BY <1>2, <2>1 DEF StreamInv
<1>3. ASSUME DOMAIN export' = Exports, \A f \in Exports \ {e} : export'[f] = export[f],
             export'[e].got = export[e].got, export'[e].chan = export[e].chan,
             export'[e].snap = export[e].snap, export'[e].last = export[e].last,
             export'[e].json \in BOOLEAN, a # "sent", b # "sent",
             b \in Early => a \in Early
      PROVE  StreamInv'
  <2>1. Out(e)' = Out(e)
    BY <1>3 DEF Out
  <2>2. Beginning(Out(e)', export'[e].snap, export'[e].last, b = "sent")
    BY <1>1, <1>3, <2>1 DEF Streamed, Beginning
  <2>3. Streamed(e)'
    BY <1>1, <1>3, <2>1, <2>2 DEF Streamed
  <2>. QED  BY <1>2, <1>3, <2>3
<1>4. ASSUME NEW place, Move(e, place), a # "sent", place \notin Early \cup {"sent"} \/ (place = "queued" /\ a \in Early)
      PROVE  StreamInv'
  <2>1. /\ DOMAIN export' = Exports /\ \A f \in Exports \ {e} : export'[f] = export[f]
        /\ export'[e].got = export[e].got /\ export'[e].chan = export[e].chan
        /\ export'[e].snap = export[e].snap /\ export'[e].last = export[e].last
        /\ export'[e].json = export[e].json /\ b = place
    BY <1>1, <1>4 DEF Move
  <2>2. export'[e].json \in BOOLEAN
    BY <1>1, <2>1 DEF Streamed
  <2>3. b # "sent" /\ (b \in Early => a \in Early)
    BY <1>4, <2>1
  <2>. HIDE DEF Early, a, b
  <2>. QED  BY <1>3, <1>4, <2>1, <2>2, <2>3
<1>5. CASE AskExport(e)
  <2>1. PICK json \in BOOLEAN :
          export' = [export EXCEPT ![e].pc = "waiting", ![e].json = json]
    BY <1>5 DEF AskExport
  <2>2. /\ DOMAIN export' = Exports /\ \A f \in Exports \ {e} : export'[f] = export[f]
        /\ export'[e].got = export[e].got /\ export'[e].chan = export[e].chan
        /\ export'[e].snap = export[e].snap /\ export'[e].last = export[e].last
        /\ export'[e].json = json /\ b = "waiting"
    BY <1>1, <2>1
  <2>3. a = "new"
    BY <1>5 DEF AskExport, Is
  <2>. QED  BY <1>3, <2>2, <2>3
<1>6. CASE CancelExport(e)
  BY <1>4, <1>6 DEF CancelExport, Is
<1>7. CASE AcquireSlot(e)
  BY <1>4, <1>7 DEF AcquireSlot, Is
<1>8. CASE OpenExportFails(e) \/ RowFails(e)
  <2>1. a \in {"queued", "rows"} /\ Move(e, "cut")
    BY <1>8 DEF OpenExportFails, RowFails, EndExport, Is
  <2>. QED  BY <1>4, <2>1
<1>9. CASE OpenExport(e)
  <2>1. a = "queued" /\ export' = [export EXCEPT ![e].pc = "rows", ![e].snap = rows]
    BY <1>9 DEF OpenExport, Is
  <2>2. /\ DOMAIN export' = Exports /\ \A f \in Exports \ {e} : export'[f] = export[f]
        /\ export'[e].got = export[e].got /\ export'[e].chan = export[e].chan
        /\ export'[e].snap = rows /\ export'[e].last = export[e].last
        /\ export'[e].json = export[e].json /\ b = "rows"
    BY <1>1, <2>1
  <2>3. Out(e)' = <<>> /\ export'[e].last = 0
    BY <1>1, <2>1, <2>2 DEF Streamed, Out
  <2>4. Beginning(Out(e)', export'[e].snap, export'[e].last, b = "sent")
    BY <1>1, <2>2, <2>3, NothingIsBeginning
  <2>5. Streamed(e)'
    BY <1>1, <2>2, <2>4 DEF Streamed
  <2>. QED  BY <1>2, <2>2, <2>5
<1>10. ToCome(e) \in SUBSET Ids /\ ToCome(e) \in SUBSET Nat /\ IsFiniteSet(ToCome(e))
  <2>1. ToCome(e) \in SUBSET Ids
    BY <1>1 DEF Streamed, ToCome
  <2>. QED  BY <2>1, FS_Subset, ReadersAssumption
<1>11. CASE SendChunk(e)
  <2> DEFINE S == Oldest(ChunkRows, ToCome(e))
  <2>1. a = "rows" /\ Send(e, S, FALSE)
    BY <1>11 DEF SendChunk, Is
  <2>2. S \in SUBSET ToCome(e)
    BY DEF Oldest
  <2>3. \A x \in S, i \in ToCome(e) : i <= x => i \in S
    BY <1>10, OldestClosed, ReadersAssumption
  <2>. HIDE DEF S
  <2>. QED  BY <2>1, <2>2, <2>3, SendExtends
<1>12. CASE SendLast(e)
  <2>1. a = "rows" /\ Send(e, ToCome(e), export[e].json) /\ Cardinality(ToCome(e)) < ChunkRows
    BY <1>12 DEF SendLast, Is
  <2>2. export[e].json \in BOOLEAN
    BY <1>1 DEF Streamed
  <2>. QED  BY <2>1, <2>2, SendExtends
<1>13. CASE ReadChunk(e)
  BY <1>13, ReadKeeps
<1>14. CASE Leave(e)
  <2>1. /\ DOMAIN export' = Exports /\ \A f \in Exports \ {e} : export'[f] = export[f]
        /\ b = "over" /\ export'[e].chan = <<>> /\ export'[e].got = <<>> /\ export'[e].snap = {}
        /\ export'[e].last = 0 /\ export'[e].json = FALSE
    BY <1>1, <1>14 DEF Leave, NoExport
  <2>2. Out(e)' = <<>> /\ <<>> \in Seq(Chunks)
    BY <2>1, EmptySeq, ConcatEmptySeq DEF Out
  <2>3. Beginning(Out(e)', export'[e].snap, export'[e].last, b = "sent")
    BY <2>1, <2>2, NothingIsBeginning
  <2>4. /\ export'[e].got \in Seq(Chunks) /\ export'[e].chan \in Seq(Chunks)
        /\ export'[e].json \in BOOLEAN /\ export'[e].last \in Nat
        /\ export'[e].snap \in SUBSET Ids
    <3>1. {} \in SUBSET Ids /\ 0 \in Nat
      OBVIOUS
    <3>. QED  BY <2>1, <2>2, <3>1, Zenon
  <2>5. Streamed(e)'
    BY <2>1, <2>2, <2>3, <2>4, Zenon DEF Streamed
  <2>. QED  BY <1>2, <2>1, <2>5
<1>. QED  BY <1>5, <1>6, <1>7, <1>8, <1>9, <1>11, <1>12, <1>13, <1>14 DEF Export

\* The writer and the queries do not touch what an export has sent.
LEMMA StreamNext ==
  ASSUME AskedInv, StreamInv, [Next]_vars
  PROVE  StreamInv'
<1>1. ASSUME UNCHANGED export PROVE StreamInv'
  BY <1>1 DEF StreamInv, Streamed, Out
<1>2. CASE Commit \/ Prune \/ UNCHANGED vars
  BY <1>1, <1>2 DEF Commit, Prune, vars
<1>3. ASSUME NEW q \in Queries, Query(q) PROVE StreamInv'
  <2>1. UNCHANGED export
    BY <1>3 DEF Query, Ask, Cancel, Panic, RunFails, Reader, Acquire, Open, OpenFails, Run, Return
  <2>. QED  BY <1>1, <2>1
<1>4. ASSUME NEW e \in Exports, Export(e) PROVE StreamInv'
  BY <1>4, ExportStreams
<1>. QED  BY <1>2, <1>3, <1>4 DEF Next

\* At first nothing is sent.
LEMMA StreamInit == Init => StreamInv
<1> SUFFICES ASSUME Init PROVE StreamInv
  OBVIOUS
<1>1. ASSUME NEW e \in Exports PROVE Streamed(e)
  <2>1. /\ export[e].pc = "new" /\ export[e].chan = <<>> /\ export[e].got = <<>>
        /\ export[e].snap = {} /\ export[e].last = 0 /\ export[e].json = FALSE
    BY DEF Init, NoExport
  <2>2. Out(e) = <<>> /\ <<>> \in Seq(Chunks)
    BY <2>1, EmptySeq, ConcatEmptySeq DEF Out
  <2>3. Beginning(Out(e), export[e].snap, export[e].last, export[e].pc = "sent")
    BY <2>1, <2>2, NothingIsBeginning
  <2>4. /\ export[e].got \in Seq(Chunks) /\ export[e].chan \in Seq(Chunks)
        /\ export[e].json \in BOOLEAN /\ export[e].last \in Nat
        /\ export[e].snap \in SUBSET Ids
    <3>1. {} \in SUBSET Ids /\ 0 \in Nat
      OBVIOUS
    <3>. QED  BY <2>1, <2>2, <3>1, Zenon
  <2>. QED  BY <2>1, <2>2, <2>3, <2>4, Zenon DEF Streamed
<1>. QED  BY <1>1 DEF Init, StreamInv

\* What the client of an export has read is the beginning of one table, in order,
\* while others write; and a chunk that closes the JSON array is the last, and
\* with it the body is all of that table.
THEOREM ExportsAreWhole == Spec => []ExportIsWhole
<1>1. StreamInv => ExportIsWhole
  <2> SUFFICES ASSUME StreamInv, NEW e \in Exports
               PROVE  LET got == export[e].got IN
                        /\ \A j, k \in DOMAIN got : j < k =>
                             \A x \in got[j].ids, y \in got[k].ids : x < y
                        /\ Body(e) \subseteq export[e].snap
                        /\ \A x \in Body(e), y \in export[e].snap : y < x => y \in Body(e)
                        /\ \A k \in DOMAIN got :
                             got[k].closes => k = Len(got) /\ Body(e) = export[e].snap
    BY DEF ExportIsWhole
  <2> DEFINE got == export[e].got
             snap == export[e].snap
             last == export[e].last
             s == Out(e)
             n == Len(got)
             m == Len(s)
  <2>0. \A i \in Ids : i \in Nat
    BY ReadersAssumption
  <2>1. got \in Seq(Chunks) /\ export[e].chan \in Seq(Chunks) /\ snap \in SUBSET Ids /\ last \in Nat
    BY DEF StreamInv, Streamed
  <2>2. n \in Nat /\ m \in Nat /\ n <= m /\ DOMAIN got = 1..n /\ \A k \in 1..n : s[k] = got[k]
    <3>1. /\ n \in Nat /\ Len(export[e].chan) \in Nat
          /\ DOMAIN got = 1..n
          /\ m = n + Len(export[e].chan)
          /\ \A i \in 1..n + Len(export[e].chan) :
               s[i] = IF i <= n THEN got[i] ELSE export[e].chan[i - n]
      BY <2>1, ConcatProperties, LenProperties DEF Out
    <3>. HIDE DEF got, s, n, m
    <3>2. \A a, b \in Nat : a + b \in Nat /\ a <= a + b /\ 1..a \subseteq 1..a + b
      OBVIOUS
    <3>3. m \in Nat /\ n <= m /\ 1..n \subseteq 1..n + Len(export[e].chan)
      BY <3>1, <3>2, Zenon
    <3>4. ASSUME NEW k \in 1..n PROVE s[k] = got[k]
      <4>1. k \in 1..n + Len(export[e].chan)
        BY <3>3, Zenon
      <4>2. s[k] = IF k <= n THEN got[k] ELSE export[e].chan[k - n]
        BY <3>1, <4>1, Zenon
      <4>3. k <= n
        OBVIOUS
      <4>. QED  BY <4>2, <4>3, Zenon
    <3>. QED  BY <3>1, <3>3, <3>4, Zenon
  <2>3. /\ \A k \in 1..m : \A x \in s[k].ids : x \in snap /\ x <= last
        /\ \A j, k \in 1..m : j < k => \A x \in s[j].ids, y \in s[k].ids : x < y
        /\ \A i \in snap : i <= last => \E k \in 1..m : i \in s[k].ids
        /\ \A k \in 1..m : s[k].closes => k = m /\ \A i \in snap : i <= last
    BY DEF StreamInv, Streamed, Beginning
  <2>. HIDE DEF s, n, m
  <2>4. \A k \in 1..n : k \in 1..m
    BY <2>2
  <2>5. Body(e) = UNION {got[k].ids : k \in 1..n}
    BY <2>2 DEF Body
  <2>. HIDE DEF got, snap, last
  <2>6. \A j, k \in 1..n : j < k => \A x \in got[j].ids, y \in got[k].ids : x < y
    BY <2>2, <2>3, <2>4
  <2>7. Body(e) \subseteq snap
    BY <2>2, <2>3, <2>4, <2>5
  <2>8. ASSUME NEW x \in Body(e), NEW y \in snap, y < x PROVE y \in Body(e)
    <3>1. PICK j \in 1..n : x \in got[j].ids
      BY <2>5
    <3>2. x \in snap /\ x <= last
      BY <2>2, <2>3, <2>4, <3>1
    <3>3. y <= last
      BY <2>0, <2>1, <2>8, <3>2
    <3>4. PICK k \in 1..m : y \in s[k].ids
      BY <2>3, <3>3
    <3>5. ~ (j < k)
      <4>1. ASSUME j < k PROVE x < y
        BY <2>2, <2>3, <2>4, <3>1, <3>4, <4>1
      <4>2. x \in Nat /\ y \in Nat
        BY <2>0, <2>1, <3>2
      <4>. QED  BY <2>8, <4>1, <4>2
    <3>6. k \in 1..n
      BY <2>2, <3>5
    <3>. QED  BY <2>2, <2>5, <3>4, <3>6
  <2>9. ASSUME NEW k \in 1..n, got[k].closes PROVE k = n /\ snap \subseteq Body(e)
    <3>1. k = m /\ \A i \in snap : i <= last
      BY <2>2, <2>3, <2>4, <2>9
    <3>2. k = n /\ n = m
      BY <2>2, <3>1
    <3>3. ASSUME NEW i \in snap PROVE i \in Body(e)
      <4>1. PICK j \in 1..m : i \in s[j].ids
        BY <2>3, <3>1
      <4>. QED  BY <2>2, <2>5, <3>2, <4>1
    <3>. QED  BY <3>2, <3>3
  <2>. QED  BY <2>2, <2>6, <2>7, <2>8, <2>9 DEF got, snap, n
<1>. QED  BY <1>1, AskedInit, AskedNext, StreamInit, StreamNext, PTL DEF Spec
=============================================================================

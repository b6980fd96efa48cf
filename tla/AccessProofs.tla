---------------------------- MODULE AccessProofs ----------------------------
(***************************************************************************)
(* Proofs about Access, for any administrators, devices, calls and         *)
(* sessions, any lifetime and limit of sessions, and any number of         *)
(* restarts.                                                               *)
(***************************************************************************)
EXTENDS Access, SequenceTheorems, FiniteSetTheorems, TLAPS

AdminType ==
  [Admins -> [pc : {"idle", "inserted", "selected", "updated"},
              dev : 0..MaxDevices, found : BOOLEAN]]

Row == [active : BOOLEAN, seen : 0..MaxNow]

RegistryType ==
  /\ phase \in {"down", "serving", "draining"}
  /\ devices \in Seq(Row) /\ Len(devices) <= MaxDevices
  /\ cache \subseteq DOMAIN devices
  /\ admin \in AdminType
  /\ kept \subseteq DOMAIN devices \ Active

\* What the lock of the connection is for.
OneAtWork == \A a, b \in Admins : At(a, "idle") \/ At(b, "idle") \/ a = b

\* The server is only done when no request is under way.
WorkIsServed == \A a \in Admins : At(a, "idle") \/ phase = "serving"

\* The device of a request that holds the lock: the row it has inserted is not
\* revoked by anybody, and the one it has revoked stays so.
RowIsKnown ==
  \A a \in Admins :
    /\ At(a, "inserted") => admin[a].dev \in Active
    /\ At(a, "updated") => admin[a].dev \in DOMAIN devices \ Active

Registry == RegistryType /\ OneAtWork /\ WorkIsServed /\ RowIsKnown /\ RevokedIsOut /\ CreatedWorks

registryVars == <<phase, devices, cache, admin, kept>>

----------------------------------------------------------------------------
(* The table.                                                              *)

\* A row is appended under the next number.
LEMMA AppendRow ==
  ASSUME NEW s \in Seq(Row), NEW r \in Row
  PROVE  /\ Append(s, r) \in Seq(Row)
         /\ Len(Append(s, r)) = Len(s) + 1
         /\ Len(s) + 1 \notin DOMAIN s
         /\ DOMAIN Append(s, r) = DOMAIN s \cup {Len(s) + 1}
         /\ Append(s, r)[Len(s) + 1] = r
         /\ \A d \in DOMAIN s : Append(s, r)[d] = s[d]
<1>1. Len(s) \in Nat /\ DOMAIN s = 1..Len(s)
  BY LenProperties
<1>2. /\ Append(s, r) \in Seq(Row) /\ Len(Append(s, r)) = Len(s) + 1
      /\ Append(s, r)[Len(s) + 1] = r
      /\ \A d \in 1..Len(s) : Append(s, r)[d] = s[d]
  BY AppendProperties
<1>3. DOMAIN Append(s, r) = 1..Len(s) + 1
  BY <1>2, LenProperties
<1>. QED  BY <1>1, <1>2, <1>3

\* A row is updated in place.
LEMMA UpdateRow ==
  ASSUME NEW s \in Seq(Row), NEW t \in [DOMAIN s -> Row]
  PROVE  t \in Seq(Row) /\ Len(t) = Len(s) /\ DOMAIN t = DOMAIN s
<1>1. Len(s) \in Nat /\ DOMAIN s = 1..Len(s)
  BY LenProperties
<1>2. t \in Seq(Row)
  BY <1>1, IsASeq
<1>. QED  BY <1>1, <1>2, LenProperties

----------------------------------------------------------------------------
(* The registry: rows, cache and administrators.                           *)

\* When nobody is at work, the administrators are where they may be.
LEMMA IdleAdmins == [a \in Admins |-> Idle] \in AdminType
BY DevicesAssumption DEF AdminType, Idle

\* At first nothing is there.
LEMMA RegistryInit == LifeInit /\ DevicesInit => Registry
<1> SUFFICES ASSUME LifeInit, DevicesInit PROVE Registry
  OBVIOUS
<1> USE DEF LifeInit, DevicesInit
<1>1. devices \in Seq(Row) /\ Len(devices) = 0 /\ DOMAIN devices = {}
  BY EmptySeq
<1>2. RegistryType
  BY <1>1, DevicesAssumption DEF RegistryType, AdminType, Idle
<1>3. OneAtWork /\ WorkIsServed /\ RowIsKnown
  BY DEF OneAtWork, WorkIsServed, RowIsKnown, At, Idle
<1>4. RevokedIsOut /\ CreatedWorks
  BY <1>1 DEF RevokedIsOut, CreatedWorks
<1>. QED  BY <1>2, <1>3, <1>4 DEF Registry

\* Which rows are revoked is all the registry needs of them.
LEMMA SeenStep ==
  ASSUME Registry, UNCHANGED <<phase, cache, admin, kept>>,
         devices' \in Seq(Row), Len(devices') = Len(devices),
         DOMAIN devices' = DOMAIN devices,
         \A d \in DOMAIN devices : devices'[d].active = devices[d].active
  PROVE  Registry' /\ UNCHANGED <<Active, Granted>>
<1> USE DEF Registry
<1>1. Active' = Active
  BY DEF Active
<1>2. RegistryType'
  BY <1>1 DEF RegistryType
<1>3. OneAtWork' /\ WorkIsServed' /\ RowIsKnown'
  BY <1>1 DEF OneAtWork, WorkIsServed, RowIsKnown, At
<1>4. AtWork("inserted")' = AtWork("inserted") /\ AtWork("updated")' = AtWork("updated")
  BY DEF AtWork, At
<1>5. RevokedIsOut' /\ CreatedWorks'
  BY <1>1, <1>4 DEF RevokedIsOut, CreatedWorks, Granted
<1>. QED  BY <1>1, <1>2, <1>3, <1>4, <1>5 DEF Granted

LEMMA RegistryIdle ==
  ASSUME Registry, UNCHANGED registryVars
  PROVE  Registry' /\ UNCHANGED <<Active, Granted>>
BY SeenStep DEF registryVars, Registry, RegistryType

\* One administrator moves while the others have no request on the connection.
LEMMA AloneMoves ==
  ASSUME Registry, NEW a \in Admins, \A b \in Admins \ {a} : At(b, "idle"),
         phase = "serving", phase' = phase,
         NEW place \in {"idle", "inserted", "selected", "updated"},
         NEW d \in 0..MaxDevices, NEW found \in BOOLEAN,
         Go(a, place, d, found)
  PROVE  /\ admin' \in AdminType
         /\ admin'[a].pc = place /\ admin'[a].dev = d
         /\ \A b \in Admins : admin'[b].pc # "idle" => b = a
         /\ OneAtWork' /\ WorkIsServed'
         /\ AtWork("inserted")' = IF place = "inserted" THEN {d} ELSE {}
         /\ AtWork("updated")' = IF place = "updated" THEN {d} ELSE {}
<1> USE DEF Registry, RegistryType, AdminType, Go, At
<1>1. /\ admin' \in AdminType
      /\ admin'[a].pc = place /\ admin'[a].dev = d
      /\ \A b \in Admins : b # a => admin'[b] = admin[b]
  OBVIOUS
<1>2. \A b \in Admins : admin'[b].pc # "idle" => b = a
  BY <1>1
<1>3. OneAtWork' /\ WorkIsServed'
  BY <1>2 DEF OneAtWork, WorkIsServed
<1>4. AtWork("inserted")' = IF place = "inserted" THEN {d} ELSE {}
  BY <1>1, <1>2 DEF AtWork
<1>5. AtWork("updated")' = IF place = "updated" THEN {d} ELSE {}
  BY <1>1, <1>2 DEF AtWork
<1>. QED  BY <1>1, <1>2, <1>3, <1>4, <1>5

\* When its request is over, nobody is at work.
LEMMA AloneEnds ==
  ASSUME Registry, NEW a \in Admins, \A b \in Admins \ {a} : At(b, "idle"),
         phase = "serving", phase' = phase, Done(a)
  PROVE  /\ admin' \in AdminType
         /\ \A b \in Admins : admin'[b].pc = "idle"
         /\ OneAtWork' /\ WorkIsServed' /\ RowIsKnown'
         /\ AtWork("inserted")' = {} /\ AtWork("updated")' = {}
<1>1. 0 \in 0..MaxDevices
  BY DevicesAssumption
<1>2. Go(a, "idle", 0, FALSE)
  BY DEF Done, Go, Idle
<1>3. /\ admin' \in AdminType
      /\ admin'[a].pc = "idle"
      /\ \A b \in Admins : admin'[b].pc # "idle" => b = a
      /\ OneAtWork' /\ WorkIsServed'
      /\ AtWork("inserted")' = {} /\ AtWork("updated")' = {}
  BY <1>1, <1>2, AloneMoves
<1>. QED  BY <1>3 DEF RowIsKnown, At

\* Who holds the lock, or gets it, is alone.
LEMMA HolderIsAlone ==
  ASSUME Registry, NEW a \in Admins, HasLock(a) \/ ~At(a, "idle")
  PROVE  /\ phase = "serving"
         /\ \A b \in Admins \ {a} : At(b, "idle")
         /\ admin[a].dev \in 0..MaxDevices
         /\ \A p \in {"inserted", "selected", "updated"} :
              AtWork(p) = IF At(a, p) THEN {admin[a].dev} ELSE {}
<1> USE DEF Registry, RegistryType, AdminType
<1>1. CASE HasLock(a)
  BY <1>1 DEF HasLock, LockFree, At, AtWork
<1>2. CASE ~At(a, "idle")
  <2>1. \A b \in Admins \ {a} : At(b, "idle")
    BY <1>2 DEF OneAtWork
  <2>2. phase = "serving"
    BY <1>2 DEF WorkIsServed
  <2>. QED  BY <2>1, <2>2 DEF At, AtWork
<1>. QED  BY <1>1, <1>2

\* A row is inserted, and its token is not told to anybody yet.
LEMMA InsertStep ==
  ASSUME Registry, NEW a \in Admins, Insert(a), phase' = phase
  PROVE  Registry' /\ Granted' = Granted
<1> DEFINE d == Len(devices) + 1
<1> USE DEF Registry, RegistryType, Insert
<1>1. /\ devices' \in Seq(Row) /\ Len(devices') = d /\ d \notin DOMAIN devices
      /\ DOMAIN devices' = DOMAIN devices \cup {d}
      /\ devices'[d].active
      /\ \A e \in DOMAIN devices : devices'[e] = devices[e]
  <2>1. [active |-> TRUE, seen |-> 0] \in Row
    BY LifeAssumption DEF Row
  <2>. QED  BY <2>1, AppendRow
<1>2. Active' = Active \cup {d} /\ DOMAIN devices' \ Active' = DOMAIN devices \ Active
  BY <1>1 DEF Active
<1>3. Len(devices) \in Nat /\ d <= MaxDevices /\ d \in 0..MaxDevices
  BY LenProperties, DevicesAssumption
<1>4. /\ phase = "serving" /\ \A b \in Admins \ {a} : At(b, "idle")
      /\ AtWork("inserted") = {} /\ AtWork("updated") = {}
  BY HolderIsAlone DEF HasLock, At
<1>5. Go(a, "inserted", d, FALSE)
  OBVIOUS
<1>6. /\ admin' \in AdminType
      /\ admin'[a].pc = "inserted" /\ admin'[a].dev = d
      /\ \A b \in Admins : admin'[b].pc # "idle" => b = a
      /\ OneAtWork' /\ WorkIsServed'
      /\ AtWork("inserted")' = {d} /\ AtWork("updated")' = {}
  BY <1>3, <1>4, <1>5, AloneMoves
<1>7. Granted' = Granted
  BY <1>1, <1>4, <1>6 DEF Granted
<1>8. RegistryType'
  BY <1>1, <1>2, <1>3, <1>6 DEF history
<1>9. RowIsKnown'
  BY <1>2, <1>6 DEF RowIsKnown, At
<1>10. RevokedIsOut' /\ CreatedWorks'
  BY <1>1, <1>2, <1>4, <1>6, <1>7 DEF RevokedIsOut, CreatedWorks, history, Granted
<1>. QED  BY <1>6, <1>7, <1>8, <1>9, <1>10

\* The token of the row is accepted, and the answer tells it.
LEMMA CacheInsertStep ==
  ASSUME Registry, NEW a \in Admins, CacheInsert(a), phase' = phase
  PROVE  /\ Registry' /\ Granted \subseteq Granted'
         /\ cache' \subseteq cache \cup (Granted' \ Granted)
<1> DEFINE d == admin[a].dev
<1> USE DEF Registry, RegistryType, CacheInsert
<1>1. /\ phase = "serving" /\ d \in 0..MaxDevices /\ \A b \in Admins \ {a} : At(b, "idle")
      /\ AtWork("inserted") = {d} /\ AtWork("updated") = {}
  BY HolderIsAlone DEF At
<1>2. d \in Active /\ Active' = Active /\ Active \subseteq DOMAIN devices
  BY DEF RowIsKnown, Active
<1>3. /\ admin' \in AdminType
      /\ OneAtWork' /\ WorkIsServed' /\ RowIsKnown'
      /\ AtWork("inserted")' = {} /\ AtWork("updated")' = {}
  BY <1>1, AloneEnds
<1>4. RegistryType'
  BY <1>2, <1>3 DEF history
<1>5. RevokedIsOut' /\ CreatedWorks'
  BY <1>1, <1>2, <1>3 DEF RevokedIsOut, CreatedWorks, history, Granted
<1>6. Granted' = DOMAIN devices /\ Granted = DOMAIN devices \ {d}
  BY <1>1, <1>3 DEF Granted
<1>. QED  BY <1>2, <1>3, <1>4, <1>5, <1>6

\* Neither the SELECT nor an UPDATE that fails changes the registry.
LEMMA UnchangedStep ==
  ASSUME Registry, NEW a \in Admins, phase' = phase,
         UpdateFails(a) \/ \E d \in 1..MaxDevices : SelectHash(a, d)
  PROVE  Registry' /\ Granted' = Granted
<1> USE DEF Registry, RegistryType
<1>1. UNCHANGED <<devices, cache, history>>
  BY DEF UpdateFails, SelectHash
<1>2. /\ phase = "serving" /\ \A b \in Admins \ {a} : At(b, "idle")
      /\ AtWork("inserted") = {} /\ AtWork("updated") = {}
  BY HolderIsAlone DEF UpdateFails, SelectHash, HasLock, At
<1>3. /\ admin' \in AdminType
      /\ OneAtWork' /\ WorkIsServed' /\ RowIsKnown'
      /\ AtWork("inserted")' = {} /\ AtWork("updated")' = {}
  <2>1. CASE UpdateFails(a)
    BY <1>2, <2>1, AloneEnds DEF UpdateFails
  <2>2. ASSUME NEW d \in 1..MaxDevices, SelectHash(a, d)
        PROVE  /\ admin' \in AdminType
               /\ OneAtWork' /\ WorkIsServed' /\ RowIsKnown'
               /\ AtWork("inserted")' = {} /\ AtWork("updated")' = {}
    <3>1. PICK found \in {FALSE, (d \in DOMAIN devices)} : Go(a, "selected", d, found)
      BY <2>2 DEF SelectHash
    <3>2. found \in BOOLEAN
      <4>1. (d \in DOMAIN devices) \in BOOLEAN
        OBVIOUS
      <4>. QED  BY <3>1, <4>1, Zenon
    <3>4. d \in 0..MaxDevices
      BY DevicesAssumption
    <3>3. /\ admin' \in AdminType
          /\ admin'[a].pc = "selected"
          /\ \A b \in Admins : admin'[b].pc # "idle" => b = a
          /\ OneAtWork' /\ WorkIsServed'
          /\ AtWork("inserted")' = {} /\ AtWork("updated")' = {}
      BY <1>2, <3>1, <3>2, <3>4, AloneMoves
    <3>. QED  BY <3>3 DEF RowIsKnown, At
  <2>. QED  BY <2>1, <2>2
<1>4. Active' = Active /\ Granted' = Granted
  BY <1>1, <1>2, <1>3 DEF Active, Granted
<1>5. RegistryType'
  BY <1>1, <1>3, <1>4 DEF history
<1>6. RevokedIsOut' /\ CreatedWorks'
  BY <1>1, <1>2, <1>3, <1>4 DEF RevokedIsOut, CreatedWorks, history
<1>. QED  BY <1>3, <1>4, <1>5, <1>6

\* A row is revoked, with its token still in the cache.
LEMMA UpdateStep ==
  ASSUME Registry, NEW a \in Admins, Update(a), phase' = phase
  PROVE  Registry' /\ Granted' = Granted
<1> DEFINE d == admin[a].dev
<1> USE DEF Registry, RegistryType, Update
<1>1. /\ phase = "serving" /\ d \in 0..MaxDevices /\ \A b \in Admins \ {a} : At(b, "idle")
      /\ AtWork("inserted") = {} /\ AtWork("updated") = {}
  BY HolderIsAlone DEF At
<1>2. d \in Active /\ Active \subseteq DOMAIN devices
  BY DEF Active
<1>3. /\ DOMAIN devices' = DOMAIN devices
      /\ devices' \in [DOMAIN devices -> Row]
      /\ \A e \in DOMAIN devices : devices'[e].active <=> devices[e].active /\ e # d
  <2>1. \A e \in DOMAIN devices : devices[e] \in Row
    BY ElementOfSeq, LenProperties
  <2>. QED  BY <1>2, <2>1 DEF Row
<1>4. devices' \in Seq(Row) /\ Len(devices') = Len(devices)
  BY <1>3, UpdateRow
<1>5. Active' = Active \ {d}
  BY <1>3 DEF Active
<1>6. /\ cache' = cache
      /\ \/ Go(a, "updated", d, TRUE) /\ kept' = kept
         \/ Go(a, "idle", 0, FALSE) /\ kept' = kept \cup {d}
  BY DEF Done, Go, Idle
<1>7. PICK place \in {"idle", "updated"}, e \in {0, d}, f \in BOOLEAN :
        /\ Go(a, place, e, f)
        /\ place = "updated" => e = d /\ kept' = kept
        /\ place = "idle" => kept' = kept \cup {d}
  BY <1>6
<1>8. /\ admin' \in AdminType
      /\ admin'[a].pc = place /\ admin'[a].dev = e
      /\ \A b \in Admins : admin'[b].pc # "idle" => b = a
      /\ OneAtWork' /\ WorkIsServed'
      /\ AtWork("inserted")' = {} /\ AtWork("updated")' = IF place = "updated" THEN {e} ELSE {}
  BY <1>1, <1>7, AloneMoves, DevicesAssumption
<1>9. Granted' = Granted
  BY <1>1, <1>3, <1>8 DEF Granted
<1>10. RegistryType' /\ RowIsKnown'
  BY <1>2, <1>3, <1>4, <1>5, <1>6, <1>7, <1>8 DEF RowIsKnown, At
<1>11. RevokedIsOut'
  BY <1>1, <1>2, <1>3, <1>5, <1>6, <1>7, <1>8 DEF RevokedIsOut
<1>12. CreatedWorks'
  BY <1>1, <1>5, <1>6, <1>9 DEF CreatedWorks
<1>. QED  BY <1>8, <1>9, <1>10, <1>11, <1>12

\* The token of a revoked row leaves the cache.
LEMMA EvictStep ==
  ASSUME Registry, NEW a \in Admins, Evict(a), phase' = phase
  PROVE  Registry' /\ Granted' = Granted
<1> DEFINE d == admin[a].dev
<1> USE DEF Registry, RegistryType, Evict
<1>1. /\ phase = "serving" /\ \A b \in Admins \ {a} : At(b, "idle")
      /\ AtWork("inserted") = {} /\ AtWork("updated") = {d}
  BY HolderIsAlone DEF At
<1>2. d \in DOMAIN devices \ Active /\ Active' = Active
  BY DEF RowIsKnown, Active
<1>3. /\ admin' \in AdminType
      /\ OneAtWork' /\ WorkIsServed' /\ RowIsKnown'
      /\ AtWork("inserted")' = {} /\ AtWork("updated")' = {}
  BY <1>1, AloneEnds
<1>4. RegistryType'
  BY <1>2, <1>3 DEF history
<1>5. RevokedIsOut' /\ CreatedWorks' /\ Granted' = Granted
  BY <1>1, <1>2, <1>3 DEF RevokedIsOut, CreatedWorks, history, Granted
<1>. QED  BY <1>3, <1>4, <1>5

----------------------------------------------------------------------------
(* Every step.                                                             *)

\* What a step does to the promise of the registry.
KeepsPromise == Granted \subseteq Granted' /\ Honoured' \subseteq Honoured \cup (Granted' \ Granted)

\* What an administrator's request leaves of the rows.
RowsStay ==
  /\ DOMAIN devices \subseteq DOMAIN devices'
  /\ \A d \in DOMAIN devices : devices'[d].seen = devices[d].seen

\* A request of an administrator keeps the rows and what is noted of them.
LEMMA RequestKeepsRows ==
  ASSUME Registry, NEW a \in Admins, Begin(a) \/ Proceed(a)
  PROVE  RowsStay
<1>1. CASE Insert(a)
  <2>1. [active |-> TRUE, seen |-> 0] \in Row
    BY LifeAssumption DEF Row
  <2>. QED  BY <1>1, <2>1, AppendRow DEF Insert, RowsStay, Registry, RegistryType
<1>2. CASE Update(a)
  <2>1. \A e \in DOMAIN devices : devices[e] \in Row
    BY ElementOfSeq, LenProperties DEF Registry, RegistryType
  <2>. QED  BY <1>2, <2>1 DEF Update, RowsStay, Row
<1>3. ASSUME UNCHANGED devices PROVE RowsStay
  BY <1>3 DEF RowsStay
<1>. QED  BY <1>1, <1>2, <1>3 DEF Begin, Proceed, SelectHash, CacheInsert, UpdateFails, Evict

\* A request of an administrator keeps the registry and its promise.
LEMMA RequestStep ==
  ASSUME Registry, NEW a \in Admins, Begin(a) \/ Proceed(a), phase' = phase
  PROVE  Registry' /\ KeepsPromise
<1>1. phase = "serving"
  BY HolderIsAlone DEF Begin, Proceed, Insert, SelectHash, CacheInsert, Update, UpdateFails, Evict,
                       At, HasLock
<1>2. Honoured = cache /\ Honoured' = cache'
  BY <1>1 DEF Honoured
<1>3. CASE Insert(a)
  BY <1>2, <1>3, InsertStep DEF Insert, KeepsPromise
<1>4. CASE CacheInsert(a)
  BY <1>2, <1>4, CacheInsertStep DEF KeepsPromise
<1>5. CASE UpdateFails(a) \/ \E d \in 1..MaxDevices : SelectHash(a, d)
  BY <1>2, <1>5, UnchangedStep DEF KeepsPromise, UpdateFails, SelectHash
<1>6. CASE Update(a)
  BY <1>2, <1>6, UpdateStep DEF Update, KeepsPromise
<1>7. CASE Evict(a)
  BY <1>2, <1>7, EvictStep DEF Evict, KeepsPromise
<1>. QED  BY <1>3, <1>4, <1>5, <1>6, <1>7 DEF Begin, Proceed

\* Nor does the end of a process break the promise: a token that was told to
\* somebody and not revoked is in the cache, and so honoured before and after.
LEMMA GoneStep ==
  ASSUME Registry, phase # "down", phase' = "down", MemoryGone
  PROVE  Registry' /\ KeepsPromise
<1> USE DEF Registry, RegistryType, MemoryGone
<1>1. \A a \in Admins : admin'[a].pc = "idle"
  BY DEF Idle
<1>2. admin' \in AdminType
  BY IdleAdmins, Zenon
<1>3. Active' = Active /\ AtWork("inserted")' = {} /\ AtWork("updated")' = {}
  BY <1>1 DEF Active, AtWork, At
<1>4. RegistryType'
  BY <1>2, <1>3
<1>5. OneAtWork' /\ WorkIsServed' /\ RowIsKnown' /\ RevokedIsOut' /\ CreatedWorks'
  BY <1>1 DEF OneAtWork, WorkIsServed, RowIsKnown, RevokedIsOut, CreatedWorks, At
<1>6. Granted' = DOMAIN devices /\ Granted \subseteq DOMAIN devices
  BY <1>3 DEF Granted
<1>7. Honoured' = Active /\ Honoured = cache /\ Active \subseteq DOMAIN devices
  BY <1>3 DEF Honoured, Active
<1>8. KeepsPromise
  BY <1>6, <1>7 DEF KeepsPromise, CreatedWorks
<1>. QED  BY <1>4, <1>5, <1>8

\* A load honours the rows that are not revoked, as the down process promised.
LEMMA BootStep ==
  ASSUME Registry, Start, DevicesBoot
  PROVE  Registry' /\ KeepsPromise
<1> USE DEF Registry, RegistryType, Start, DevicesBoot
<1>1. Active' = Active /\ AtWork("inserted")' = AtWork("inserted") /\ Granted' = Granted
  BY DEF Active, AtWork, At, Granted
<1>2. \A a \in Admins : admin[a].pc = "idle"
  BY DEF WorkIsServed, At
<1>3. RegistryType'
  BY <1>1 DEF Loaded, Active
<1>4. OneAtWork' /\ WorkIsServed' /\ RowIsKnown'
  BY <1>2 DEF OneAtWork, WorkIsServed, RowIsKnown, At
<1>5. RevokedIsOut' /\ CreatedWorks'
  BY <1>1 DEF RevokedIsOut, CreatedWorks, Loaded
<1>6. KeepsPromise
  BY <1>1 DEF KeepsPromise, Honoured, Loaded
<1>. QED  BY <1>3, <1>4, <1>5, <1>6

\* When the server is done no request is under way, and the rest stays.
LEMMA ServerDoneStep ==
  ASSUME Registry, Served, NoRequests, UNCHANGED devicesVars
  PROVE  Registry' /\ KeepsPromise
<1> USE DEF Registry, RegistryType, Served, devicesVars
<1>1. Active' = Active /\ Granted' = Granted /\ AtWork("updated")' = AtWork("updated")
  BY DEF Active, AtWork, At, Granted
<1>2. RegistryType'
  BY <1>1
<1>3. OneAtWork' /\ WorkIsServed' /\ RowIsKnown'
  BY <1>1 DEF OneAtWork, WorkIsServed, RowIsKnown, NoRequests, At
<1>4. RevokedIsOut' /\ CreatedWorks'
  BY <1>1 DEF RevokedIsOut, CreatedWorks
<1>5. KeepsPromise
  BY <1>1 DEF KeepsPromise, Honoured
<1>. QED  BY <1>2, <1>3, <1>4, <1>5


\* A flush writes times into rows, and a flush that fails loses them.
LEMMA WriterStep ==
  ASSUME Registry, IsActivity(taken), Writer, phase' = phase
  PROVE  Registry' /\ KeepsPromise /\ DOMAIN devices' = DOMAIN devices
<1>1. CASE UNCHANGED devices
  <2>1. Registry' /\ UNCHANGED <<Active, Granted>>
    BY <1>1, RegistryIdle DEF registryVars, Writer, TakeSeen, TakeLast, TakePending, FlushOne,
                              FlushFails, history
  <2>2. cache' = cache
    BY DEF Writer, TakeSeen, TakeLast, TakePending, FlushOne, FlushFails
  <2>. QED  BY <1>1, <2>1, <2>2 DEF KeepsPromise, Honoured
<1>2. CASE FlushOne
  <2>1. PICK d \in DOMAIN taken : devices' = [devices EXCEPT ![d].seen = taken[d]]
    BY <1>2 DEF FlushOne
  <2>2. d \in DOMAIN devices /\ taken[d] \in 0..MaxNow
    BY LifeAssumption DEF IsActivity
  <2>3. \A e \in DOMAIN devices : devices[e] \in Row
    BY ElementOfSeq, LenProperties DEF Registry, RegistryType
  <2>4. /\ devices' \in [DOMAIN devices -> Row]
        /\ \A e \in DOMAIN devices : devices'[e].active = devices[e].active
    BY <2>1, <2>2, <2>3 DEF Row
  <2>5. devices \in Seq(Row)
    BY DEF Registry, RegistryType
  <2>6. devices' \in Seq(Row) /\ Len(devices') = Len(devices) /\ DOMAIN devices' = DOMAIN devices
    BY <2>4, <2>5, UpdateRow
  <2>7. UNCHANGED <<cache, admin, kept>>
    BY <1>2 DEF FlushOne, history
  <2>8. Registry' /\ UNCHANGED <<Active, Granted>>
    BY <2>4, <2>6, <2>7, SeenStep
  <2>. QED  BY <2>6, <2>7, <2>8 DEF KeepsPromise, Honoured
<1>. QED  BY <1>1, <1>2 DEF Writer, TakeSeen, TakeLast, TakePending, FlushFails

\* Every step keeps the registry and its promise, and no row goes away.
LEMMA RegistryStep ==
  ASSUME Registry, IsActivity(taken), [Next]_vars
  PROVE  Registry' /\ KeepsPromise /\ DOMAIN devices \subseteq DOMAIN devices'
<1>1. CASE UNCHANGED <<registryVars>>
  <2>1. Registry' /\ UNCHANGED <<Active, Granted>>
    BY <1>1, RegistryIdle
  <2>. QED  BY <1>1, <2>1 DEF registryVars, KeepsPromise, Honoured
<1>2. CASE Work
  <2>1. phase' = phase
    BY <1>2 DEF Work, lifeVars
  <2>2. ASSUME NEW a \in Admins, Begin(a) \/ Proceed(a)
        PROVE  Registry' /\ KeepsPromise /\ DOMAIN devices \subseteq DOMAIN devices'
    BY <2>1, <2>2, RequestStep, RequestKeepsRows DEF RowsStay
  <2>3. CASE \E c \in Calls : Device(c)
    BY <1>1, <2>1, <2>3 DEF Device, Authenticate, NoteSeen, registryVars, history
  <2>4. CASE Writer
    BY <2>1, <2>4, WriterStep
  <2>. QED  BY <1>2, <2>2, <2>3, <2>4 DEF Work
<1>3. CASE Boot
  BY <1>3, BootStep DEF Boot, DevicesBoot
<1>4. CASE ServerDone
  BY <1>4, ServerDoneStep DEF ServerDone, devicesVars
<1>5. CASE Exit
  BY <1>5, GoneStep DEF Exit, End, DevicesEnd, MemoryGone
<1>6. CASE Crash
  BY <1>6, GoneStep DEF Crash, Kill, DevicesKilled, MemoryGone
<1>7. CASE Janitor \/ Clock \/ UNCHANGED vars \/ \E a \in Admins : Login(a) \/ Logout(a)
  BY <1>1, <1>7 DEF Janitor, Clock, Tick, Login, Logout, vars, lifeVars, devicesVars, registryVars
<1>. QED  BY <1>2, <1>3, <1>4, <1>5, <1>6, <1>7 DEF Next

----------------------------------------------------------------------------
(* The activity of devices.                                                *)

CallType ==
  [Calls -> {New, Over} \cup [pc : {"let in"}, dev : DOMAIN devices, ts : 1..MaxNow]]

Activity ==
  /\ now \in 1..MaxNow
  /\ IsActivity(pending) /\ IsActivity(taken) /\ IsActivity(noted)
  /\ call \in CallType
  /\ last \in BOOLEAN
  /\ \A c \in Calls : call[c].pc = "let in" => phase = "serving"
  /\ last => phase = "draining" /\ pending = NoActivity
  /\ ActivityIsKept

\* No activity, an activity added, and a part of an activity.
LEMMA ActivityLaws ==
  /\ IsActivity(NoActivity)
  /\ \A f, d, t : IsActivity(f) /\ d \in DOMAIN devices /\ t \in 1..MaxNow => IsActivity(Put(f, d, t))
  /\ \A f, S : IsActivity(f) /\ S \subseteq DOMAIN f => IsActivity(Restrict(f, S))
BY DEF IsActivity, NoActivity, Put, Restrict

\* What was an activity is one while rows stay.
LEMMA ActivityStays ==
  ASSUME NEW f, IsActivity(f), DOMAIN devices \subseteq DOMAIN devices'
  PROVE  /\ f \in [DOMAIN f -> 1..MaxNow]
         /\ DOMAIN f \subseteq DOMAIN devices'
BY DEF IsActivity

\* A call that has authenticated holds a device and a time.
LEMMA LetIn ==
  ASSUME Activity, NEW c \in Calls, call[c].pc = "let in"
  PROVE  call[c].dev \in DOMAIN devices /\ call[c].ts \in 1..MaxNow
<1>1. call[c] \in {New, Over} \cup [pc : {"let in"}, dev : DOMAIN devices, ts : 1..MaxNow]
  BY DEF Activity, CallType
<1>2. New.pc = "new" /\ Over.pc = "over"
  BY DEF New, Over
<1>. QED  BY <1>1, <1>2

\* Neither an administrator nor a boot touches what is noted.
LEMMA ActivityIdle ==
  ASSUME Activity, UNCHANGED <<now, phase, pending, taken, noted, call, last>>, RowsStay
  PROVE  Activity'
<1>1. now' \in 1..MaxNow /\ last' \in BOOLEAN
  BY DEF Activity
<1>2. IsActivity(pending)' /\ IsActivity(taken)' /\ IsActivity(noted)'
  BY DEF Activity, IsActivity, RowsStay
<1>3. call' \in CallType'
  BY DEF Activity, CallType, RowsStay
<1>4. ActivityIsKept'
  BY DEF Activity, ActivityIsKept, IsActivity, RowsStay
<1>. QED  BY <1>1, <1>2, <1>3, <1>4 DEF Activity

\* A call notes the time at which it authenticated.
LEMMA NoteStep ==
  ASSUME Activity, NEW c \in Calls, NoteSeen(c), UNCHANGED <<now, phase>>
  PROVE  Activity'
<1> DEFINE d == call[c].dev
           t == call[c].ts
<1> USE DEF Activity, NoteSeen
<1>1. d \in DOMAIN devices /\ t \in 1..MaxNow /\ devices' = devices /\ phase = "serving"
  BY LetIn
<1>2. pending' = Put(pending, d, t) /\ noted' = Put(noted, d, t) /\ taken' = taken /\ last' = last
  OBVIOUS
<1>3. IsActivity(pending)' /\ IsActivity(taken)' /\ IsActivity(noted)'
  <2>1. IsActivity(Put(pending, d, t)) /\ IsActivity(Put(noted, d, t)) /\ IsActivity(taken)
    BY <1>1, ActivityLaws
  <2>. QED  BY <1>1, <1>2, <2>1 DEF IsActivity
<1>4. call' \in CallType' /\ \A b \in Calls : call'[b].pc = "let in" => call[b].pc = "let in"
  BY <1>1 DEF CallType, Over
<1>5. ActivityIsKept'
  BY <1>1, <1>2 DEF ActivityIsKept, Put
<1>6. last' = FALSE
  <2>1. last = FALSE
    BY <1>1
  <2>. QED  BY <1>2, <2>1
<1>7. \A b \in Calls : call'[b].pc = "let in" => phase' = "serving"
  BY <1>1
<1>. QED  BY <1>3, <1>4, <1>5, <1>6, <1>7

\* What is noted passes from memory to the rows.
LEMMA FlushStep ==
  ASSUME Registry, Activity, Writer, UNCHANGED <<now, phase>>, DOMAIN devices' = DOMAIN devices
  PROVE  Activity'
<1> USE DEF Activity
<1>1. CASE TakeSeen \/ TakeLast
  <2>1. taken' = pending /\ pending' = NoActivity /\ taken = NoActivity
        /\ UNCHANGED <<devices, noted, call>>
    BY <1>1 DEF TakeSeen, TakeLast, TakePending, history
  <2>2. IsActivity(pending)' /\ IsActivity(taken)' /\ IsActivity(noted)'
    BY <2>1, ActivityLaws DEF IsActivity
  <2>3. ActivityIsKept'
    BY <2>1 DEF ActivityIsKept, NoActivity
  <2>4. last' \in BOOLEAN /\ (last' => phase = "draining")
    <3>1. CASE TakeSeen
      BY <3>1 DEF TakeSeen
    <3>2. CASE TakeLast
      BY <3>2 DEF TakeLast
    <3>. QED  BY <1>1, <3>1, <3>2
  <2>. QED  BY <2>1, <2>2, <2>3, <2>4 DEF CallType
<1>2. CASE FlushOne
  <2>1. PICK d \in DOMAIN taken :
          /\ devices' = [devices EXCEPT ![d].seen = taken[d]]
          /\ taken' = Restrict(taken, DOMAIN taken \ {d})
    BY <1>2 DEF FlushOne
  <2>2. UNCHANGED <<pending, noted, call, last>>
    BY <1>2 DEF FlushOne, history
  <2>3. IsActivity(taken')
    BY <2>1, ActivityLaws
  <2>4. IsActivity(pending)' /\ IsActivity(taken)' /\ IsActivity(noted)'
    BY <2>2, <2>3 DEF IsActivity
  <2>5. \A e \in DOMAIN devices :
          devices'[e].seen = IF e = d THEN taken[e] ELSE devices[e].seen
    <3>1. \A e \in DOMAIN devices : devices[e] \in Row
      BY ElementOfSeq, LenProperties DEF Registry, RegistryType
    <3>. QED  BY <2>1, <3>1 DEF Row
  <2>6. ActivityIsKept'
    BY <2>1, <2>2, <2>5 DEF ActivityIsKept, IsActivity, Restrict
  <2>. QED  BY <2>2, <2>4, <2>6 DEF CallType
<1>3. CASE FlushFails
  <2>1. /\ taken' = NoActivity /\ UNCHANGED <<devices, pending, call, last>>
        /\ noted' = Restrict(noted, DOMAIN noted \ (DOMAIN taken \ DOMAIN pending))
    BY <1>3 DEF FlushFails
  <2>2. IsActivity(noted') /\ IsActivity(taken')
    BY <2>1, ActivityLaws
  <2>3. IsActivity(pending)' /\ IsActivity(taken)' /\ IsActivity(noted)'
    BY <2>1, <2>2 DEF IsActivity
  <2>4. ActivityIsKept'
    BY <2>1 DEF ActivityIsKept, Restrict, NoActivity
  <2>. QED  BY <2>1, <2>3, <2>4 DEF CallType
<1>. QED  BY <1>1, <1>2, <1>3 DEF Writer

\* With the process goes what it had in memory: nothing after a last flush, and
\* after a crash nobody counts on it.
LEMMA MemoryGoneStep ==
  ASSUME Activity, MemoryGone, now' = now, phase' = "down",
         noted' = NoActivity \/ (WriterDone /\ noted' = noted)
  PROVE  Activity'
<1> USE DEF Activity, MemoryGone
<1>1. pending' = NoActivity /\ taken' = NoActivity /\ devices' = devices /\ last' = FALSE
  OBVIOUS
<1>2. IsActivity(pending)' /\ IsActivity(taken)' /\ IsActivity(noted)'
  <2>1. IsActivity(NoActivity)
    BY ActivityLaws
  <2>. QED  BY <1>1, <2>1 DEF IsActivity
<1>3. call' \in CallType' /\ \A c \in Calls : call'[c].pc # "let in"
  BY <1>1 DEF CallType, New, Over
<1>4. ActivityIsKept'
  BY <1>1 DEF ActivityIsKept, WriterDone, NoActivity
<1>. QED  BY <1>1, <1>2, <1>3, <1>4

\* Every step keeps the activity.
LEMMA ActivityStep ==
  ASSUME Registry, Activity, [Next]_vars
  PROVE  Activity'
<1>1. DOMAIN devices \subseteq DOMAIN devices'
  BY RegistryStep DEF Activity
<1>2. ASSUME UNCHANGED <<devices, now, phase, pending, taken, noted, call, last>>
      PROVE  Activity'
  BY <1>2, ActivityIdle DEF RowsStay
<1>3. CASE Work
  <2>1. UNCHANGED <<now, phase>>
    BY <1>3 DEF Work, lifeVars
  <2>2. ASSUME NEW a \in Admins, Begin(a) \/ Proceed(a)
        PROVE  Activity'
    <3>1. UNCHANGED <<pending, taken, noted, call, last>>
      BY <2>2 DEF Begin, Proceed, Insert, SelectHash, CacheInsert, Update, UpdateFails, Evict,
           history
    <3>. QED  BY <2>1, <2>2, <3>1, RequestKeepsRows, ActivityIdle
  <2>3. ASSUME NEW c \in Calls, Authenticate(c)
        PROVE  Activity'
    <3>1. PICK d \in cache : call' = [call EXCEPT ![c] = [pc |-> "let in", dev |-> d, ts |-> now]]
      BY <2>3 DEF Authenticate
    <3>2. d \in DOMAIN devices /\ now \in 1..MaxNow /\ phase = "serving"
      BY <2>3 DEF Authenticate, Registry, RegistryType, Activity
    <3>3. UNCHANGED <<devices, pending, taken, noted, last>>
      BY <2>3 DEF Authenticate, history
    <3>4. call' \in CallType'
      BY <3>1, <3>2, <3>3 DEF CallType, Activity
    <3>5. IsActivity(pending)' /\ IsActivity(taken)' /\ IsActivity(noted)' /\ ActivityIsKept'
      BY <3>3 DEF Activity, IsActivity, ActivityIsKept
    <3>. QED  BY <2>1, <3>2, <3>3, <3>4, <3>5 DEF Activity
  <2>4. ASSUME NEW c \in Calls, NoteSeen(c)
        PROVE  Activity'
    BY <2>1, <2>4, NoteStep
  <2>5. CASE Writer
    BY <2>1, <2>5, WriterStep, FlushStep DEF Activity
  <2>. QED  BY <1>3, <2>2, <2>3, <2>4, <2>5 DEF Work, Device
<1>4. CASE Clock
  <2>1. now' \in 1..MaxNow
    <3>1. now \in 1..MaxNow
      BY DEF Activity
    <3>. QED  BY <1>4, <3>1, LifeAssumption DEF Clock, Tick
  <2>. QED  BY <1>4, <2>1 DEF Clock, Tick, devicesVars, Activity, IsActivity, ActivityIsKept,
         CallType
<1>5. CASE Boot
  BY <1>5, ActivityLaws DEF Boot, Start, DevicesBoot, Activity, IsActivity, ActivityIsKept,
       CallType, NoActivity
<1>6. CASE ServerDone
  <2>1. UNCHANGED <<now, devices, pending, taken, noted, call, last>> /\ phase' = "draining"
    BY <1>6 DEF ServerDone, Served, devicesVars
  <2>2. ~last /\ \A c \in Calls : call[c].pc # "let in"
    BY <1>6 DEF ServerDone, Served, NoRequests, Activity
  <2>. QED  BY <2>1, <2>2 DEF Activity, IsActivity, ActivityIsKept, CallType
<1>7. CASE Exit
  BY <1>7, MemoryGoneStep DEF Exit, End, DevicesEnd
<1>8. CASE Crash
  BY <1>8, MemoryGoneStep DEF Crash, Kill, DevicesKilled
<1>9. CASE Janitor \/ UNCHANGED vars \/ \E a \in Admins : Login(a) \/ Logout(a)
  BY <1>2, <1>9 DEF Janitor, Login, Logout, vars, lifeVars, devicesVars
<1>. QED  BY <1>3, <1>4, <1>5, <1>6, <1>7, <1>8, <1>9 DEF Next

----------------------------------------------------------------------------
(* The sessions.                                                           *)

SessionTable ==
  /\ minted \in Seq(1..MaxNow)
  /\ ended \subseteq 1..Len(minted)
  /\ DOMAIN sessions \subseteq 1..Len(minted)
  /\ DOMAIN sessions \cap ended = {}
  /\ \A s \in DOMAIN sessions : sessions[s] = minted[s] + TTL
  /\ \A s \in 1..Len(minted) : s \notin ended /\ now < minted[s] + TTL => s \in DOMAIN sessions

Logins ==
  /\ now \in 1..MaxNow
  /\ SessionTable
  /\ Cardinality(DOMAIN sessions) <= MaxSessions
  /\ cookie \in [Admins -> 0..Len(minted)]

\* The table is finite, and what is purged from it is not counted again.
LEMMA TableIsFinite ==
  ASSUME SessionTable
  PROVE  /\ Len(minted) \in Nat
         /\ IsFiniteSet(DOMAIN sessions) /\ Cardinality(DOMAIN sessions) \in Nat
         /\ \A T \in SUBSET DOMAIN sessions :
              /\ IsFiniteSet(T) /\ Cardinality(T) \in Nat
              /\ Cardinality(T) <= Cardinality(DOMAIN sessions)
<1>1. Len(minted) \in Nat
  BY LenProperties DEF SessionTable
<1>2. IsFiniteSet(1..Len(minted))
  BY <1>1, FS_Interval
<1>3. IsFiniteSet(DOMAIN sessions)
  BY <1>2, FS_Subset DEF SessionTable
<1>4. \A T \in SUBSET DOMAIN sessions :
        IsFiniteSet(T) /\ Cardinality(T) <= Cardinality(DOMAIN sessions)
  BY <1>3, FS_Subset
<1>. QED  BY <1>1, <1>3, <1>4, FS_CardinalityType

\* A purge keeps a session that is valid, and a table within its limit.
LEMMA PurgeStep ==
  ASSUME Logins, UNCHANGED <<now, minted, ended, cookie>>,
         sessions' = Unexpired \/ sessions' = Room \/ sessions' = sessions
  PROVE  Logins'
<1> USE DEF Logins
<1>1. sessions' = Unexpired \/ sessions' = sessions
  BY DEF Room
<1>2. DOMAIN sessions' \subseteq DOMAIN sessions
  BY <1>1 DEF Unexpired, Restrict
<1>3. Cardinality(DOMAIN sessions') <= MaxSessions
  BY <1>2, TableIsFinite, SessionsAssumption
<1>4. /\ \A s \in DOMAIN sessions' : sessions'[s] = sessions[s]
      /\ \A s \in DOMAIN sessions : sessions[s] > now => s \in DOMAIN sessions'
  BY <1>1 DEF Unexpired, Restrict
<1>5. \A s \in DOMAIN sessions : minted[s] \in 1..MaxNow
  BY ElementOfSeq DEF SessionTable
<1>6. SessionTable'
  BY <1>2, <1>4, <1>5, SessionsAssumption DEF SessionTable
<1>. QED  BY <1>3, <1>6

\* A login takes a number nobody had, and a place the table had left.
LEMMA MintStep ==
  ASSUME Logins, UNCHANGED now, Mint, NEW a \in Admins, cookie' = [cookie EXCEPT ![a] = NewSession]
  PROVE  Logins'
<1> DEFINE n == Len(minted) + 1
<1> USE DEF Logins, Mint
<1>1. /\ Len(minted) \in Nat /\ IsFiniteSet(DOMAIN Room) /\ Cardinality(DOMAIN Room) \in Nat
      /\ DOMAIN Room \subseteq DOMAIN sessions
      /\ \A s \in DOMAIN Room : Room[s] = sessions[s]
      /\ \A s \in DOMAIN sessions : sessions[s] > now => s \in DOMAIN Room
  BY TableIsFinite DEF Room, Unexpired, Restrict
<1>2. /\ DOMAIN sessions' = DOMAIN Room \cup {n}
      /\ sessions'[n] = now + TTL
      /\ \A s \in DOMAIN Room : s # n => sessions'[s] = Room[s]
  BY DEF Put, NewSession
<1>3. Cardinality(DOMAIN sessions') <= MaxSessions
  <2>1. Cardinality(DOMAIN Room) < MaxSessions
    BY <1>1, SessionsAssumption DEF IsFull
  <2>2. Cardinality(DOMAIN Room \cup {n}) <= Cardinality(DOMAIN Room) + 1
    <3>1. Cardinality(DOMAIN Room \cup {n})
            = IF n \in DOMAIN Room THEN Cardinality(DOMAIN Room) ELSE Cardinality(DOMAIN Room) + 1
      BY <1>1, FS_AddElement
    <3>. QED  BY <1>1, <3>1
  <2>3. Cardinality(DOMAIN Room \cup {n}) \in Nat
    BY <1>1, FS_AddElement, FS_CardinalityType
  <2>. QED  BY <1>1, <1>2, <2>1, <2>2, <2>3, SessionsAssumption
<1>4. /\ minted' \in Seq(1..MaxNow) /\ Len(minted') = n /\ minted'[n] = now
      /\ \A s \in 1..Len(minted) : minted'[s] = minted[s]
  BY AppendProperties DEF SessionTable
<1>5. \A s \in 1..Len(minted) : minted[s] \in 1..MaxNow
  BY ElementOfSeq DEF SessionTable
<1>6. n \notin 1..Len(minted) /\ 1..Len(minted') = 1..Len(minted) \cup {n}
  BY <1>1, <1>4
<1>7. SessionTable'
  BY <1>1, <1>2, <1>4, <1>5, <1>6, SessionsAssumption DEF SessionTable
<1>8. cookie' \in [Admins -> 0..Len(minted')]
  BY <1>1, <1>4 DEF NewSession
<1>. QED  BY <1>3, <1>7, <1>8

\* A logout takes a session out for good.
LEMMA RevokeStep ==
  ASSUME Logins, UNCHANGED now, NEW a \in Admins, cookie[a] # 0, Revoke(cookie[a]),
         cookie' = [cookie EXCEPT ![a] = 0]
  PROVE  Logins'
<1> USE DEF Logins, Revoke
<1>1. Len(minted) \in Nat
  BY TableIsFinite
<1>2. cookie[a] \in 1..Len(minted) /\ cookie' \in [Admins -> 0..Len(minted)]
  BY <1>1
<1>3. DOMAIN sessions' = DOMAIN sessions \ {cookie[a]}
        /\ \A s \in DOMAIN sessions' : sessions'[s] = sessions[s]
  BY DEF Restrict
<1>4. Cardinality(DOMAIN sessions') <= MaxSessions
  BY <1>3, TableIsFinite, SessionsAssumption
<1>5. SessionTable'
  BY <1>2, <1>3 DEF SessionTable
<1>. QED  BY <1>2, <1>4, <1>5

\* A process ends with an empty table, and no cookie names anything in it.
LEMMA TableGoneStep ==
  ASSUME now \in 1..MaxNow, UNCHANGED now, SessionsGone, CookiesStale
  PROVE  Logins'
<1> USE DEF SessionsGone, CookiesStale
<1>1. DOMAIN sessions' = {} /\ minted' \in Seq(1..MaxNow) /\ Len(minted') = 0 /\ ended' = {}
  BY EmptySeq
<1>2. Cardinality(DOMAIN sessions') <= MaxSessions
  BY <1>1, FS_EmptySet, SessionsAssumption
<1>. QED  BY <1>1, <1>2 DEF Logins, SessionTable

\* The clock only takes sessions out of those that ought to be valid.
LEMMA ClockStep ==
  ASSUME Logins, Clock
  PROVE  Logins'
<1>1. now \in 1..MaxNow /\ now' = now + 1 /\ now < MaxNow
  BY DEF Logins, Clock, Tick
<1>2. UNCHANGED <<sessions, minted, ended, cookie>>
  BY DEF Clock, sessionsVars
<1>3. \A s \in 1..Len(minted) : minted[s] \in 1..MaxNow
  BY ElementOfSeq DEF Logins, SessionTable
<1>. QED  BY <1>1, <1>2, <1>3, LifeAssumption, SessionsAssumption DEF Logins, SessionTable

\* Every step keeps the sessions.
LEMMA LoginsStep ==
  ASSUME Logins, [Next]_vars
  PROVE  Logins'
<1>1. ASSUME UNCHANGED <<now, sessionsVars, cookie>>
      PROVE  Logins'
  BY <1>1, PurgeStep DEF sessionsVars
<1>2. ASSUME NEW a \in Admins, Login(a)
      PROVE  Logins'
  <2>1. UNCHANGED now
    BY <1>2 DEF Login, lifeVars
  <2>. QED  BY <1>2, <2>1, MintStep, PurgeStep DEF Login, Refuse
<1>3. ASSUME NEW a \in Admins, Logout(a)
      PROVE  Logins'
  BY <1>3, RevokeStep DEF Logout, lifeVars
<1>4. CASE Janitor
  BY <1>4, PurgeStep DEF Janitor, PurgeExpired, lifeVars
<1>5. CASE Clock
  BY <1>5, ClockStep
<1>6. CASE ServerDone \/ Crash
  BY <1>6, TableGoneStep DEF ServerDone, Served, Crash, Kill, Logins
<1>7. CASE Work \/ Boot \/ Exit \/ UNCHANGED vars
  BY <1>1, <1>7 DEF Work, Boot, Start, Exit, End, vars, lifeVars
<1>. QED  BY <1>2, <1>3, <1>4, <1>5, <1>6, <1>7 DEF Next

\* A session is in the table and not expired exactly while it ought to be valid.
LEMMA ValidSessions ==
  ASSUME Logins
  PROVE  SessionLasts /\ DOMAIN Unexpired = OughtToBeValid
<1>1. \A s \in 1..Len(minted) : minted[s] \in 1..MaxNow
  BY ElementOfSeq DEF Logins, SessionTable
<1>. QED  BY <1>1, SessionsAssumption
          DEF Logins, SessionTable, SessionLasts, IsValid, OughtToBeValid, Unexpired, Restrict

----------------------------------------------------------------------------
(* The theorems.                                                           *)

Inv == Registry /\ Activity /\ Logins

\* The invariant holds at first and every step keeps it.
LEMMA InvIsInductive == (Init => Inv) /\ (Inv /\ [Next]_vars => Inv')
<1>1. ASSUME Init PROVE Inv
  <2>1. Registry
    BY <1>1, RegistryInit DEF Init
  <2>2. now \in 1..MaxNow
    BY <1>1, LifeAssumption DEF Init, LifeInit
  <2>3. Activity
    BY <1>1, <2>2, ActivityLaws DEF Init, LifeInit, DevicesInit, Activity, ActivityIsKept,
         CallType, New, NoActivity
  <2>4. Logins
    <3>1. DOMAIN sessions = {} /\ minted \in Seq(1..MaxNow) /\ Len(minted) = 0 /\ ended = {}
      BY <1>1, EmptySeq DEF Init, SessionsInit
    <3>2. Cardinality(DOMAIN sessions) <= MaxSessions
      BY <3>1, FS_EmptySet, SessionsAssumption
    <3>. QED  BY <1>1, <2>2, <3>1, <3>2 DEF Init, Logins, SessionTable
  <2>. QED  BY <2>1, <2>3, <2>4 DEF Inv
<1>2. ASSUME Inv, [Next]_vars PROVE Inv'
  BY <1>2, RegistryStep, ActivityStep, LoginsStep DEF Inv, Activity
<1>. QED  BY <1>1, <1>2

\* Every state a behaviour reaches satisfies the invariant.
THEOREM AccessInvariant == Spec => []Inv
BY InvIsInductive, PTL DEF Spec

\* No call authenticates with the token of a revoked row, but while the request
\* that revoked it is about to evict it, or when its SELECT failed.
THEOREM Revocation == Spec => []RevokedIsOut
<1>1. Inv => RevokedIsOut
  BY DEF Inv, Registry
<1>. QED  BY <1>1, AccessInvariant, PTL

\* A token that was told to its owner works while its row is not revoked.
THEOREM Creation == Spec => []CreatedWorks
<1>1. Inv => CreatedWorks
  BY DEF Inv, Registry
<1>. QED  BY <1>1, AccessInvariant, PTL

\* No flush overtakes or drops the activity that is noted meanwhile.
THEOREM ActivityKept == Spec => []ActivityIsKept
<1>1. Inv => ActivityIsKept
  BY DEF Inv, Activity
<1>. QED  BY <1>1, AccessInvariant, PTL

\* A session lasts from its login for TTL, whatever is purged meanwhile.
THEOREM SessionsLast == Spec => []SessionLasts
<1>1. Inv => SessionLasts
  BY ValidSessions DEF Inv
<1>. QED  BY <1>1, AccessInvariant, PTL

\* A login is only refused while as many sessions as the table holds are valid.
THEOREM RefusalIsRight == Spec => []RefusedOnlyWhenFull
<1>1. Inv => RefusedOnlyWhenFull
  <2> SUFFICES ASSUME Inv, IsFull(Room) PROVE Cardinality(OughtToBeValid) >= MaxSessions
    BY DEF RefusedOnlyWhenFull
  <2>1. Room = Unexpired
    BY DEF Room
  <2>2. Cardinality(DOMAIN Unexpired) >= MaxSessions
    BY <2>1 DEF IsFull
  <2>3. DOMAIN Unexpired = OughtToBeValid
    BY ValidSessions DEF Inv
  <2>. QED  BY <2>2, <2>3
<1>. QED  BY <1>1, AccessInvariant, PTL

\* Devices, sessions and cookies stay what they are taken for.
THEOREM TypeCorrect == Spec => []TypeOK
<1>1. Inv => TypeOK
  BY DEF Inv, Registry, RegistryType, AdminType, Row, Activity, CallType, Logins, SessionTable,
         TypeOK, DevicesTypeOK, SessionsTypeOK
<1>. QED  BY <1>1, AccessInvariant, PTL

\* Tables, caches, loads, crashes and failing statements implement a registry
\* that grants a token once and never honours again what it has dropped.
THEOREM RegistryImplementsTokens == Spec => ImplementsTokens
<1>1. Init => TokenSpec!Init
  <2>1. ASSUME Init PROVE devices = <<>> /\ DOMAIN devices = {} /\ phase = "down"
    BY <2>1, EmptySeq DEF Init, LifeInit, DevicesInit
  <2>. QED  BY <2>1 DEF TokenSpec!Init, Granted, Honoured, Active
<1>2. Inv /\ [Next]_vars => [TokenSpec!Change]_<<Granted, Honoured>>
  <2>1. ASSUME Inv, [Next]_vars PROVE TokenSpec!Change
    <3>1. Inv' /\ KeepsPromise
      BY <2>1, InvIsInductive, RegistryStep DEF Inv, Activity
    <3>2. DOMAIN devices' \subseteq 1..MaxDevices
      <4>1. devices' \in Seq(Row) /\ Len(devices') <= MaxDevices
        BY <3>1 DEF Inv, Registry, RegistryType
      <4>. QED  BY <4>1, LenProperties, DevicesAssumption
    <3>. QED  BY <3>1, <3>2 DEF TokenSpec!Change, KeepsPromise, Granted
  <2>. QED  BY <2>1
<1>. QED  BY <1>1, <1>2, AccessInvariant, PTL DEF Spec, ImplementsTokens, TokenSpec!Spec
=============================================================================

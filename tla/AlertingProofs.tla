--------------------------- MODULE AlertingProofs ---------------------------
(***************************************************************************)
(* Proofs about Alerting, for any logs, timestamps, administrators, rules, *)
(* thresholds, windows, cooldowns and queue.                               *)
(***************************************************************************)
EXTENDS Alerting, FiniteSetTheorems, SequenceTheorems, TLAPS

Hit == [ts : Int, log : Logs]

EngineType ==
  /\ gen \in Nat
  /\ DOMAIN installed \subseteq Rules
  /\ installed \in [DOMAIN installed -> [hits : Seq(Hit), last : Int]]
  /\ ts \in [Logs -> Int]
  /\ at \in [Logs -> {"new", "scan", "send", "done"}]
  /\ todo \in [Logs -> SUBSET Rules]
  /\ fired \subseteq [rule : Rules, gen : Nat, at : Int, logs : SUBSET Logs]

\* What the read lock is for: the rules a log has yet to be matched against are
\* the installed ones.
LockHeld == \A l \in Logs : Observing(l) => todo[l] \subseteq DOMAIN installed

\* An event of the rules now installed is no later than its rule's last_fired_at,
\* and none is of rules still to come.
LastIsLatest ==
  \A e \in fired :
    /\ e.gen <= gen
    /\ e.gen = gen => e.rule \in DOMAIN installed /\ e.at <= installed[e.rule].last

EngineInv == EngineType /\ LockHeld /\ LastIsLatest /\ CooldownHolds

engineVars == <<gen, installed, ts, at, todo, fired>>

----------------------------------------------------------------------------
\* What is left of a sequence when a prefix is dropped.
LEMMA SuffixIsSeq ==
  ASSUME NEW S, NEW s \in Seq(S), NEW n \in Nat \ {0}
  PROVE  SubSeq(s, n, Len(s)) \in Seq(S)
<1>1. Len(s) \in Nat
  BY LenProperties
<1>2. CASE n <= Len(s)
  <2>1. \A i \in n..Len(s) : s[i] \in S
    BY <1>1, ElementOfSeq
  <2>. QED  BY <1>1, <2>1, SubSeqProperties
<1>3. CASE n > Len(s)
  <2>1. SubSeq(s, n, Len(s)) = <<>>
    BY <1>1, <1>3, SubSeqEmpty
  <2>. QED  BY <2>1, EmptySeq
<1>. QED  BY <1>1, <1>2, <1>3

\* Popping old hits leaves a sequence of hits.
LEMMA RecentIsSeq ==
  ASSUME NEW S, NEW hits \in Seq(S), NEW cutoff
  PROVE  Recent(hits, cutoff) \in Seq(S)
<1> DEFINE popped == {k \in DOMAIN hits : \A j \in 1..k : hits[j].ts < cutoff}
<1>1. Len(hits) \in Nat /\ DOMAIN hits = 1..Len(hits)
  BY LenProperties
<1>2. IsFiniteSet(DOMAIN hits)
  BY <1>1, FS_Interval
<1>3. Cardinality(popped) \in Nat
  <2>1. popped \subseteq DOMAIN hits
    OBVIOUS
  <2>. HIDE DEF popped
  <2>. QED  BY <1>2, <2>1, FS_Subset, FS_CardinalityType
<1>. HIDE DEF popped
<1>4. SubSeq(hits, Cardinality(popped) + 1, Len(hits)) \in Seq(S)
  BY <1>3, SuffixIsSeq
<1>. QED  BY <1>4 DEF Recent, popped

\* The counted hits of a match are a sequence of hits.
LEMMA CountedHits ==
  ASSUME EngineType, NEW l \in Logs, NEW r \in DOMAIN installed
  PROVE  Counted(l, r) \in Seq(Hit)
<1> DEFINE x == [ts |-> ts[l], log |-> l]
           rest == Recent(installed[r].hits, ts[l] - Window[r])
<1>1. installed[r].hits \in Seq(Hit) /\ x \in Hit
  BY DEF EngineType, Hit
<1>2. rest \in Seq(Hit)
  BY <1>1, RecentIsSeq
<1>3. Counted(l, r) = Append(rest, x)
  BY DEF Counted
<1> HIDE DEF rest, x
<1>. QED  BY <1>1, <1>2, <1>3, AppendProperties

----------------------------------------------------------------------------
\* The engine starts without rules.
LEMMA EngineInit == Init => EngineInv
BY DEF Init, EngineInv, EngineType, LockHeld, LastIsLatest, CooldownHolds,
       Observing, Rules

\* A new rule set: no hits, and no event yet of its generation.
LEMMA InstallStep ==
  ASSUME EngineInv, NEW a \in Admins, Install(a), snap[a] \subseteq Rules
  PROVE  EngineInv'
<1> USE DEF EngineInv
<1>1. installed' = [r \in snap[a] |-> Fresh] /\ gen' = gen + 1
  BY DEF Install, Compiled
<1>2. UNCHANGED <<ts, at, todo, fired>>
  BY DEF Install, logVars
<1>3. <<>> \in Seq(Hit) /\ Len(<<>>) = 0
  BY EmptySeq
<1>4. Fresh \in [hits : Seq(Hit), last : Int]
  BY <1>3 DEF Fresh
<1>5. EngineType'
  BY <1>1, <1>2, <1>4 DEF EngineType
<1>6. LockHeld'
  BY <1>2 DEF Install, LockHeld, Observing
<1>7. LastIsLatest'
  BY <1>1, <1>2 DEF LastIsLatest, EngineType
<1>8. CooldownHolds'
  BY <1>2 DEF CooldownHolds
<1>. QED  BY <1>5, <1>6, <1>7, <1>8

\* A match that does not tip its rule over.
LEMMA CountStep ==
  ASSUME EngineInv, NEW l \in Logs, NEW r \in DOMAIN installed,
         ~Fires(l, r),
         installed' = [installed EXCEPT ![r].hits = Counted(l, r)],
         todo' = [todo EXCEPT ![l] = @ \ {r}],
         UNCHANGED <<gen, ts, at, fired>>
  PROVE  EngineInv'
<1> USE DEF EngineInv
<1> DEFINE c == Counted(l, r)
<1>1. c \in Seq(Hit)
  BY CountedHits
<1> HIDE DEF c
<1>2. /\ DOMAIN installed' = DOMAIN installed
      /\ installed'[r] = [hits |-> c, last |-> installed[r].last]
      /\ \A q \in DOMAIN installed : q # r => installed'[q] = installed[q]
      /\ \A q \in DOMAIN installed : installed'[q].last = installed[q].last
  BY DEF EngineType, c
<1>3. EngineType'
  BY <1>1, <1>2 DEF EngineType
<1>4. LockHeld'
  BY <1>2 DEF LockHeld, Observing, EngineType
<1>5. LastIsLatest'
  BY <1>2 DEF LastIsLatest
<1>6. CooldownHolds'
  BY DEF CooldownHolds
<1>. QED  BY <1>3, <1>4, <1>5, <1>6

\* A match that tips its rule over: the new event is a cooldown after all the
\* earlier ones of its rule and generation.
LEMMA FireStep ==
  ASSUME EngineInv, NEW l \in Logs, NEW r \in DOMAIN installed, NEW e,
         Fires(l, r),
         e \in [rule : Rules, gen : Nat, at : Int, logs : SUBSET Logs],
         e.rule = r, e.gen = gen, e.at = ts[l],
         fired' = fired \cup {e},
         installed' = [installed EXCEPT ![r] = Cleared(l, r)],
         todo' = [todo EXCEPT ![l] = @ \ {r}],
         at' = [at EXCEPT ![l] = "send"],
         Observing(l),
         UNCHANGED <<gen, ts>>
  PROVE  EngineInv'
<1> USE DEF EngineInv
<1>1. ts[l] \in Int /\ r \in Rules /\ Cooldown[r] \in Nat /\ installed[r].last \in Int
  BY AlertingAssumption DEF EngineType
<1>2. <<>> \in Seq(Hit) /\ Len(<<>>) = 0
  BY EmptySeq
<1>3. /\ DOMAIN installed' = DOMAIN installed
      /\ installed'[r] = [hits |-> <<>>, last |-> ts[l]]
      /\ \A q \in DOMAIN installed : q # r => installed'[q] = installed[q]
  BY DEF EngineType, Cleared
<1>4. ts[l] >= installed[r].last + Cooldown[r]
  BY DEF Fires
<1>5. EngineType'
  <2>1. fired' \subseteq [rule : Rules, gen : Nat, at : Int, logs : SUBSET Logs]
    BY DEF EngineType
  <2>2. installed'[r] \in [hits : Seq(Hit), last : Int]
    <3>1. \A h \in Seq(Hit), n \in Int :
            [hits |-> h, last |-> n] \in [hits : Seq(Hit), last : Int]
      OBVIOUS
    <3>2. <<>> \in Seq(Hit) /\ ts[l] \in Int
      BY <1>1, <1>2
    <3>3. [hits |-> <<>>, last |-> ts[l]] \in [hits : Seq(Hit), last : Int]
      BY <3>1, <3>2, Zenon
    <3>. QED  BY <1>3, <3>3, Zenon
  <2>3. installed' \in [DOMAIN installed' -> [hits : Seq(Hit), last : Int]]
    <3>1. \A q \in DOMAIN installed : installed'[q] \in [hits : Seq(Hit), last : Int]
      BY <1>3, <2>2 DEF EngineType
    <3>. QED  BY <1>3, <3>1
  <2>4. /\ todo' \in [Logs -> SUBSET Rules]
        /\ at' \in [Logs -> {"new", "scan", "send", "done"}]
    BY DEF EngineType
  <2>. QED  BY <1>3, <2>1, <2>3, <2>4 DEF EngineType
<1>6. LockHeld'
  BY <1>3 DEF LockHeld, Observing, EngineType
<1>7. \A f \in fired : f.rule = r /\ f.gen = gen => ts[l] >= f.at + Cooldown[r]
  BY <1>1, <1>4 DEF LastIsLatest, EngineType
<1>8. LastIsLatest'
  <2> SUFFICES ASSUME NEW f \in fired'
               PROVE  /\ f.gen <= gen
                      /\ f.gen = gen => /\ f.rule \in DOMAIN installed
                                        /\ f.at <= installed'[f.rule].last
    BY <1>3 DEF LastIsLatest
  <2>1. CASE f = e
    BY <1>1, <1>3, <2>1 DEF EngineType
  <2>2. CASE f \in fired /\ f.rule = r
    BY <1>1, <1>3, <1>7, <2>2 DEF LastIsLatest, EngineType
  <2>3. CASE f \in fired /\ f.rule # r
    BY <1>3, <2>3 DEF LastIsLatest
  <2>. QED  BY <2>1, <2>2, <2>3
<1>9. CooldownHolds'
  <2> SUFFICES ASSUME NEW f \in fired', NEW g \in fired',
                      f # g, f.rule = g.rule, f.gen = g.gen
               PROVE  f.at >= g.at + Cooldown[f.rule] \/ g.at >= f.at + Cooldown[f.rule]
    BY DEF CooldownHolds
  <2>1. CASE f \in fired /\ g \in fired
    BY <2>1 DEF CooldownHolds
  <2>2. CASE f = e
    BY <1>7, <2>2
  <2>3. CASE g = e
    BY <1>7, <2>3
  <2>. QED  BY <2>1, <2>2, <2>3
<1>. QED  BY <1>5, <1>6, <1>8, <1>9

\* The steps of a handler that is matching a log.
LEMMA ObserveStep ==
  ASSUME EngineInv, NEW l \in Logs, Observe(l) \/ Scan(l)
  PROVE  EngineInv'
<1> USE DEF EngineInv
<1> SUFFICES ASSUME ~Tally(l) PROVE EngineInv'
  <2> SUFFICES ASSUME Tally(l) PROVE EngineInv'
    OBVIOUS
  <2>1. PICK r \in Rules : Tally(l)!(r)
    BY DEF Tally
  <2>2. at[l] = "scan" /\ r \in todo[l] /\ Observing(l) /\ UNCHANGED <<gen, ts>>
    BY <2>1 DEF Turn, Observing, engineSide
  <2>3. r \in DOMAIN installed
    BY <2>2 DEF LockHeld
  <2>4. CASE ~Fires(l, r)
    BY <2>1, <2>2, <2>3, <2>4, CountStep
  <2>5. CASE Fires(l, r)
    <3> DEFINE c == Counted(l, r)
               e == [rule |-> r, gen |-> gen, at |-> ts[l],
                     logs |-> {c[k].log : k \in DOMAIN c}]
    <3>1. c \in Seq(Hit)
      BY <2>3, CountedHits
    <3>2. \A k \in DOMAIN c : c[k].log \in Logs
      <4> HIDE DEF c
      <4>1. Len(c) \in Nat /\ DOMAIN c = 1..Len(c)
        BY <3>1, LenProperties
      <4>2. \A k \in 1..Len(c) : c[k] \in Hit
        BY <3>1, ElementOfSeq
      <4>. QED  BY <4>1, <4>2 DEF Hit
    <3>3. e \in [rule : Rules, gen : Nat, at : Int, logs : SUBSET Logs]
      BY <3>2 DEF EngineType
    <3>4. e.rule = r /\ e.gen = gen /\ e.at = ts[l]
      OBVIOUS
    <3>5. fired' = fired \cup {e} /\ at' = [at EXCEPT ![l] = "send"]
          /\ installed' = [installed EXCEPT ![r] = Cleared(l, r)]
      BY <2>1, <2>5
    <3> HIDE DEF e
    <3>. QED  BY <2>1, <2>2, <2>3, <2>5, <3>3, <3>4, <3>5, FireStep
  <2>. QED  BY <2>4, <2>5
<1>1. UNCHANGED <<gen, installed, fired>>
  BY DEF Observe, Scan, Mismatch, Send, Observed, engineSide
<1>2. Times \subseteq Int
  BY AlertingAssumption
<1>3. EngineType' /\ LockHeld'
  <2>1. CASE Observe(l)
    BY <1>1, <1>2, <2>1 DEF Observe, EngineType, LockHeld, Observing
  <2>2. CASE Mismatch(l)
    BY <1>1, <2>2 DEF Mismatch, EngineType, LockHeld, Observing
  <2>3. CASE Send(l)
    BY <1>1, <2>3 DEF Send, EngineType, LockHeld, Observing
  <2>4. CASE Observed(l)
    BY <1>1, <2>4 DEF Observed, EngineType, LockHeld, Observing
  <2>. QED  BY <2>1, <2>2, <2>3, <2>4 DEF Scan
<1>4. LastIsLatest' /\ CooldownHolds'
  BY <1>1 DEF LastIsLatest, CooldownHolds
<1>. QED  BY <1>3, <1>4

\* A step that leaves the engine alone.
LEMMA EngineIdle ==
  ASSUME EngineInv, UNCHANGED engineVars
  PROVE  EngineInv'
BY DEF EngineInv, engineVars, EngineType, LockHeld, LastIsLatest, CooldownHolds,
       Observing

----------------------------------------------------------------------------
\* The table holds ids that were given out, and so does every list of them.
RuleIds ==
  /\ lastRule \in 0..MaxRules
  /\ DOMAIN table \subseteq 1..lastRule
  /\ snap \in [Admins -> SUBSET Rules]

Inv == RuleIds /\ EngineInv

\* The invariant holds before the first rule.
LEMMA InvInit == Init => Inv
<1>1. Init => RuleIds
  BY AlertingAssumption DEF Init, RuleIds
<1>. QED  BY <1>1, EngineInit DEF Inv

\* Rules are created under new ids, and only they are listed.
LEMMA RuleIdsNext == RuleIds /\ [Next]_vars => RuleIds'
<1> SUFFICES ASSUME RuleIds, [Next]_vars PROVE RuleIds'
  OBVIOUS
<1> USE AlertingAssumption DEF RuleIds, Rules
<1>1. ASSUME NEW a \in Admins, Create(a) PROVE RuleIds'
  <2>1. lastRule' = lastRule + 1 /\ lastRule < MaxRules /\ UNCHANGED snap
    BY <1>1 DEF Create, Edit
  <2>2. DOMAIN table' = DOMAIN table \cup {lastRule + 1}
    BY <1>1 DEF Create
  <2>3. DOMAIN table' \subseteq 1..lastRule'
    BY <2>1, <2>2
  <2>. QED  BY <2>1, <2>3
<1>2. ASSUME NEW a \in Admins, SetEnabled(a) PROVE RuleIds'
  BY <1>2 DEF SetEnabled, Edit
<1>3. ASSUME NEW a \in Admins, Delete(a) PROVE RuleIds'
  BY <1>3 DEF Delete, Edit
<1>4. ASSUME NEW a \in Admins, Reload(a) PROVE RuleIds'
  <2>1. UNCHANGED <<table, lastRule>>
    BY <1>4 DEF Reload, List, ListFails, Install, listSide
  <2>2. Enabled \subseteq Rules
    BY DEF Enabled
  <2>3. snap' \in [Admins -> SUBSET Rules]
    <3>1. CASE List(a)
      BY <2>2, <3>1 DEF List
    <3>2. CASE ListFails(a)
      BY <3>2 DEF ListFails
    <3>3. CASE Install(a)
      BY <3>3 DEF Install
    <3>. QED  BY <1>4, <3>1, <3>2, <3>3 DEF Reload
  <2>. QED  BY <2>1, <2>3
<1>5. ASSUME NEW l \in Logs, Observe(l) \/ Scan(l) PROVE RuleIds'
  BY <1>5 DEF Observe, Scan, Mismatch, Tally, Send, Observed, engineSide, adminVars
<1>6. CASE Test
  BY <1>6 DEF Test, adminVars
<1>7. CASE Delivery
  BY <1>7 DEF Delivery, Take, Post, Record, taskSide, adminVars
<1>8. CASE UNCHANGED vars
  BY <1>8 DEF vars, adminVars
<1>. QED  BY <1>1, <1>2, <1>3, <1>4, <1>5, <1>6, <1>7, <1>8 DEF Next

\* The invariant is inductive.
LEMMA InvNext == Inv /\ [Next]_vars => Inv'
<1> SUFFICES ASSUME Inv, [Next]_vars PROVE EngineInv'
  BY RuleIdsNext DEF Inv
<1> USE DEF Inv
<1>1. ASSUME NEW a \in Admins, Create(a) \/ SetEnabled(a) \/ Delete(a) PROVE EngineInv'
  BY <1>1, EngineIdle DEF Create, SetEnabled, Delete, Edit, logVars, engineVars
<1>2. ASSUME NEW a \in Admins, List(a) \/ ListFails(a) PROVE EngineInv'
  BY <1>2, EngineIdle DEF List, ListFails, listSide, logVars, engineVars
<1>3. ASSUME NEW a \in Admins, Install(a) PROVE EngineInv'
  BY <1>3, InstallStep DEF RuleIds
<1>4. ASSUME NEW l \in Logs, Observe(l) \/ Scan(l) PROVE EngineInv'
  BY <1>4, ObserveStep
<1>5. CASE Test
  BY <1>5, EngineIdle DEF Test, logVars, engineVars
<1>6. CASE Delivery
  BY <1>6, EngineIdle DEF Delivery, Take, Post, Record, taskSide, logVars, engineVars
<1>7. CASE UNCHANGED vars
  BY <1>7, EngineIdle DEF vars, logVars, engineVars
<1>. QED  BY <1>1, <1>2, <1>3, <1>4, <1>5, <1>6, <1>7 DEF Next, Reload

\* The invariant holds in every reachable state.
LEMMA AlertingInvariant == Spec => []Inv
BY InvInit, InvNext, PTL DEF Spec

\* tally never lets two alerts of a rule through within its cooldown, for any
\* number of concurrent logs with any timestamps, between two edits of the rules.
THEOREM CooldownIsKept == Spec => []CooldownHolds
<1>1. Inv => CooldownHolds
  BY DEF Inv, EngineInv
<1>. QED  BY <1>1, AlertingInvariant, PTL

----------------------------------------------------------------------------
(* Types.                                                                  *)

StampedHit == [ts : Times, log : Logs]

\* A log that is observed has its time; TypeOK alone would let a hit have none.
Stamped == \A l \in Logs : at[l] # "new" => ts[l] \in Times

Types == TypeOK /\ Stamped

LEMMA StampedHits ==
  ASSUME TypeOK, NEW l \in Logs, NEW r \in DOMAIN installed, ts[l] \in Times
  PROVE  /\ Counted(l, r) \in Seq(StampedHit)
         /\ \A k \in DOMAIN Counted(l, r) : Counted(l, r)[k].log \in Logs
<1> DEFINE x == [ts |-> ts[l], log |-> l]
           rest == Recent(installed[r].hits, ts[l] - Window[r])
<1>1. installed[r].hits \in Seq(StampedHit) /\ x \in StampedHit
  BY DEF TypeOK, StampedHit
<1>2. rest \in Seq(StampedHit)
  BY <1>1, RecentIsSeq
<1>3. Counted(l, r) = Append(rest, x)
  BY DEF Counted
<1> HIDE DEF rest, x
<1>4. Counted(l, r) \in Seq(StampedHit)
  BY <1>1, <1>2, <1>3, AppendProperties
<1>5. ASSUME NEW c \in Seq(StampedHit)  PROVE \A k \in DOMAIN c : c[k].log \in Logs
  <2>1. \A k \in DOMAIN c : c[k] \in StampedHit
    BY LenProperties, ElementOfSeq
  <2>. QED  BY <2>1 DEF StampedHit
<1>. QED  BY <1>4, <1>5

LEMMA BumpType ==
  ASSUME NEW f \in [Rules -> Nat], NEW r
  PROVE  Bump(f, r) \in [Rules -> Nat]
<1>1. CASE r \in Rules
  BY <1>1 DEF Bump
<1>2. CASE r \notin Rules
  BY <1>2 DEF Bump
<1>. QED  BY <1>1, <1>2

\* An event that is offered goes into the queue, which has room, or is dropped.
LEMMA OfferType ==
  ASSUME TypeOK, NEW e \in Events, Offer(e)
  PROVE  /\ queue' \in Seq(Events) /\ Len(queue') <= AlertQueue
         /\ unrecorded' \in [Rules -> Nat]
<1>1. CASE HasRoom /\ queue' = Append(queue, e) /\ UNCHANGED unrecorded
  <2>1. Append(queue, e) \in Seq(Events) /\ Len(Append(queue, e)) = Len(queue) + 1
    BY AppendProperties DEF TypeOK
  <2>2. Len(queue) \in Nat /\ AlertQueue \in Nat /\ Len(queue) < AlertQueue
    BY <1>1, LenProperties, AlertingAssumption DEF TypeOK, HasRoom
  <2>. QED  BY <1>1, <2>1, <2>2 DEF TypeOK
<1>2. CASE UNCHANGED queue /\ unrecorded' = Bump(unrecorded, e.rule)
  BY <1>2, BumpType DEF TypeOK
<1>. QED  BY <1>1, <1>2 DEF Offer

LEMMA NoEventType == NoEvent \in Events
BY DEF NoEvent, Events

LEMMA TypesInit == Init => Types
<1> SUFFICES ASSUME Init PROVE Types
  OBVIOUS
<1>1. <<>> \in Seq(Events) /\ Len(<<>>) = 0
  BY EmptySeq
<1>2. table \in [DOMAIN table -> [on : BOOLEAN, fires : Nat]] /\ DOMAIN table = {}
  BY DEF Init
<1>. QED  BY <1>1, <1>2, NoEventType, AlertingAssumption DEF Init, Types, TypeOK, Stamped, Rules

LEMMA TypesAdmin ==
  ASSUME Types, NEW a \in Admins, Create(a) \/ SetEnabled(a) \/ Delete(a) \/ Reload(a)
  PROVE  Types'
<1> USE DEF Types
<1>1. /\ UNCHANGED <<at, ts, todo, held, dpc, event, attempt, queue, fired, sent, unrecorded>>
  BY DEF Create, SetEnabled, Delete, Edit, Reload, List, ListFails, Install, listSide, logVars,
       taskVars
<1>2. /\ DOMAIN table' \subseteq 1..lastRule' /\ lastRule' \in 0..MaxRules
      /\ table' \in [DOMAIN table' -> [on : BOOLEAN, fires : Nat]]
  <2>1. CASE Create(a)
    <3>1. PICK on \in BOOLEAN :
            table' = [r \in DOMAIN table \cup {lastRule + 1} |->
                        IF r \in DOMAIN table THEN table[r] ELSE [on |-> on, fires |-> 0]]
      BY <2>1 DEF Create
    <3>2. lastRule' = lastRule + 1 /\ lastRule < MaxRules /\ MaxRules \in Nat
      BY <2>1, AlertingAssumption DEF Create
    <3>3. DOMAIN table' \subseteq 1..lastRule' /\ lastRule' \in 0..MaxRules
      BY <3>1, <3>2 DEF TypeOK
    <3>4. table' \in [DOMAIN table' -> [on : BOOLEAN, fires : Nat]]
      BY <3>1 DEF TypeOK
    <3>. QED  BY <3>3, <3>4
  <2>2. CASE SetEnabled(a)
    <3>1. PICK r \in DOMAIN table, on \in BOOLEAN : table' = [table EXCEPT ![r].on = on]
      BY <2>2 DEF SetEnabled
    <3>2. DOMAIN table' = DOMAIN table /\ lastRule' = lastRule
      BY <2>2, <3>1 DEF SetEnabled
    <3>3. table' \in [DOMAIN table -> [on : BOOLEAN, fires : Nat]]
      BY <3>1 DEF TypeOK
    <3>. QED  BY <3>2, <3>3 DEF TypeOK
  <2>3. CASE Delete(a)
    <3>1. PICK gone \in DOMAIN table : table' = [r \in DOMAIN table \ {gone} |-> table[r]]
      BY <2>3 DEF Delete
    <3>. QED  BY <2>3, <3>1 DEF Delete, TypeOK
  <2>4. CASE Reload(a)
    BY <2>4 DEF Reload, List, ListFails, Install, listSide, TypeOK
  <2>. QED  BY <2>1, <2>2, <2>3, <2>4
<1>3. /\ apc' \in [Admins -> {"idle", "list", "install"}] /\ snap' \in [Admins -> SUBSET Rules]
  <2>1. CASE Create(a) \/ SetEnabled(a) \/ Delete(a)
    BY <2>1 DEF Create, SetEnabled, Delete, Edit, TypeOK
  <2>2. CASE List(a)
    <3>1. Enabled \subseteq Rules
      BY AlertingAssumption DEF Enabled, TypeOK, Rules
    <3>. QED  BY <2>2, <3>1 DEF List, TypeOK
  <2>3. CASE ListFails(a)
    BY <2>3 DEF ListFails, TypeOK
  <2>4. CASE Install(a)
    BY <2>4 DEF Install, TypeOK
  <2>. QED  BY <2>1, <2>2, <2>3, <2>4 DEF Reload
<1>4. /\ DOMAIN installed' \subseteq Rules /\ gen' \in Nat
      /\ \A r \in DOMAIN installed' : /\ installed'[r].hits \in Seq(StampedHit)
                                      /\ installed'[r].last \in Times \cup {0}
  <2>1. CASE Install(a)
    <3>1. installed' = [r \in snap[a] |-> Fresh] /\ gen' = gen + 1 /\ snap[a] \subseteq Rules
      BY <2>1 DEF Install, Compiled, TypeOK
    <3>. QED  BY <3>1, EmptySeq DEF Fresh, TypeOK
  <2>2. CASE UNCHANGED <<installed, gen>>
    BY <2>2 DEF TypeOK, StampedHit
  <2>. QED  BY <2>1, <2>2 DEF Create, SetEnabled, Delete, Edit, Reload, List, ListFails, listSide
<1>. QED  BY <1>1, <1>2, <1>3, <1>4 DEF TypeOK, Stamped, StampedHit

LEMMA TypesTally ==
  ASSUME Types, EngineInv, NEW l \in Logs, Tally(l)
  PROVE  Types'
<1> USE DEF Types
<1>1. PICK r \in Rules : Tally(l)!(r)
  BY DEF Tally
<1>2. at[l] = "scan" /\ r \in todo[l] /\ r \in DOMAIN installed /\ ts[l] \in Times
  BY <1>1 DEF Turn, Observing, EngineInv, LockHeld, Stamped
<1>3. Counted(l, r) \in Seq(StampedHit) /\ \A k \in DOMAIN Counted(l, r) : Counted(l, r)[k].log \in Logs
  BY <1>2, StampedHits
<1>4. /\ UNCHANGED <<table, lastRule, apc, snap, gen, ts, dpc, event, attempt, queue, unrecorded>>
      /\ todo' \in [Logs -> SUBSET Rules]
  BY <1>1 DEF engineSide, adminVars, taskVars, TypeOK
<1>5. /\ DOMAIN installed' = DOMAIN installed
      /\ \A q \in DOMAIN installed : /\ installed'[q].hits \in Seq(StampedHit)
                                     /\ installed'[q].last \in Times \cup {0}
  <2>0. \A q \in DOMAIN installed : /\ installed[q].hits \in Seq(StampedHit)
                                    /\ installed[q].last \in Times \cup {0}
    BY DEF TypeOK, StampedHit
  <2>1. CASE installed' = [installed EXCEPT ![r].hits = Counted(l, r)]
    <3> DEFINE c == Counted(l, r)
    <3>1. c \in Seq(StampedHit)
      BY <1>3
    <3> HIDE DEF c
    <3>2. installed' = [installed EXCEPT ![r].hits = c]
      BY <2>1 DEF c
    <3>3. /\ DOMAIN installed' = DOMAIN installed
          /\ \A q \in DOMAIN installed : q # r => installed'[q] = installed[q]
          /\ installed'[r].hits = c /\ installed'[r].last = installed[r].last
      BY <1>2, <3>2 DEF EngineInv, EngineType
    <3>. QED  BY <1>2, <2>0, <3>1, <3>3
  <2>2. CASE installed' = [installed EXCEPT ![r] = Cleared(l, r)]
    <3>1. Cleared(l, r).hits \in Seq(StampedHit) /\ Cleared(l, r).last \in Times \cup {0}
      BY <1>2, EmptySeq DEF Cleared
    <3>. QED  BY <1>2, <2>0, <2>2, <3>1
  <2>. QED  BY <1>1, <2>1, <2>2
<1>6. /\ at' \in [Logs -> {"new", "scan", "send", "done"}] /\ \A m \in Logs : held'[m] \in Events
      /\ fired' \subseteq Events /\ sent' \in [Rules -> Nat]
      /\ \A m \in Logs : at'[m] # "new" => at[m] # "new"
  <2>1. CASE ~Fires(l, r)
    BY <1>1, <2>1 DEF TypeOK
  <2>2. CASE Fires(l, r)
    <3> DEFINE c == Counted(l, r)
               e == [rule |-> r, gen |-> gen, at |-> ts[l], logs |-> {c[k].log : k \in DOMAIN c}]
    <3>1. e \in Events
      BY <1>2, <1>3 DEF Events, TypeOK
    <3>2. /\ held' = [held EXCEPT ![l] = e] /\ fired' = fired \cup {e} /\ sent' = Bump(sent, r)
          /\ at' = [at EXCEPT ![l] = "send"]
      BY <1>1, <2>2
    <3> HIDE DEF e
    <3>3. \A m \in Logs : held'[m] \in Events
      BY <3>1, <3>2 DEF TypeOK
    <3>4. at' \in [Logs -> {"new", "scan", "send", "done"}]
            /\ \A m \in Logs : at'[m] # "new" => at[m] # "new"
      BY <1>2, <3>2 DEF TypeOK
    <3>. QED  BY <3>1, <3>2, <3>3, <3>4, BumpType DEF TypeOK
  <2>. QED  BY <2>1, <2>2
<1>7. Stamped'
  BY <1>4, <1>6 DEF Stamped
<1>. QED  BY <1>4, <1>5, <1>6, <1>7 DEF TypeOK, StampedHit

LEMMA TypesLog ==
  ASSUME Types, EngineInv, NEW l \in Logs, Observe(l) \/ Scan(l)
  PROVE  Types'
<1> USE DEF Types
<1>1. CASE Observe(l)
  <2>1. /\ UNCHANGED <<table, lastRule, apc, snap, gen, dpc, event, attempt, held, installed, queue,
                       fired, sent, unrecorded>>
        /\ todo' = [todo EXCEPT ![l] = DOMAIN installed]
        /\ at' = [at EXCEPT ![l] = IF DOMAIN installed = {} THEN "done" ELSE "scan"]
    BY <1>1 DEF Observe, engineSide, adminVars, taskVars
  <2>2. PICK t \in Times : ts' = [ts EXCEPT ![l] = t]
    BY <1>1 DEF Observe
  <2>. QED  BY <2>1, <2>2 DEF TypeOK, Stamped
<1>2. CASE Mismatch(l)
  <2>1. UNCHANGED <<table, lastRule, apc, snap, gen, dpc, event, attempt, held, installed, queue,
                    fired, sent, unrecorded, at, ts>>
    BY <1>2 DEF Mismatch, engineSide, adminVars, taskVars
  <2>2. todo' \in [Logs -> SUBSET Rules]
    BY <1>2 DEF Mismatch, TypeOK
  <2>. QED  BY <2>1, <2>2 DEF TypeOK, Stamped
<1>3. CASE Send(l)
  <2>1. /\ UNCHANGED <<table, lastRule, apc, snap, gen, dpc, event, attempt, installed, fired, sent,
                       todo, ts>>
        /\ held' = [held EXCEPT ![l] = NoEvent] /\ at' = [at EXCEPT ![l] = "scan"]
        /\ at[l] = "send" /\ Offer(held[l])
    BY <1>3 DEF Send, engineSide, adminVars, taskVars
  <2>2. held[l] \in Events
    BY DEF TypeOK
  <2>3. queue' \in Seq(Events) /\ Len(queue') <= AlertQueue /\ unrecorded' \in [Rules -> Nat]
    BY <2>1, <2>2, OfferType
  <2>4. \A m \in Logs : held'[m] \in Events
    BY <2>1, NoEventType DEF TypeOK
  <2>5. at' \in [Logs -> {"new", "scan", "send", "done"}] /\ Stamped'
    BY <2>1 DEF TypeOK, Stamped
  <2>. QED  BY <2>1, <2>3, <2>4, <2>5 DEF TypeOK
<1>4. CASE Observed(l)
  <2>1. /\ UNCHANGED <<table, lastRule, apc, snap, gen, dpc, event, attempt, held, installed, queue,
                       fired, sent, unrecorded, todo, ts>>
        /\ at' = [at EXCEPT ![l] = "done"] /\ at[l] = "scan"
    BY <1>4 DEF Observed, engineSide, adminVars, taskVars
  <2>. QED  BY <2>1 DEF TypeOK, Stamped
<1>. QED  BY <1>1, <1>2, <1>3, <1>4, TypesTally DEF Scan

LEMMA TypesTask ==
  ASSUME Types, Test \/ Delivery
  PROVE  Types'
<1> USE DEF Types
<1>1. CASE Test
  <2>1. /\ UNCHANGED <<table, lastRule, apc, snap, gen, dpc, event, attempt, held, installed, fired,
                       at, ts, todo>>
        /\ \E r \in DOMAIN table : sent' = Bump(sent, r) /\ Offer([NoEvent EXCEPT !.rule = r])
    BY <1>1 DEF Test, adminVars, taskVars, logVars
  <2>2. PICK r \in DOMAIN table : sent' = Bump(sent, r) /\ Offer([NoEvent EXCEPT !.rule = r])
    BY <2>1
  <2>3. [NoEvent EXCEPT !.rule = r] \in Events
    <3>1. r \in Rules
      BY AlertingAssumption DEF TypeOK, Rules
    <3>. QED  BY <3>1 DEF NoEvent, Events
  <2>4. queue' \in Seq(Events) /\ Len(queue') <= AlertQueue /\ unrecorded' \in [Rules -> Nat]
    BY <2>2, <2>3, OfferType
  <2>. QED  BY <2>1, <2>2, <2>4, BumpType DEF TypeOK, Stamped
<1>2. CASE Take
  <2>1. UNCHANGED <<table, lastRule, apc, snap, gen, attempt, held, installed, fired, sent, at,
          ts, todo>>
    BY <1>2 DEF Take, taskSide, adminVars, logVars
  <2>2. /\ Head(queue) \in Events /\ Tail(queue) \in Seq(Events) /\ Len(Tail(queue)) = Len(queue) - 1
        /\ Len(queue) \in Nat
    BY <1>2, HeadTailProperties, LenProperties DEF Take, TypeOK
  <2>3. queue' \in Seq(Events) /\ Len(queue') <= AlertQueue
    BY <1>2, <2>2, AlertingAssumption DEF Take, TypeOK
  <2>4. dpc' \in {"recv", "post", "record", "off"} /\ event' \in Events
          /\ unrecorded' \in [Rules -> Nat]
    BY <1>2, <2>2, BumpType DEF Take, NextEvent, TypeOK
  <2>. QED  BY <2>1, <2>3, <2>4 DEF TypeOK, Stamped
<1>3. CASE Post
  <2>1. UNCHANGED <<table, lastRule, apc, snap, gen, queue, event, unrecorded, held, installed,
                    fired, sent, at, ts, todo>>
    BY <1>3 DEF Post, taskSide, adminVars, logVars
  <2>2. dpc' \in {"recv", "post", "record", "off"} /\ attempt' \in 1..Attempts
    BY <1>3, AlertingAssumption DEF Post, GivesUp, TypeOK
  <2>. QED  BY <2>1, <2>2 DEF TypeOK, Stamped
<1>4. CASE Record
  <2>1. /\ UNCHANGED <<lastRule, apc, snap, gen, queue, attempt, held, installed, fired, sent,
             at, ts, todo>>
        /\ event' = NoEvent /\ dpc' = "recv"
    BY <1>4 DEF Record, logVars
  <2>2. /\ DOMAIN table' = DOMAIN table /\ table' \in [DOMAIN table -> [on : BOOLEAN, fires : Nat]]
    <3>1. CASE event.rule \in DOMAIN table /\ table' = [table EXCEPT ![event.rule].fires = @ + 1]
      <4>1. \A q \in DOMAIN table : table[q] \in [on : BOOLEAN, fires : Nat]
        BY DEF TypeOK
      <4>2. \A f \in [on : BOOLEAN, fires : Nat] : [f EXCEPT !.fires = @ + 1] \in [on : BOOLEAN, fires : Nat]
        OBVIOUS
      <4>. QED  BY <3>1, <4>1, <4>2
    <3>2. CASE UNCHANGED table
      BY <3>2 DEF TypeOK
    <3>. QED  BY <1>4, <3>1, <3>2 DEF Record
  <2>3. unrecorded' \in [Rules -> Nat]
    <3>1. UNCHANGED unrecorded \/ unrecorded' = Bump(unrecorded, event.rule)
      BY <1>4 DEF Record
    <3>. QED  BY <3>1, BumpType DEF TypeOK
  <2>. QED  BY <2>1, <2>2, <2>3, NoEventType DEF TypeOK, Stamped
<1>. QED  BY <1>1, <1>2, <1>3, <1>4 DEF Delivery

LEMMA TypesNext ==
  ASSUME Types, EngineInv, [Next]_vars
  PROVE  Types'
<1>1. ASSUME UNCHANGED vars  PROVE Types'
  BY <1>1 DEF vars, adminVars, logVars, taskVars, Types, TypeOK, Stamped
<1>. QED  BY <1>1, TypesAdmin, TypesLog, TypesTask DEF Next

\* Rules, hits, events, queue and counters keep their types, and the queue its bound.
THEOREM AlertingTypes == Spec => []TypeOK
<1>1. Inv => EngineInv
  BY DEF Inv
<1>2. Init => Types
  BY TypesInit
<1>3. Types /\ EngineInv /\ [Next]_vars => Types'
  BY TypesNext
<1>4. Types => TypeOK
  BY DEF Types
<1>. QED  BY <1>1, <1>2, <1>3, <1>4, AlertingInvariant, PTL DEF Spec

----------------------------------------------------------------------------
(* A log counts once.                                                      *)

\* A log that has passed a rule is not matched against it again.
Passed(r, m) == m \in Logs /\ at[m] # "new" /\ r \notin todo[m]
HitLogs(r) == {installed[r].hits[k].log : k \in DOMAIN installed[r].hits}

\* The logs among the hits of a rule, and those of its alerts, have passed it, and
\* no log is both.
CountInv ==
  /\ \A r \in DOMAIN installed : \A m \in HitLogs(r) : Passed(r, m)
  /\ \A e \in fired : \A m \in e.logs : Passed(e.rule, m)
  /\ \A e \in fired : e.rule \in DOMAIN installed => HitLogs(e.rule) \cap e.logs = {}
  /\ CountedOnce

\* Popping old hits leaves some of them.
LEMMA RecentElements ==
  ASSUME NEW S, NEW hits \in Seq(S), NEW cutoff
  PROVE  \A k \in DOMAIN Recent(hits, cutoff) :
           \E j \in DOMAIN hits : Recent(hits, cutoff)[k] = hits[j]
<1> DEFINE popped == {k \in DOMAIN hits : \A j \in 1..k : hits[j].ts < cutoff}
           n == Cardinality(popped) + 1
<1>1. Len(hits) \in Nat /\ DOMAIN hits = 1..Len(hits)
  BY LenProperties
<1>2. n \in Nat \ {0}
  <2>1. popped \subseteq DOMAIN hits /\ IsFiniteSet(DOMAIN hits)
    BY <1>1, FS_Interval
  <2>. HIDE DEF popped
  <2>2. Cardinality(popped) \in Nat
    BY <2>1, FS_Subset, FS_CardinalityType
  <2>. QED  BY <2>2
<1> HIDE DEF n
<1>3. CASE n <= Len(hits)
  <2>1. \A i \in n..Len(hits) : hits[i] \in S
    BY <1>1, <1>2, ElementOfSeq
  <2>2. /\ SubSeq(hits, n, Len(hits)) \in Seq(S)
        /\ Len(SubSeq(hits, n, Len(hits))) = Len(hits) - n + 1
        /\ \A i \in 1..Len(hits) - n + 1 : SubSeq(hits, n, Len(hits))[i] = hits[n + i - 1]
    BY <1>1, <1>2, <1>3, <2>1, SubSeqProperties
  <2>3. DOMAIN SubSeq(hits, n, Len(hits)) = 1..Len(hits) - n + 1
    BY <2>2, LenProperties
  <2>4. \A i \in 1..Len(hits) - n + 1 : n + i - 1 \in DOMAIN hits
    BY <1>1, <1>2
  <2>. QED  BY <2>2, <2>3, <2>4 DEF Recent, n
<1>4. CASE n > Len(hits)
  <2>1. SubSeq(hits, n, Len(hits)) = <<>>
    BY <1>1, <1>2, <1>4, SubSeqEmpty
  <2>2. DOMAIN <<>> = {}
    OBVIOUS
  <2>. QED  BY <2>1, <2>2 DEF Recent, n
<1>. QED  BY <1>1, <1>2, <1>3, <1>4

\* What a match counts with are hits of its rule.
LEMMA CountedLogs ==
  ASSUME EngineType, NEW l \in Logs, NEW r \in DOMAIN installed
  PROVE  {Counted(l, r)[k].log : k \in DOMAIN Counted(l, r)} \subseteq HitLogs(r) \cup {l}
<1> DEFINE x == [ts |-> ts[l], log |-> l]
           rest == Recent(installed[r].hits, ts[l] - Window[r])
<1>1. installed[r].hits \in Seq(Hit) /\ x \in Hit /\ x.log = l
  BY DEF EngineType, Hit
<1>2. rest \in Seq(Hit) /\ \A k \in DOMAIN rest : rest[k].log \in HitLogs(r)
  BY <1>1, RecentIsSeq, RecentElements DEF HitLogs
<1>3. Counted(l, r) = Append(rest, x)
  BY DEF Counted
<1> HIDE DEF rest, x
<1>4. /\ Len(rest) \in Nat /\ DOMAIN rest = 1..Len(rest)
      /\ DOMAIN Append(rest, x) = 1..Len(rest) + 1
      /\ \A k \in 1..Len(rest) : Append(rest, x)[k] = rest[k]
      /\ Append(rest, x)[Len(rest) + 1] = x
  BY <1>1, <1>2, AppendProperties, LenProperties
<1>5. \A k \in 1..Len(rest) + 1 : k = Len(rest) + 1 \/ k \in 1..Len(rest)
  BY <1>4
<1>6. \A k \in DOMAIN Append(rest, x) : Append(rest, x)[k].log \in HitLogs(r) \cup {l}
  BY <1>1, <1>2, <1>4, <1>5
<1>. QED  BY <1>3, <1>6

LEMMA HitLogsType ==
  ASSUME EngineType, NEW r \in DOMAIN installed
  PROVE  HitLogs(r) \subseteq Logs
<1>1. installed[r].hits \in Seq(Hit)
  BY DEF EngineType
<1>2. \A k \in DOMAIN installed[r].hits : installed[r].hits[k] \in Hit
  BY <1>1, LenProperties, ElementOfSeq
<1>. QED  BY <1>2 DEF HitLogs, Hit

\* The rules a log has yet to be matched against only get fewer.
LEMMA CountSame ==
  ASSUME CountInv, UNCHANGED <<installed, fired>>,
         \A r, m : Passed(r, m) => Passed(r, m)'
  PROVE  CountInv'
BY DEF CountInv, HitLogs, CountedOnce

LEMMA CountTally ==
  ASSUME EngineInv, CountInv, NEW l \in Logs, Tally(l)
  PROVE  CountInv'
<1> USE DEF EngineInv
<1>1. PICK r \in Rules : Tally(l)!(r)
  BY DEF Tally
<1>2. at[l] = "scan" /\ r \in todo[l] /\ r \in DOMAIN installed
  BY <1>1 DEF Turn, Observing, LockHeld
<1> DEFINE logs == {Counted(l, r)[k].log : k \in DOMAIN Counted(l, r)}
<1>3. logs \subseteq HitLogs(r) \cup {l} /\ HitLogs(r) \subseteq Logs
  BY <1>2, CountedLogs, HitLogsType
<1>4. at' = at \/ at' = [at EXCEPT ![l] = "send"]
  BY <1>1
<1>5. \A q, m : Passed(q, m) => Passed(q, m)'
  <2> SUFFICES ASSUME NEW q, NEW m \in Logs, at[m] # "new", q \notin todo[m]
               PROVE  at'[m] # "new" /\ q \notin todo'[m]
    BY DEF Passed
  <2>1. todo' = [todo EXCEPT ![l] = todo[l] \ {r}]
    BY <1>1
  <2>2. DOMAIN todo = Logs /\ DOMAIN at = Logs
    BY DEF EngineType
  <2>3. q \notin todo'[m]
    BY <2>1, <2>2
  <2>4. at'[m] # "new"
    BY <1>4, <2>2
  <2>. QED  BY <2>3, <2>4
<1>6. Passed(r, l)'
  <2>1. at'[l] # "new"
    BY <1>2, <1>4 DEF EngineType
  <2>2. r \notin todo'[l]
    BY <1>1 DEF EngineType
  <2>. QED  BY <2>1, <2>2 DEF Passed
<1>7. l \notin HitLogs(r) /\ \A e \in fired : e.rule = r => l \notin e.logs
  BY <1>2 DEF CountInv, Passed
<1> HIDE DEF logs
<1>8. CASE ~Fires(l, r)
  <2>1. installed' = [installed EXCEPT ![r].hits = Counted(l, r)] /\ fired' = fired
    BY <1>1, <1>8
  <2>2. /\ DOMAIN installed' = DOMAIN installed
        /\ installed'[r].hits = Counted(l, r)
        /\ \A q \in DOMAIN installed : q # r => installed'[q] = installed[q]
    BY <1>2, <2>1 DEF EngineType
  <2>3. HitLogs(r)' = logs
    BY <2>2 DEF HitLogs, logs
  <2>4. \A q \in DOMAIN installed : q # r => HitLogs(q)' = HitLogs(q)
    BY <2>2 DEF HitLogs
  <2>5. \A q \in DOMAIN installed' : \A m \in HitLogs(q)' : Passed(q, m)'
    BY <1>2, <1>3, <1>5, <1>6, <2>2, <2>3, <2>4 DEF CountInv
  <2>6. \A e \in fired' : e.rule \in DOMAIN installed' => HitLogs(e.rule)' \cap e.logs = {}
    <3> SUFFICES ASSUME NEW e \in fired, e.rule \in DOMAIN installed
                 PROVE  HitLogs(e.rule)' \cap e.logs = {}
      BY <2>1, <2>2
    <3>1. HitLogs(e.rule) \cap e.logs = {}
      BY DEF CountInv
    <3>2. CASE e.rule = r
      <4>1. HitLogs(e.rule)' = logs
        BY <2>3, <3>2
      <4>. QED  BY <1>3, <1>7, <3>1, <3>2, <4>1
    <3>3. CASE e.rule # r
      BY <2>4, <3>1, <3>3
    <3>. QED  BY <3>2, <3>3
  <2>. QED  BY <1>5, <2>1, <2>5, <2>6 DEF CountInv, CountedOnce
<1>9. CASE Fires(l, r)
  <2>1. PICK e : /\ e.rule = r /\ e.logs = logs /\ fired' = fired \cup {e}
                 /\ installed' = [installed EXCEPT ![r] = Cleared(l, r)]
    BY <1>1, <1>9 DEF logs
  <2>2. /\ DOMAIN installed' = DOMAIN installed
        /\ installed'[r].hits = <<>>
        /\ \A q \in DOMAIN installed : q # r => installed'[q] = installed[q]
    BY <1>2, <2>1 DEF EngineType, Cleared
  <2>3. HitLogs(r)' = {}
    <3>1. DOMAIN <<>> = {}
      OBVIOUS
    <3>. QED  BY <2>2, <3>1 DEF HitLogs
  <2>4. \A q \in DOMAIN installed : q # r => HitLogs(q)' = HitLogs(q)
    BY <2>2 DEF HitLogs
  <2>5. \A q \in DOMAIN installed' : \A m \in HitLogs(q)' : Passed(q, m)'
    BY <1>5, <2>2, <2>3, <2>4 DEF CountInv
  <2>6. \A m \in logs : Passed(r, m)'
    BY <1>2, <1>3, <1>5, <1>6 DEF CountInv
  <2>7. \A f \in fired' : \A m \in f.logs : Passed(f.rule, m)'
    <3> SUFFICES ASSUME NEW f \in fired', NEW m \in f.logs PROVE Passed(f.rule, m)'
      OBVIOUS
    <3>1. CASE f = e
      BY <2>1, <2>6, <3>1
    <3>2. CASE f \in fired
      BY <1>5, <3>2 DEF CountInv
    <3>. QED  BY <2>1, <3>1, <3>2
  <2>8. \A f \in fired' : f.rule \in DOMAIN installed' => HitLogs(f.rule)' \cap f.logs = {}
    <3> SUFFICES ASSUME NEW f \in fired', f.rule \in DOMAIN installed
                 PROVE  HitLogs(f.rule)' \cap f.logs = {}
      BY <2>2
    <3>1. CASE f.rule = r
      BY <2>3, <3>1
    <3>2. CASE f.rule # r
      BY <2>1, <2>4, <3>2 DEF CountInv
    <3>. QED  BY <3>1, <3>2
  <2>9. \A f \in fired : f.rule = r => logs \cap f.logs = {}
    BY <1>2, <1>3, <1>7 DEF CountInv
  <2>10. CountedOnce'
    BY <2>1, <2>9 DEF CountInv, CountedOnce
  <2>. QED  BY <2>5, <2>7, <2>8, <2>10 DEF CountInv
<1>. QED  BY <1>8, <1>9

LEMMA CountInit == Init => CountInv
BY DEF Init, CountInv, CountedOnce

LEMMA CountNext ==
  ASSUME EngineInv, CountInv, [Next]_vars
  PROVE  CountInv'
<1>1. ASSUME UNCHANGED engineVars  PROVE CountInv'
  BY <1>1, CountSame DEF engineVars, Passed
<1>2. ASSUME NEW a \in Admins, Install(a)  PROVE CountInv'
  <2>1. UNCHANGED <<at, todo, fired>> /\ installed' = [r \in snap[a] |-> Fresh]
    BY <1>2 DEF Install, Compiled, logVars
  <2>2. \A r \in DOMAIN installed' : HitLogs(r)' = {}
    <3>1. DOMAIN <<>> = {}
      OBVIOUS
    <3>. QED  BY <2>1, <3>1 DEF HitLogs, Fresh
  <2>3. \A e \in fired : \A m \in e.logs : Passed(e.rule, m)'
    BY <2>1 DEF CountInv, Passed
  <2>. QED  BY <2>1, <2>2, <2>3 DEF CountInv, CountedOnce
<1>3. ASSUME NEW l \in Logs, Observe(l) \/ Mismatch(l) \/ Send(l) \/ Observed(l)  PROVE CountInv'
  <2>1. UNCHANGED <<installed, fired>>
    BY <1>3 DEF Observe, Mismatch, Send, Observed
  <2>2. DOMAIN todo = Logs /\ DOMAIN at = Logs
    BY DEF EngineInv, EngineType
  <2>3. ASSUME NEW r, NEW m \in Logs, at[m] # "new", r \notin todo[m]
        PROVE  at'[m] # "new" /\ r \notin todo'[m]
    <3>1. CASE Observe(l)
      BY <2>2, <2>3, <3>1 DEF Observe
    <3>2. CASE Mismatch(l)
      BY <2>2, <2>3, <3>2 DEF Mismatch
    <3>3. CASE Send(l) \/ Observed(l)
      BY <2>2, <2>3, <3>3 DEF Send, Observed
    <3>. QED  BY <1>3, <3>1, <3>2, <3>3
  <2>. QED  BY <2>1, <2>3, CountSame DEF Passed
<1>4. ASSUME NEW a \in Admins, Create(a) \/ SetEnabled(a) \/ Delete(a) \/ List(a) \/ ListFails(a)
      PROVE  CountInv'
  BY <1>1, <1>4 DEF Create, SetEnabled, Delete, Edit, List, ListFails, listSide, logVars, engineVars
<1>5. CASE Test \/ Delivery \/ UNCHANGED vars
  BY <1>1, <1>5 DEF Test, Delivery, Take, Post, Record, taskSide, vars, logVars, engineVars
<1>. QED  BY <1>2, <1>3, <1>4, <1>5, CountTally DEF Next, Reload, Scan

\* What tipped a rule once does not tip it again: a log that has passed a rule is
\* among its hits or among those of one alert, over edits of the rules too.
THEOREM AlertsShareNoLog == Spec => []CountedOnce
<1>1. Inv => EngineInv
  BY DEF Inv
<1>2. CountInv /\ EngineInv /\ [Next]_vars => CountInv'
  BY CountNext
<1>3. CountInv => CountedOnce
  BY DEF CountInv
<1>. QED  BY <1>1, <1>2, <1>3, CountInit, AlertingInvariant, PTL DEF Spec

----------------------------------------------------------------------------
(* One administrator at a time.                                            *)

\* What was listed is what is enabled until it is installed.
Reloaded ==
  /\ \A a \in Admins : apc[a] = "install" => snap[a] = Enabled
  /\ RulesTakeEffect

LEMMA ReloadedInit == Init => Reloaded
BY DEF Init, Reloaded, RulesTakeEffect, Enabled

\* Steps of logs, of the test endpoint and of the delivery task enable no rule.
LEMMA EnabledSame ==
  ASSUME Types, Delivery
  PROVE  Enabled' = Enabled
<1>1. CASE Record
  <2>1. \A q \in DOMAIN table : table[q] \in [on : BOOLEAN, fires : Nat]
    BY DEF Types, TypeOK
  <2>2. CASE event.rule \in DOMAIN table /\ table' = [table EXCEPT ![event.rule].fires = @ + 1]
    <3>1. /\ DOMAIN table' = DOMAIN table
          /\ \A q \in DOMAIN table : table'[q].on = table[q].on
      BY <2>1, <2>2
    <3>. QED  BY <3>1 DEF Enabled
  <2>3. CASE UNCHANGED table
    BY <2>3 DEF Enabled
  <2>. QED  BY <1>1, <2>2, <2>3 DEF Record
<1>2. CASE Take \/ Post
  BY <1>2 DEF Take, Post, taskSide, adminVars, Enabled
<1>. QED  BY <1>1, <1>2 DEF Delivery

LEMMA ReloadedNext ==
  ASSUME \A a, b \in Admins : a = b, EngineInv, Types, Reloaded, [Next]_vars
  PROVE  Reloaded'
<1> USE DEF Reloaded
<1>0. DOMAIN apc = Admins /\ DOMAIN snap = Admins
  BY DEF Types, TypeOK
<1>1. ASSUME Enabled' = Enabled, DOMAIN installed' = DOMAIN installed,
             UNCHANGED <<apc, snap, unlisted>>
      PROVE  Reloaded'
  BY <1>1 DEF RulesTakeEffect
<1>2. ASSUME NEW a \in Admins, Create(a) \/ SetEnabled(a) \/ Delete(a)  PROVE Reloaded'
  <2>1. apc' = [apc EXCEPT ![a] = "list"]
    BY <1>2 DEF Create, SetEnabled, Delete, Edit
  <2>2. \A b \in Admins : apc'[b] = "list"
    BY <1>0, <2>1
  <2>. QED  BY <2>2 DEF RulesTakeEffect
<1>3. ASSUME NEW a \in Admins, List(a)  PROVE Reloaded'
  <2>1. apc' = [apc EXCEPT ![a] = "install"] /\ snap' = [snap EXCEPT ![a] = Enabled]
          /\ UNCHANGED table
    BY <1>3 DEF List, listSide
  <2>2. \A b \in Admins : apc'[b] = "install" /\ snap'[b] = Enabled
    BY <1>0, <2>1
  <2>3. Enabled' = Enabled
    BY <2>1 DEF Enabled
  <2>. QED  BY <2>2, <2>3 DEF RulesTakeEffect
<1>4. ASSUME NEW a \in Admins, ListFails(a)  PROVE Reloaded'
  <2>1. apc' = [apc EXCEPT ![a] = "idle"] /\ unlisted' = TRUE
    BY <1>4 DEF ListFails
  <2>2. \A b \in Admins : apc'[b] = "idle"
    BY <1>0, <2>1
  <2>. QED  BY <2>1, <2>2 DEF RulesTakeEffect
<1>5. ASSUME NEW a \in Admins, Install(a)  PROVE Reloaded'
  <2>1. /\ apc[a] = "install" /\ apc' = [apc EXCEPT ![a] = "idle"] /\ UNCHANGED table
        /\ installed' = [r \in snap[a] |-> Fresh]
    BY <1>5 DEF Install, Compiled
  <2>2. Enabled' = Enabled /\ DOMAIN installed' = Enabled
    BY <2>1 DEF Enabled
  <2>3. \A b \in Admins : apc'[b] = "idle"
    BY <1>0, <2>1
  <2>. QED  BY <2>2, <2>3 DEF RulesTakeEffect
<1>6. ASSUME NEW l \in Logs, Observe(l) \/ Scan(l)  PROVE Reloaded'
  <2>1. UNCHANGED <<table, apc, snap, unlisted>>
    BY <1>6 DEF Observe, Scan, Mismatch, Tally, Send, Observed, engineSide, adminVars
  <2>2. DOMAIN installed' = DOMAIN installed
    BY <1>6 DEF Observe, Scan, Mismatch, Tally, Send, Observed
  <2>. QED  BY <1>1, <2>1, <2>2 DEF Enabled
<1>7. CASE Test \/ UNCHANGED vars
  BY <1>1, <1>7 DEF Test, vars, adminVars, Enabled
<1>8. CASE Delivery
  <2>1. UNCHANGED <<apc, snap, unlisted, installed>>
    BY <1>8 DEF Delivery, Take, Post, Record, taskSide, adminVars
  <2>. QED  BY <1>1, <1>8, <2>1, EnabledSame
<1>. QED  BY <1>2, <1>3, <1>4, <1>5, <1>6, <1>7, <1>8 DEF Next, Reload

\* With one administrator the rules logs are matched against are those enabled,
\* whenever no edit is under way and the last reload did not fail.  It is for the
\* hypothesis that two who reload at once may install an older list last.
THEOREM EditsTakeEffect ==
  ASSUME \A a, b \in Admins : a = b
  PROVE  Spec => []RulesTakeEffect
<1>1. Inv => EngineInv
  BY DEF Inv
<1>2. Types /\ EngineInv /\ [Next]_vars => Types'
  BY TypesNext
<1>3. Reloaded /\ EngineInv /\ Types /\ [Next]_vars => Reloaded'
  BY ReloadedNext
<1>4. Reloaded => RulesTakeEffect
  BY DEF Reloaded
<1>. QED  BY <1>1, <1>2, <1>3, <1>4, TypesInit, ReloadedInit, AlertingInvariant, PTL DEF Spec

----------------------------------------------------------------------------
(* fire_count.                                                             *)

EventsOf(q, r) == {k \in DOMAIN q : q[k].rule = r}
QueueOf(r) == EventsOf(queue, r)
HeldFor(r) == {l \in Logs : held[l].rule = r}
AtWork(r) == IF event.rule = r THEN 1 ELSE 0

\* Events are of rules that were created, an id is given out once, and a handler
\* or the delivery task has an event exactly while it is to be passed on.
Known ==
  /\ \A r \in Rules : r > lastRule => sent[r] = 0 /\ unrecorded[r] = 0
  /\ DOMAIN installed \subseteq 1..lastRule
  /\ \A a \in Admins : snap[a] \subseteq 1..lastRule
  /\ \A k \in DOMAIN queue : queue[k].rule \in 1..lastRule
  /\ \A l \in Logs : IF at[l] = "send" THEN held[l].rule \in 1..lastRule ELSE held[l] = NoEvent
  /\ IF dpc \in {"post", "record"} THEN event.rule \in 1..lastRule ELSE event = NoEvent

HeldMap == DOMAIN held = Logs

Tallied ==
  \A r \in Rules :
    /\ IsFiniteSet(HeldFor(r))
    /\ r \in DOMAIN table =>
         table[r].fires + unrecorded[r] + Cardinality(QueueOf(r)) + Cardinality(HeldFor(r))
           + AtWork(r)
         = sent[r]

\* The events of one rule in a queue that is one longer, or one shorter.
LEMMA CountAppended ==
  ASSUME NEW S, NEW q \in Seq(S), NEW e \in S, NEW r
  PROVE  /\ Cardinality(EventsOf(Append(q, e), r))
            = Cardinality(EventsOf(q, r)) + (IF e.rule = r THEN 1 ELSE 0)
         /\ Cardinality(EventsOf(q, r)) \in Nat
<1> USE DEF EventsOf
<1> DEFINE Q == {k \in DOMAIN q : q[k].rule = r}
           n == Len(q) + 1
<1>1. /\ Len(q) \in Nat /\ DOMAIN q = 1..Len(q) /\ DOMAIN Append(q, e) = 1..n
      /\ \A k \in 1..Len(q) : Append(q, e)[k] = q[k]
      /\ Append(q, e)[n] = e
  BY AppendProperties, LenProperties
<1>2. 1..n = 1..Len(q) \cup {n} /\ n \notin 1..Len(q)
  BY <1>1
<1>3. IsFiniteSet(Q) /\ Cardinality(Q) \in Nat
  <2>1. IsFiniteSet(1..Len(q)) /\ Q \subseteq 1..Len(q)
    BY <1>1, FS_Interval
  <2> HIDE DEF Q
  <2>. QED  BY <2>1, FS_Subset, FS_CardinalityType
<1>4. n \notin Q
  BY <1>1, <1>2
<1> HIDE DEF n
<1>5. {k \in DOMAIN Append(q, e) : Append(q, e)[k].rule = r} = IF e.rule = r THEN Q \cup {n} ELSE Q
  BY <1>1, <1>2
<1> HIDE DEF Q
<1>6. CASE e.rule = r
  <2>1. Cardinality(Q \cup {n}) = Cardinality(Q) + 1
    BY <1>3, <1>4, FS_AddElement
  <2>. QED  BY <1>3, <1>5, <1>6, <2>1 DEF Q
<1>7. CASE e.rule # r
  <2>1. Cardinality(Q) = Cardinality(Q) + 0
    BY <1>3
  <2>. QED  BY <1>3, <1>5, <1>7, <2>1 DEF Q
<1>. QED  BY <1>6, <1>7

LEMMA CountTail ==
  ASSUME NEW S, NEW q \in Seq(S), q # <<>>, NEW r
  PROVE  /\ Cardinality(EventsOf(q, r))
            = Cardinality(EventsOf(Tail(q), r)) + (IF Head(q).rule = r THEN 1 ELSE 0)
         /\ Cardinality(EventsOf(Tail(q), r)) \in Nat
<1> USE DEF EventsOf
<1> DEFINE T == {k \in DOMAIN Tail(q) : Tail(q)[k].rule = r}
           Q == {k \in DOMAIN q : q[k].rule = r}
           R == Q \ {1}
           f == [k \in T |-> k + 1]
<1>1. /\ Len(q) \in Nat \ {0} /\ DOMAIN q = 1..Len(q) /\ DOMAIN Tail(q) = 1..Len(q) - 1
      /\ \A k \in 1..Len(q) - 1 : Tail(q)[k] = q[k + 1]
      /\ Head(q) = q[1]
  <2>1. Tail(q) \in Seq(S) /\ Len(Tail(q)) = Len(q) - 1
          /\ \A i \in 1..Len(Tail(q)) : Tail(q)[i] = q[i + 1]
    BY HeadTailProperties
  <2>2. Len(q) \in Nat /\ DOMAIN q = 1..Len(q) /\ DOMAIN Tail(q) = 1..Len(Tail(q))
    BY <2>1, LenProperties
  <2>3. Len(q) # 0
    BY EmptySeq, <2>2
  <2>. QED  BY <2>1, <2>2, <2>3
<1>2. IsFiniteSet(T) /\ Cardinality(T) \in Nat
  <2>1. IsFiniteSet(1..Len(q) - 1) /\ T \subseteq 1..Len(q) - 1
    BY <1>1, FS_Interval
  <2> HIDE DEF T
  <2>. QED  BY <2>1, FS_Subset, FS_CardinalityType
<1>3. \A k \in T : k \in Nat \ {0} /\ k + 1 \in R
  BY <1>1
<1>4. \A m \in R : m - 1 \in T /\ m - 1 + 1 = m
  BY <1>1
<1>5. 1 \in Q <=> Head(q).rule = r
  BY <1>1
<1>6. IsFiniteSet(R) /\ Cardinality(R) = Cardinality(T)
  <2> HIDE DEF T, R
  <2>1. f \in Bijection(T, R)
    <3>1. f \in [T -> R]
      BY <1>3
    <3>2. \A j, k \in T : f[j] = f[k] => j = k
      BY <1>3
    <3>3. \A m \in R : \E k \in T : f[k] = m
      BY <1>4
    <3> HIDE DEF f
    <3>. QED  BY <3>1, <3>2, <3>3 DEF Bijection, Injection, Surjection, IsInjective
  <2>2. ExistsBijection(T, R)
    BY <2>1 DEF ExistsBijection
  <2>. QED  BY <1>2, <2>2, FS_Bijection
<1> HIDE DEF T, f
<1>7. CASE 1 \in Q
  <2>1. Q = R \cup {1} /\ 1 \notin R
    BY <1>7
  <2> HIDE DEF R, Q
  <2>2. Cardinality(Q) = Cardinality(R) + 1
    BY <1>6, <2>1, FS_AddElement
  <2>. QED  BY <1>2, <1>5, <1>6, <1>7, <2>2 DEF T, Q
<1>8. CASE 1 \notin Q
  <2>1. Q = R
    BY <1>8
  <2> HIDE DEF R, Q
  <2>2. Cardinality(Q) = Cardinality(T) + 0
    BY <1>2, <1>6, <2>1
  <2>. QED  BY <1>2, <1>5, <1>8, <2>2 DEF T, Q
<1>. QED  BY <1>7, <1>8

LEMMA Bumped ==
  ASSUME NEW f \in [Rules -> Nat], NEW q, NEW r \in Rules
  PROVE  Bump(f, q)[r] = f[r] + (IF q = r THEN 1 ELSE 0)
<1>1. CASE q = r
  BY <1>1 DEF Bump
<1>2. CASE q # r
  BY <1>2 DEF Bump
<1>. QED  BY <1>1, <1>2

\* An event that is offered is in the queue or among the unrecorded.
LEMMA Offered ==
  ASSUME TypeOK, NEW e \in Events, Offer(e), NEW r \in Rules
  PROVE  /\ Cardinality(QueueOf(r))' + unrecorded'[r]
            = Cardinality(QueueOf(r)) + unrecorded[r] + (IF e.rule = r THEN 1 ELSE 0)
         /\ Cardinality(QueueOf(r)) \in Nat /\ Cardinality(QueueOf(r))' \in Nat
         /\ unrecorded[r] \in Nat /\ unrecorded'[r] \in Nat
         /\ unrecorded'[r] = unrecorded[r] \/ (unrecorded'[r] = unrecorded[r] + 1 /\ e.rule = r)
<1> DEFINE Q == EventsOf(Append(queue, e), r)
<1>1. queue \in Seq(Events) /\ unrecorded \in [Rules -> Nat]
  BY DEF TypeOK
<1>2. /\ Cardinality(Q) = Cardinality(QueueOf(r)) + (IF e.rule = r THEN 1 ELSE 0)
      /\ Cardinality(QueueOf(r)) \in Nat
  BY <1>1, CountAppended DEF QueueOf
<1>3. unrecorded[r] \in Nat
  BY <1>1
<1>4. CASE queue' = Append(queue, e) /\ unrecorded' = unrecorded
  <2>1. QueueOf(r)' = Q
    BY <1>4 DEF QueueOf
  <2>2. Cardinality(QueueOf(r))' = Cardinality(Q)
    BY <2>1
  <2>3. unrecorded'[r] = unrecorded[r]
    BY <1>4
  <2> HIDE DEF Q
  <2>4. Cardinality(Q) \in Nat
    BY <1>2
  <2>. QED  BY <1>2, <1>3, <2>2, <2>3, <2>4
<1>5. CASE queue' = queue /\ unrecorded' = Bump(unrecorded, e.rule)
  <2>1. QueueOf(r)' = QueueOf(r)
    BY <1>5 DEF QueueOf
  <2>2. unrecorded'[r] = unrecorded[r] + (IF e.rule = r THEN 1 ELSE 0)
    BY <1>1, <1>5, Bumped
  <2>. QED  BY <1>2, <1>3, <2>1, <2>2
<1>. QED  BY <1>4, <1>5 DEF Offer

\* A handler comes to hold an event, or passes it on.
LEMMA HeldAdded ==
  ASSUME TypeOK, NEW l \in Logs, NEW e, held[l] = NoEvent, held' = [held EXCEPT ![l] = e],
         DOMAIN held = Logs, NEW r \in Rules, IsFiniteSet(HeldFor(r))
  PROVE  /\ IsFiniteSet(HeldFor(r)')
         /\ Cardinality(HeldFor(r)') = Cardinality(HeldFor(r)) + (IF e.rule = r THEN 1 ELSE 0)
<1>1. held[l].rule # r
  BY AlertingAssumption DEF NoEvent, Rules
<1>2. HeldFor(r)' = IF e.rule = r THEN HeldFor(r) \cup {l} ELSE HeldFor(r)
  BY <1>1 DEF HeldFor
<1>3. l \notin HeldFor(r) /\ Cardinality(HeldFor(r)) \in Nat
  BY <1>1, FS_CardinalityType DEF HeldFor
<1>4. CASE e.rule = r
  BY <1>2, <1>3, <1>4, FS_AddElement
<1>5. CASE e.rule # r
  BY <1>2, <1>3, <1>5
<1>. QED  BY <1>4, <1>5

LEMMA HeldRemoved ==
  ASSUME TypeOK, NEW l \in Logs, held' = [held EXCEPT ![l] = NoEvent],
         DOMAIN held = Logs, NEW r \in Rules, IsFiniteSet(HeldFor(r))
  PROVE  /\ IsFiniteSet(HeldFor(r)') /\ Cardinality(HeldFor(r)') \in Nat
         /\ Cardinality(HeldFor(r)) = Cardinality(HeldFor(r)') + (IF held[l].rule = r THEN 1 ELSE 0)
<1>1. NoEvent.rule # r
  BY AlertingAssumption DEF NoEvent, Rules
<1>2. HeldFor(r)' = HeldFor(r) \ {l}
  BY <1>1 DEF HeldFor
<1>3. l \in HeldFor(r) <=> held[l].rule = r
  BY DEF HeldFor
<1>4. /\ IsFiniteSet(HeldFor(r) \ {l}) /\ Cardinality(HeldFor(r)) \in Nat
      /\ Cardinality(HeldFor(r) \ {l}) \in Nat
      /\ Cardinality(HeldFor(r) \ {l}) =
           IF l \in HeldFor(r) THEN Cardinality(HeldFor(r)) - 1 ELSE Cardinality(HeldFor(r))
  BY FS_RemoveElement, FS_CardinalityType
<1>5. CASE held[l].rule = r
  BY <1>2, <1>3, <1>4, <1>5
<1>6. CASE held[l].rule # r
  BY <1>2, <1>3, <1>4, <1>6
<1>. QED  BY <1>5, <1>6

\* The summands of a rule's account.
LEMMA Summands ==
  ASSUME Types, Tallied, NEW r \in Rules
  PROVE  /\ IsFiniteSet(HeldFor(r)) /\ Cardinality(HeldFor(r)) \in Nat
         /\ Cardinality(QueueOf(r)) \in Nat
         /\ AtWork(r) \in Nat /\ unrecorded[r] \in Nat /\ sent[r] \in Nat
         /\ r \in DOMAIN table => table[r].fires \in Nat
<1>1. IsFiniteSet(HeldFor(r)) /\ Cardinality(HeldFor(r)) \in Nat
  BY FS_CardinalityType DEF Tallied
<1>2. Cardinality(QueueOf(r)) \in Nat
  <2>1. queue \in Seq(Events) /\ NoEvent \in Events
    BY NoEventType DEF Types, TypeOK
  <2>2. Cardinality(EventsOf(queue, r)) \in Nat
    BY <2>1, CountAppended
  <2>. QED  BY <2>2 DEF QueueOf
<1>3. AtWork(r) \in Nat /\ unrecorded[r] \in Nat /\ sent[r] \in Nat
  BY DEF AtWork, Types, TypeOK
<1>4. r \in DOMAIN table => table[r].fires \in Nat
  BY DEF Types, TypeOK
<1>. QED  BY <1>1, <1>2, <1>3, <1>4

\* A step that moves no event, and changes no count.
LEMMA TalliedSame ==
  ASSUME Tallied, UNCHANGED <<queue, held, event, unrecorded, sent>>,
         \A r \in DOMAIN table' : r \in DOMAIN table /\ table'[r].fires = table[r].fires
  PROVE  Tallied'
<1>1. \A r \in Rules : /\ QueueOf(r)' = QueueOf(r) /\ HeldFor(r)' = HeldFor(r)
                        /\ AtWork(r)' = AtWork(r)
  BY DEF QueueOf, HeldFor, AtWork
<1>. QED  BY <1>1 DEF Tallied

\* A rule is created under a new id, of which there is no event.
LEMMA TalliedCreate ==
  ASSUME Types, Known, Tallied, NEW a \in Admins, Create(a)
  PROVE  Tallied'
<1>1. UNCHANGED <<queue, held, event, unrecorded, sent>> /\ lastRule' = lastRule + 1
  BY DEF Create, Edit, logVars, taskVars
<1>2. PICK on \in BOOLEAN :
        table' = [r \in DOMAIN table \cup {lastRule + 1} |->
                    IF r \in DOMAIN table THEN table[r] ELSE [on |-> on, fires |-> 0]]
  BY DEF Create
<1>3. lastRule \in Nat /\ lastRule + 1 > lastRule
  BY DEF Types, TypeOK
<1>4. ASSUME NEW r \in Rules
      PROVE  /\ IsFiniteSet(HeldFor(r)')
             /\ r \in DOMAIN table' =>
                  table'[r].fires + unrecorded'[r] + Cardinality(QueueOf(r)')
                    + Cardinality(HeldFor(r)')
                    + AtWork(r)' = sent'[r]
  <2>1. QueueOf(r)' = QueueOf(r) /\ HeldFor(r)' = HeldFor(r) /\ AtWork(r)' = AtWork(r)
    BY <1>1 DEF QueueOf, HeldFor, AtWork
  <2>2. CASE r \in DOMAIN table \/ r \notin DOMAIN table'
    BY <1>1, <1>2, <2>1, <2>2 DEF Tallied
  <2>3. CASE r \notin DOMAIN table /\ r = lastRule + 1
    <3>1. r \notin 1..lastRule /\ r # 0
      BY <1>3, <2>3
    <3>2. QueueOf(r) = {}
      BY <3>1 DEF QueueOf, EventsOf, Known
    <3>3. HeldFor(r) = {}
      BY <3>1 DEF HeldFor, Known, NoEvent
    <3>4. AtWork(r) = 0
      BY <3>1 DEF AtWork, Known, NoEvent
    <3>5. sent[r] = 0 /\ unrecorded[r] = 0
      BY <1>3, <2>3 DEF Known
    <3>6. table'[r].fires = 0
      BY <1>2, <2>3
    <3>. QED  BY <1>1, <2>1, <3>2, <3>3, <3>4, <3>5, <3>6, FS_EmptySet
  <2>. QED  BY <1>2, <2>2, <2>3
<1>. QED  BY <1>4 DEF Tallied

LEMMA TalliedTally ==
  ASSUME HeldMap, Types, Known, Tallied, NEW l \in Logs, Tally(l)
  PROVE  Tallied'
<1>1. PICK q \in Rules : Tally(l)!(q)
  BY DEF Tally
<1>2. UNCHANGED <<table, event, queue, unrecorded>>
  BY <1>1 DEF engineSide, adminVars, taskVars
<1>3. CASE ~Fires(l, q)
  <2>1. UNCHANGED <<held, sent>>
    BY <1>1, <1>3
  <2>. QED  BY <1>2, <2>1, TalliedSame
<1>4. CASE Fires(l, q)
  <2>1. PICK e : e.rule = q /\ held' = [held EXCEPT ![l] = e] /\ sent' = Bump(sent, q)
    BY <1>1, <1>4
  <2>2. held[l] = NoEvent
    BY <1>1 DEF Turn, Known
  <2>3. ASSUME NEW r \in Rules
        PROVE  /\ IsFiniteSet(HeldFor(r)')
               /\ r \in DOMAIN table =>
                    table[r].fires + unrecorded[r] + Cardinality(QueueOf(r)')
                      + Cardinality(HeldFor(r)')
                      + AtWork(r)' = sent'[r]
    <3>1. QueueOf(r)' = QueueOf(r) /\ AtWork(r)' = AtWork(r)
      BY <1>2 DEF QueueOf, AtWork
    <3>2. /\ IsFiniteSet(HeldFor(r)')
          /\ Cardinality(HeldFor(r)') = Cardinality(HeldFor(r)) + (IF q = r THEN 1 ELSE 0)
      <4>1. IsFiniteSet(HeldFor(r)) /\ TypeOK
        BY DEF Tallied, Types
      <4>2. DOMAIN held = Logs
        BY DEF HeldMap
      <4>. QED  BY <2>1, <2>2, <4>1, <4>2, HeldAdded
    <3>3. sent'[r] = sent[r] + (IF q = r THEN 1 ELSE 0)
      BY <2>1, Bumped DEF Types, TypeOK
    <3>4. r \in DOMAIN table =>
            table[r].fires + unrecorded[r] + Cardinality(QueueOf(r)) + Cardinality(HeldFor(r))
              + AtWork(r)
            = sent[r]
      BY DEF Tallied
    <3>5. CASE q = r
      BY <3>1, <3>2, <3>3, <3>4, <3>5, Summands
    <3>6. CASE q # r
      BY <3>1, <3>2, <3>3, <3>4, <3>6, Summands
    <3>. QED  BY <3>5, <3>6
  <2>. QED  BY <1>2, <2>3 DEF Tallied
<1>. QED  BY <1>3, <1>4

LEMMA TalliedSend ==
  ASSUME HeldMap, Types, Known, Tallied, NEW l \in Logs, Send(l)
  PROVE  Tallied'
<1>1. /\ Offer(held[l]) /\ held' = [held EXCEPT ![l] = NoEvent]
      /\ UNCHANGED <<table, event, sent>>
  BY DEF Send, engineSide, adminVars, taskVars
<1>2. held[l] \in Events /\ TypeOK
  BY DEF Types, TypeOK
<1>3. ASSUME NEW r \in Rules
      PROVE  /\ IsFiniteSet(HeldFor(r)')
             /\ r \in DOMAIN table =>
                  table[r].fires + unrecorded'[r] + Cardinality(QueueOf(r))'
                    + Cardinality(HeldFor(r)')
                    + AtWork(r)' = sent[r]
  <2> DEFINE one == IF held[l].rule = r THEN 1 ELSE 0
  <2>1. AtWork(r)' = AtWork(r) /\ one \in Nat
    BY <1>1 DEF AtWork
  <2>2. /\ Cardinality(QueueOf(r))' + unrecorded'[r] = Cardinality(QueueOf(r)) + unrecorded[r] + one
        /\ Cardinality(QueueOf(r))' \in Nat /\ unrecorded'[r] \in Nat
    BY <1>1, <1>2, Offered
  <2>3. /\ IsFiniteSet(HeldFor(r)') /\ Cardinality(HeldFor(r)') \in Nat
        /\ Cardinality(HeldFor(r)) = Cardinality(HeldFor(r)') + one
    <3>1. IsFiniteSet(HeldFor(r)) /\ DOMAIN held = Logs
      BY DEF Tallied, HeldMap
    <3>. QED  BY <1>1, <1>2, <3>1, HeldRemoved
  <2>4. r \in DOMAIN table =>
          table[r].fires + unrecorded[r] + Cardinality(QueueOf(r)) + Cardinality(HeldFor(r))
            + AtWork(r)
          = sent[r]
    BY DEF Tallied
  <2> HIDE DEF one
  <2>5. ASSUME NEW t \in Nat, t + unrecorded[r] + Cardinality(QueueOf(r))
                 + Cardinality(HeldFor(r)) + AtWork(r) = sent[r]
        PROVE  t + unrecorded'[r] + Cardinality(QueueOf(r))' + Cardinality(HeldFor(r)')
                 + AtWork(r)' = sent[r]
    BY <2>1, <2>2, <2>3, <2>5, Summands
  <2>. QED  BY <2>3, <2>4, <2>5, Summands
<1>. QED  BY <1>1, <1>3 DEF Tallied

LEMMA TalliedTest ==
  ASSUME Types, Known, Tallied, Test
  PROVE  Tallied'
<1>1. PICK q \in DOMAIN table : sent' = Bump(sent, q) /\ Offer([NoEvent EXCEPT !.rule = q])
  BY DEF Test
<1>2. UNCHANGED <<table, event, held>>
  BY DEF Test, adminVars, taskVars, logVars
<1> DEFINE e == [NoEvent EXCEPT !.rule = q]
<1>3. e \in Events /\ e.rule = q
  <2>1. q \in Rules
    BY AlertingAssumption DEF Types, TypeOK, Rules
  <2>. QED  BY <2>1 DEF NoEvent, Events
<1> HIDE DEF e
<1>4. Offer(e) /\ TypeOK
  BY <1>1 DEF e, Types
<1>5. ASSUME NEW r \in Rules
      PROVE  /\ IsFiniteSet(HeldFor(r)')
             /\ r \in DOMAIN table =>
                  table[r].fires + unrecorded'[r] + Cardinality(QueueOf(r))'
                    + Cardinality(HeldFor(r)')
                    + AtWork(r)' = sent'[r]
  <2> DEFINE one == IF q = r THEN 1 ELSE 0
  <2>1. AtWork(r)' = AtWork(r) /\ HeldFor(r)' = HeldFor(r) /\ one \in Nat
    BY <1>2 DEF AtWork, HeldFor
  <2>2. /\ Cardinality(QueueOf(r))' + unrecorded'[r] = Cardinality(QueueOf(r)) + unrecorded[r] + one
        /\ Cardinality(QueueOf(r))' \in Nat /\ unrecorded'[r] \in Nat
    BY <1>3, <1>4, Offered
  <2>3. sent'[r] = sent[r] + one
    BY <1>1, Bumped DEF Types, TypeOK
  <2>4. r \in DOMAIN table =>
          table[r].fires + unrecorded[r] + Cardinality(QueueOf(r)) + Cardinality(HeldFor(r))
            + AtWork(r)
          = sent[r]
    BY DEF Tallied
  <2> HIDE DEF one
  <2>5. ASSUME NEW t \in Nat, t + unrecorded[r] + Cardinality(QueueOf(r))
                 + Cardinality(HeldFor(r)) + AtWork(r) = sent[r]
        PROVE  t + unrecorded'[r] + Cardinality(QueueOf(r))' + Cardinality(HeldFor(r)')
                 + AtWork(r)' = sent'[r]
    BY <2>1, <2>2, <2>3, <2>5, Summands
  <2>. QED  BY <2>1, <2>4, <2>5, Summands
<1>. QED  BY <1>2, <1>5 DEF Tallied

LEMMA TalliedTake ==
  ASSUME Types, Known, Tallied, Take
  PROVE  Tallied'
<1> DEFINE q == Head(queue).rule
<1>1. /\ queue # <<>> /\ queue' = Tail(queue) /\ UNCHANGED <<table, held, sent>> /\ dpc = "recv"
      /\ \/ event' = Head(queue) /\ UNCHANGED unrecorded
         \/ unrecorded' = Bump(unrecorded, q) /\ UNCHANGED event
  BY DEF Take, taskSide, adminVars, logVars
<1>2. queue \in Seq(Events) /\ unrecorded \in [Rules -> Nat]
  BY DEF Types, TypeOK
<1>3. ASSUME NEW r \in Rules
      PROVE  /\ IsFiniteSet(HeldFor(r)')
             /\ r \in DOMAIN table =>
                  table[r].fires + unrecorded'[r] + Cardinality(QueueOf(r)')
                    + Cardinality(HeldFor(r)')
                    + AtWork(r)' = sent[r]
  <2> DEFINE one == IF q = r THEN 1 ELSE 0
  <2>1. HeldFor(r)' = HeldFor(r) /\ one \in Nat
    BY <1>1 DEF HeldFor
  <2>2. /\ Cardinality(QueueOf(r)) = Cardinality(QueueOf(r)') + one
        /\ Cardinality(QueueOf(r)') \in Nat
    <3>1. /\ Cardinality(EventsOf(queue, r)) = Cardinality(EventsOf(Tail(queue), r)) + one
          /\ Cardinality(EventsOf(Tail(queue), r)) \in Nat
      BY <1>1, <1>2, CountTail
    <3>2. QueueOf(r)' = EventsOf(Tail(queue), r)
      BY <1>1 DEF QueueOf
    <3>. QED  BY <3>1, <3>2 DEF QueueOf
  <2>3. unrecorded'[r] + AtWork(r)' = unrecorded[r] + AtWork(r) + one
    <3>1. AtWork(r) = 0 /\ unrecorded[r] \in Nat
      <4>1. event.rule # r
        BY <1>1, AlertingAssumption DEF Known, NoEvent, Rules
      <4>. QED  BY <1>2, <4>1 DEF AtWork
    <3>2. CASE event' = Head(queue) /\ UNCHANGED unrecorded
      BY <3>1, <3>2 DEF AtWork
    <3>3. CASE unrecorded' = Bump(unrecorded, q) /\ UNCHANGED event
      <4>1. unrecorded'[r] = unrecorded[r] + one
        BY <1>2, <3>3, Bumped
      <4>2. AtWork(r)' = 0
        BY <3>1, <3>3 DEF AtWork
      <4> HIDE DEF one
      <4>. QED  BY <2>1, <3>1, <4>1, <4>2
    <3>. QED  BY <1>1, <3>2, <3>3
  <2>4. r \in DOMAIN table =>
          table[r].fires + unrecorded[r] + Cardinality(QueueOf(r)) + Cardinality(HeldFor(r))
            + AtWork(r)
          = sent[r]
    BY DEF Tallied
  <2>5. unrecorded'[r] \in Nat /\ AtWork(r)' \in Nat
    <3>1. unrecorded' \in [Rules -> Nat]
      BY <1>1, <1>2, BumpType
    <3>. QED  BY <3>1 DEF AtWork
  <2> HIDE DEF one
  <2>6. ASSUME NEW t \in Nat, t + unrecorded[r] + Cardinality(QueueOf(r))
                 + Cardinality(HeldFor(r)) + AtWork(r) = sent[r]
        PROVE  t + unrecorded'[r] + Cardinality(QueueOf(r)') + Cardinality(HeldFor(r)')
                 + AtWork(r)' = sent[r]
    <3>1. /\ Cardinality(QueueOf(r)) \in Nat /\ Cardinality(HeldFor(r)) \in Nat
          /\ AtWork(r) \in Nat /\ unrecorded[r] \in Nat
      BY Summands
    <3>2. Cardinality(HeldFor(r)') = Cardinality(HeldFor(r))
      BY <2>1
    <3>. QED  BY <2>1, <2>2, <2>3, <2>5, <2>6, <3>1, <3>2
  <2>. QED  BY <2>1, <2>4, <2>6, Summands
<1>. QED  BY <1>1, <1>3 DEF Tallied

LEMMA TalliedRecord ==
  ASSUME Types, Known, Tallied, Record
  PROVE  Tallied'
<1> DEFINE q == event.rule
<1>1. /\ UNCHANGED <<queue, held, sent>> /\ event' = NoEvent
      /\ \/ q \in DOMAIN table /\ table' = [table EXCEPT ![q].fires = @ + 1] /\ UNCHANGED unrecorded
         \/ unrecorded' = Bump(unrecorded, q) /\ UNCHANGED table
  BY DEF Record, logVars
<1>2. unrecorded \in [Rules -> Nat] /\ \A r \in DOMAIN table : table[r] \in [on : BOOLEAN, fires : Nat]
  BY DEF Types, TypeOK
<1>3. DOMAIN table' = DOMAIN table
  BY <1>1
<1>4. ASSUME NEW r \in Rules
      PROVE  /\ IsFiniteSet(HeldFor(r)')
             /\ r \in DOMAIN table =>
                  table'[r].fires + unrecorded'[r] + Cardinality(QueueOf(r)')
                    + Cardinality(HeldFor(r)')
                    + AtWork(r)' = sent[r]
  <2>1. HeldFor(r)' = HeldFor(r) /\ QueueOf(r)' = QueueOf(r)
    BY <1>1 DEF HeldFor, QueueOf
  <2>2. AtWork(r)' = 0
    <3>1. NoEvent.rule # r
      BY AlertingAssumption DEF NoEvent, Rules
    <3>. QED  BY <1>1, <3>1 DEF AtWork
  <2>3. r \in DOMAIN table =>
          table'[r].fires + unrecorded'[r] = table[r].fires + unrecorded[r] + AtWork(r)
    <3>1. unrecorded[r] \in Nat
      BY <1>2
    <3>2. CASE q \in DOMAIN table /\ table' = [table EXCEPT ![q].fires = @ + 1] /\ UNCHANGED unrecorded
      <4>1. CASE q = r
        <5>1. r \in DOMAIN table => table'[r].fires = table[r].fires + 1 /\ table[r].fires \in Nat
          BY <1>2, <3>2, <4>1
        <5>2. AtWork(r) = 1
          BY <4>1 DEF AtWork
        <5>. QED  BY <3>1, <3>2, <5>1, <5>2
      <4>2. CASE q # r
        <5>1. r \in DOMAIN table => table'[r].fires = table[r].fires /\ table[r].fires \in Nat
          BY <1>2, <3>2, <4>2
        <5>2. AtWork(r) = 0
          BY <4>2 DEF AtWork
        <5>. QED  BY <3>1, <3>2, <5>1, <5>2
      <4>. QED  BY <4>1, <4>2
    <3>3. CASE unrecorded' = Bump(unrecorded, q) /\ UNCHANGED table
      <4>1. unrecorded'[r] = unrecorded[r] + AtWork(r)
        BY <1>2, <3>3, Bumped DEF AtWork
      <4>. QED  BY <1>2, <3>1, <3>3, <4>1, Summands
    <3>. QED  BY <1>1, <3>2, <3>3
  <2>4. r \in DOMAIN table =>
          table[r].fires + unrecorded[r] + Cardinality(QueueOf(r)) + Cardinality(HeldFor(r))
            + AtWork(r)
          = sent[r]
    BY DEF Tallied
  <2>5. r \in DOMAIN table => table'[r].fires \in Nat /\ unrecorded'[r] \in Nat
    <3>1. unrecorded' \in [Rules -> Nat]
      BY <1>1, <1>2, BumpType
    <3>2. r \in DOMAIN table => table'[r].fires \in Nat
      BY <1>1, <1>2
    <3>. QED  BY <3>1, <3>2
  <2>6. IsFiniteSet(HeldFor(r)')
    BY <2>1, Summands
  <2>. QED  BY <2>1, <2>2, <2>3, <2>4, <2>5, <2>6, Summands
<1>. QED  BY <1>1, <1>3, <1>4 DEF Tallied

LEMMA TalliedNext ==
  ASSUME HeldMap, Types, Known, Tallied, [Next]_vars
  PROVE  Tallied'
<1>1. ASSUME NEW a \in Admins, SetEnabled(a) \/ Delete(a) \/ Reload(a)  PROVE Tallied'
  <2>1. UNCHANGED <<queue, held, event, unrecorded, sent>>
    BY <1>1 DEF SetEnabled, Delete, Edit, Reload, List, ListFails, Install, listSide, logVars,
         taskVars
  <2>2. \A r \in DOMAIN table' : r \in DOMAIN table /\ table'[r].fires = table[r].fires
    <3>1. CASE SetEnabled(a)
      <4>1. PICK q \in DOMAIN table, on \in BOOLEAN : table' = [table EXCEPT ![q].on = on]
        BY <3>1 DEF SetEnabled
      <4>2. \A r \in DOMAIN table : table[r] \in [on : BOOLEAN, fires : Nat]
        BY DEF Types, TypeOK
      <4>. QED  BY <4>1, <4>2
    <3>2. CASE Delete(a)
      BY <3>2 DEF Delete
    <3>3. CASE Reload(a)
      BY <3>3 DEF Reload, List, ListFails, Install, listSide
    <3>. QED  BY <1>1, <3>1, <3>2, <3>3
  <2>. QED  BY <2>1, <2>2, TalliedSame
<1>2. ASSUME UNCHANGED <<table, queue, held, event, unrecorded, sent>>  PROVE Tallied'
  BY <1>2, TalliedSame
<1>3. ASSUME NEW l \in Logs, Observe(l) \/ Mismatch(l) \/ Observed(l)  PROVE Tallied'
  BY <1>2, <1>3 DEF Observe, Mismatch, Observed, engineSide, adminVars, taskVars
<1>4. CASE Post \/ UNCHANGED vars
  BY <1>2, <1>4 DEF Post, taskSide, vars, adminVars, logVars, taskVars
<1>. QED  BY <1>1, <1>3, <1>4, TalliedCreate, TalliedTally, TalliedSend, TalliedTest, TalliedTake,
             TalliedRecord DEF Next, Scan, Delivery

LEMMA HeldMapNext ==
  ASSUME HeldMap, [Next]_vars
  PROVE  HeldMap'
<1>1. UNCHANGED held \/ \E l \in Logs, e \in {held'[m] : m \in Logs} : held' = [held EXCEPT ![l] = e]
  <2>1. ASSUME NEW l \in Logs, Tally(l)
        PROVE  UNCHANGED held \/ \E e : held' = [held EXCEPT ![l] = e]
    BY <2>1 DEF Tally
  <2>2. ASSUME NEW l \in Logs, Tally(l) \/ Send(l)
        PROVE  UNCHANGED held \/ \E e : held' = [held EXCEPT ![l] = e]
    BY <2>1, <2>2 DEF Send
  <2>3. ASSUME NEW l \in Logs, NEW e, held' = [held EXCEPT ![l] = e]  PROVE held'[l] = e
    BY <2>3 DEF HeldMap
  <2>4. ASSUME NEW l \in Logs, Observe(l) \/ Mismatch(l) \/ Observed(l)  PROVE UNCHANGED held
    BY <2>4 DEF Observe, Mismatch, Observed
  <2>5. ASSUME NEW a \in Admins, Create(a) \/ SetEnabled(a) \/ Delete(a) \/ Reload(a)
        PROVE  UNCHANGED held
    BY <2>5 DEF Create, SetEnabled, Delete, Edit, Reload, List, ListFails, Install, listSide, logVars
  <2>6. CASE Test \/ Delivery \/ UNCHANGED vars
    BY <2>6 DEF Test, Delivery, Take, Post, Record, taskSide, vars, logVars
  <2>. QED  BY <2>2, <2>3, <2>4, <2>5, <2>6 DEF Next, Scan
<1>. QED  BY <1>1 DEF HeldMap

\* Events keep to rules that were created, and ids are given out in order.
LEMMA KnownOffer ==
  ASSUME Types, Known, NEW e \in Events, e.rule \in 1..lastRule, Offer(e)
  PROVE  /\ \A k \in DOMAIN queue' : queue'[k].rule \in 1..lastRule
         /\ \A r \in Rules : r > lastRule => unrecorded'[r] = 0
<1>1. queue \in Seq(Events) /\ unrecorded \in [Rules -> Nat] /\ lastRule \in Nat
        /\ Rules \subseteq Nat
  BY AlertingAssumption DEF Types, TypeOK, Rules
<1>2. /\ \A k \in DOMAIN queue : queue[k].rule \in 1..lastRule
      /\ \A r \in Rules : r > lastRule => unrecorded[r] = 0
  BY DEF Known
<1>3. CASE queue' = Append(queue, e) /\ UNCHANGED unrecorded
  <2>1. /\ DOMAIN queue = 1..Len(queue) /\ DOMAIN queue' = 1..Len(queue) + 1 /\ Len(queue) \in Nat
        /\ \A k \in 1..Len(queue) : queue'[k] = queue[k]
        /\ queue'[Len(queue) + 1] = e
    BY <1>1, <1>3, AppendProperties, LenProperties
  <2>2. \A k \in 1..Len(queue) + 1 : k = Len(queue) + 1 \/ k \in 1..Len(queue)
    BY <2>1
  <2>. QED  BY <1>2, <1>3, <2>1, <2>2
<1>4. CASE UNCHANGED queue /\ unrecorded' = Bump(unrecorded, e.rule)
  <2>1. ASSUME NEW r \in Rules, r > lastRule  PROVE unrecorded'[r] = 0
    <3>1. e.rule # r
      BY <1>1, <2>1
    <3>2. unrecorded'[r] = unrecorded[r] + 0
      BY <1>1, <1>4, <3>1, Bumped
    <3>. QED  BY <1>2, <2>1, <3>2
  <2>. QED  BY <1>2, <1>4, <2>1
<1>. QED  BY <1>3, <1>4 DEF Offer

LEMMA KnownAdmin ==
  ASSUME Types, Known, NEW a \in Admins, Create(a) \/ SetEnabled(a) \/ Delete(a) \/ Reload(a)
  PROVE  Known'
<1>1. UNCHANGED <<at, held, dpc, event, queue, sent, unrecorded>>
  BY DEF Create, SetEnabled, Delete, Edit, Reload, List, ListFails, Install, listSide, logVars,
       taskVars
<1>2. lastRule \in Nat /\ DOMAIN table \subseteq 1..lastRule /\ DOMAIN snap = Admins
  BY DEF Types, TypeOK
<1>3. lastRule' \in Nat /\ lastRule' >= lastRule
  BY <1>2 DEF Create, SetEnabled, Delete, Reload, List, ListFails, Install, listSide
<1>4. \A x \in 1..lastRule : x \in 1..lastRule'
  BY <1>2, <1>3
<1>5. \A r \in Rules : r > lastRule' => sent[r] = 0 /\ unrecorded[r] = 0
  <2>1. Rules \subseteq Nat
    BY DEF Rules
  <2>. QED  BY <1>2, <1>3, <2>1 DEF Known
<1>6. DOMAIN installed' \subseteq 1..lastRule'
  <2>1. CASE Install(a)
    BY <1>4, <2>1 DEF Install, Compiled, Known
  <2>2. CASE UNCHANGED installed
    BY <1>4, <2>2 DEF Known
  <2>. QED  BY <2>1, <2>2 DEF Create, SetEnabled, Delete, Edit, Reload, List, ListFails, listSide
<1>7. \A b \in Admins : snap'[b] \subseteq 1..lastRule'
  <2>1. CASE UNCHANGED snap
    BY <1>4, <2>1 DEF Known
  <2>2. CASE List(a)
    BY <1>2, <1>4, <2>2 DEF List, Enabled, Known
  <2>3. CASE Install(a)
    BY <1>2, <1>4, <2>3 DEF Install, Known
  <2>. QED  BY <2>1, <2>2, <2>3 DEF Create, SetEnabled, Delete, Edit, Reload, ListFails
<1>8. /\ \A k \in DOMAIN queue : queue[k].rule \in 1..lastRule'
      /\ \A l \in Logs : IF at[l] = "send" THEN held[l].rule \in 1..lastRule' ELSE held[l] = NoEvent
      /\ IF dpc \in {"post", "record"} THEN event.rule \in 1..lastRule' ELSE event = NoEvent
  BY <1>4 DEF Known
<1>. QED  BY <1>1, <1>5, <1>6, <1>7, <1>8 DEF Known

LEMMA KnownLog ==
  ASSUME HeldMap, Types, EngineInv, Known, NEW l \in Logs, Observe(l) \/ Scan(l)
  PROVE  Known'
<1>1. DOMAIN at = Logs /\ DOMAIN held = Logs
  BY DEF HeldMap, Types, TypeOK
<1>2. UNCHANGED <<lastRule, snap, dpc, event>>
  BY DEF Observe, Scan, Mismatch, Tally, Send, Observed, engineSide, adminVars, taskVars
<1>3. CASE Observe(l) \/ Mismatch(l) \/ Observed(l)
  <2>1. UNCHANGED <<installed, held, queue, sent, unrecorded>>
    BY <1>3 DEF Observe, Mismatch, Observed
  <2>2. \A m \in Logs : at'[m] = "send" <=> at[m] = "send"
    BY <1>1, <1>3 DEF Observe, Mismatch, Observed
  <2>. QED  BY <1>2, <2>1, <2>2 DEF Known
<1>4. CASE Send(l)
  <2>1. /\ Offer(held[l]) /\ held' = [held EXCEPT ![l] = NoEvent] /\ at' = [at EXCEPT ![l] = "scan"]
        /\ UNCHANGED <<installed, sent>> /\ at[l] = "send"
    BY <1>4 DEF Send
  <2>2. held[l] \in Events /\ held[l].rule \in 1..lastRule
    BY <2>1 DEF Types, TypeOK, Known
  <2>3. /\ \A k \in DOMAIN queue' : queue'[k].rule \in 1..lastRule
        /\ \A r \in Rules : r > lastRule => unrecorded'[r] = 0
    BY <2>1, <2>2, KnownOffer
  <2>4. \A m \in Logs : IF at'[m] = "send" THEN held'[m].rule \in 1..lastRule ELSE held'[m] = NoEvent
    BY <1>1, <2>1 DEF Known
  <2>. QED  BY <1>2, <2>1, <2>3, <2>4 DEF Known
<1>5. CASE Tally(l)
  <2>1. PICK q \in Rules : Tally(l)!(q)
    BY <1>5 DEF Tally
  <2>2. q \in DOMAIN installed
    BY <2>1 DEF Turn, Observing, EngineInv, LockHeld
  <2>3. q \in 1..lastRule /\ lastRule \in Nat
    BY <2>2 DEF Known, Types, TypeOK
  <2>4. DOMAIN installed' = DOMAIN installed /\ UNCHANGED <<queue, unrecorded>>
    BY <2>1
  <2>5. CASE ~Fires(l, q)
    <3>1. UNCHANGED <<at, held, sent>>
      BY <2>1, <2>5
    <3>. QED  BY <1>2, <2>4, <3>1 DEF Known
  <2>6. CASE Fires(l, q)
    <3>1. PICK e : /\ e.rule = q /\ held' = [held EXCEPT ![l] = e] /\ sent' = Bump(sent, q)
                   /\ at' = [at EXCEPT ![l] = "send"]
      BY <2>1, <2>6
    <3>2. \A m \in Logs : IF at'[m] = "send" THEN held'[m].rule \in 1..lastRule
                              ELSE held'[m] = NoEvent
      BY <1>1, <2>3, <3>1 DEF Known
    <3>3. ASSUME NEW r \in Rules, r > lastRule  PROVE sent'[r] = 0
      <4>1. q # r
        BY <2>3, <3>3 DEF Rules
      <4>2. sent'[r] = sent[r] + 0
        BY <3>1, <4>1, Bumped DEF Types, TypeOK
      <4>. QED  BY <3>3, <4>2 DEF Known
    <3>. QED  BY <1>2, <2>4, <3>2, <3>3 DEF Known
  <2>. QED  BY <2>5, <2>6
<1>. QED  BY <1>3, <1>4, <1>5 DEF Scan

LEMMA KnownTask ==
  ASSUME Types, Known, Test \/ Delivery
  PROVE  Known'
<1>1. UNCHANGED <<lastRule, snap, installed, at, held>>
  BY DEF Test, Delivery, Take, Post, Record, taskSide, adminVars, logVars
<1>2. lastRule \in Nat /\ Rules \subseteq Nat /\ unrecorded \in [Rules -> Nat]
        /\ sent \in [Rules -> Nat]
  BY DEF Types, TypeOK, Rules
<1>3. ASSUME NEW f \in [Rules -> Nat], NEW q \in 1..lastRule,
             \A r \in Rules : r > lastRule => f[r] = 0
      PROVE  \A r \in Rules : r > lastRule => Bump(f, q)[r] = 0
  <2> SUFFICES ASSUME NEW r \in Rules, r > lastRule PROVE Bump(f, q)[r] = 0
    OBVIOUS
  <2>1. q # r
    BY <1>2
  <2>2. Bump(f, q)[r] = f[r] + 0
    BY <2>1, Bumped
  <2>. QED  BY <1>3, <2>2
<1>4. CASE Test
  <2>1. PICK q \in DOMAIN table : sent' = Bump(sent, q) /\ Offer([NoEvent EXCEPT !.rule = q])
    BY <1>4 DEF Test
  <2>2. q \in 1..lastRule /\ q \in Rules
    BY AlertingAssumption DEF Types, TypeOK, Rules
  <2> DEFINE e == [NoEvent EXCEPT !.rule = q]
  <2>3. e \in Events /\ e.rule \in 1..lastRule
    BY <2>2 DEF NoEvent, Events
  <2> HIDE DEF e
  <2>4. /\ \A k \in DOMAIN queue' : queue'[k].rule \in 1..lastRule
        /\ \A r \in Rules : r > lastRule => unrecorded'[r] = 0
    <3>1. Offer(e)
      BY <2>1 DEF e
    <3>. QED  BY <2>3, <3>1, KnownOffer
  <2>5. \A r \in Rules : r > lastRule => sent'[r] = 0
    BY <1>2, <1>3, <2>1, <2>2 DEF Known
  <2>6. UNCHANGED <<dpc, event>>
    BY <1>4 DEF Test, taskVars
  <2>. QED  BY <1>1, <2>4, <2>5, <2>6 DEF Known
<1>5. CASE Take
  <2>1. /\ queue # <<>> /\ queue' = Tail(queue) /\ sent' = sent /\ event = NoEvent
        /\ \/ event' = Head(queue) /\ dpc' = "post" /\ UNCHANGED unrecorded
           \/ unrecorded' = Bump(unrecorded, Head(queue).rule) /\ UNCHANGED event /\ dpc' = "recv"
    BY <1>5 DEF Take, taskSide, NextEvent, Known
  <2>2. /\ Head(queue).rule \in 1..lastRule
        /\ \A k \in DOMAIN Tail(queue) : Tail(queue)[k].rule \in 1..lastRule
    <3>1. /\ Len(queue) \in Nat /\ DOMAIN queue = 1..Len(queue) /\ queue # <<>>
               /\ queue \in Seq(Events)
          /\ Tail(queue) \in Seq(Events) /\ Len(Tail(queue)) = Len(queue) - 1
          /\ DOMAIN Tail(queue) = 1..Len(Tail(queue))
          /\ \A i \in 1..Len(Tail(queue)) : Tail(queue)[i] = queue[i + 1]
      BY <2>1, HeadTailProperties, LenProperties DEF Types, TypeOK
    <3>2. Len(queue) # 0
      BY <3>1, EmptySeq
    <3>3. Head(queue) = queue[1] /\ 1 \in DOMAIN queue
      BY <3>1, <3>2
    <3>4. \A i \in DOMAIN Tail(queue) : i + 1 \in DOMAIN queue
      BY <3>1, <3>2
    <3>. QED  BY <3>1, <3>3, <3>4 DEF Known
  <2>3. \A r \in Rules : r > lastRule => unrecorded'[r] = 0
    BY <1>2, <1>3, <2>1, <2>2 DEF Known
  <2>4. IF dpc' \in {"post", "record"} THEN event'.rule \in 1..lastRule ELSE event' = NoEvent
    BY <2>1, <2>2
  <2>. QED  BY <1>1, <2>1, <2>2, <2>3, <2>4 DEF Known
<1>6. CASE Post
  <2>1. /\ UNCHANGED <<queue, event, unrecorded, sent>> /\ dpc = "post"
        /\ dpc' \in {"post", "record"}
    BY <1>6 DEF Post, GivesUp, taskSide
  <2>. QED  BY <1>1, <2>1 DEF Known
<1>7. CASE Record
  <2>1. /\ UNCHANGED <<queue, sent>> /\ event' = NoEvent /\ dpc' = "recv"
             /\ event.rule \in 1..lastRule
        /\ UNCHANGED unrecorded \/ unrecorded' = Bump(unrecorded, event.rule)
    BY <1>7 DEF Record, Known
  <2>2. \A r \in Rules : r > lastRule => unrecorded'[r] = 0
    BY <1>2, <1>3, <2>1 DEF Known
  <2>. QED  BY <1>1, <2>1, <2>2 DEF Known
<1>. QED  BY <1>4, <1>5, <1>6, <1>7 DEF Delivery

LEMMA KnownNext ==
  ASSUME HeldMap, Types, EngineInv, Known, [Next]_vars
  PROVE  Known'
<1>1. ASSUME UNCHANGED vars  PROVE Known'
  BY <1>1 DEF vars, adminVars, logVars, taskVars, Known
<1>. QED  BY <1>1, KnownAdmin, KnownLog, KnownTask DEF Next

LEMMA TalliedInit == Init => HeldMap /\ Known /\ Tallied
<1> SUFFICES ASSUME Init PROVE HeldMap /\ Known /\ Tallied
  OBVIOUS
<1>1. DOMAIN <<>> = {}
  OBVIOUS
<1>2. HeldMap /\ Known
  BY <1>1 DEF Init, HeldMap, Known
<1>3. ASSUME NEW r \in Rules  PROVE IsFiniteSet(HeldFor(r))
  <2>1. r # 0
    BY AlertingAssumption DEF Rules
  <2>2. HeldFor(r) = {}
    BY <2>1 DEF Init, HeldFor, NoEvent
  <2>. QED  BY <2>2, FS_EmptySet
<1>. QED  BY <1>2, <1>3 DEF Init, Tallied

\* Every event of a rule is in one place, from tally or the test endpoint to
\* record_result or the moment it is dropped: fire_count can be relied on.
THEOREM FireCountAddsUp == Spec => []FiresAreCounted
<1> DEFINE I == Types /\ HeldMap /\ Known /\ Tallied
<1>1. Inv => EngineInv
  BY DEF Inv
<1>2. I /\ EngineInv /\ [Next]_vars => I'
  BY TypesNext, HeldMapNext, KnownNext, TalliedNext
<1>3. I => FiresAreCounted
  <2> SUFFICES ASSUME I, NEW r \in DOMAIN table
               PROVE  table[r].fires + unrecorded[r] + Cardinality(QueueOf(r))
                        + Cardinality(HeldFor(r)) + AtWork(r) = sent[r]
    BY DEF FiresAreCounted, QueueOf, EventsOf, HeldFor, AtWork
  <2>1. r \in Rules
    BY AlertingAssumption DEF Types, TypeOK, Rules
  <2>. QED  BY <2>1 DEF Tallied
<1>4. Init => I
  BY TypesInit, TalliedInit
<1>. QED  BY <1>1, <1>2, <1>3, <1>4, AlertingInvariant, PTL DEF Spec
=============================================================================

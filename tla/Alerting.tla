------------------------------ MODULE Alerting ------------------------------
(***************************************************************************)
(* Alerting in logger_server: the table of rules and the administrators    *)
(* who edit it, the rules compiled in memory that every ingested log is    *)
(* matched against, the bounded queue of fired alerts, and the one task    *)
(* that delivers them to webhooks.                                         *)
(*                                                                         *)
(* Whether a log matches a rule (level, device, tag, text) is one free     *)
(* choice per pair.  The time of a log is its ts, which clients may set to *)
(* any integer; sums and differences are taken not to leave 64 bits.       *)
(***************************************************************************)
EXTENDS Integers, Sequences, FiniteSets

CONSTANTS
  Logs,        \* the logs of a behaviour, each observed once, by its own handler
  Times,       \* the values of ts: of the clock, or whatever clients send
  Admins,      \* the requests that edit rules, one at a time each
  MaxRules,    \* bound: rules ever created
  Threshold, Window, Cooldown,  \* of each rule, in the unit of Times
  AlertQueue,  \* Config::alert_queue
  Attempts,    \* ATTEMPTS
  MaxEdits,    \* bound: edits of the table
  MaxTests     \* bound: calls of the test endpoint

Rules == 1..MaxRules

ASSUME AlertingAssumption ==
  /\ MaxRules \in Nat
  /\ Threshold \in [Rules -> Nat \ {0}]
  /\ Window \in [Rules -> Nat \ {0}]
  /\ Cooldown \in [Rules -> Nat]
  /\ {AlertQueue, Attempts} \subseteq Nat \ {0}
  /\ {MaxEdits, MaxTests} \subseteq Nat
  /\ Times \subseteq Int

VARIABLES
  table,      \* alert_rules: from id to whether it is enabled and its fire_count
  lastRule,   \* the highest id AUTOINCREMENT gave out
  installed,  \* AlertEngine::rules: from id to its RuleState
  gen,        \* history: how often rules were installed
  apc, snap,  \* per administrator: where it is, and the rules reload_alerts listed
  at, ts, todo, held,  \* per log: where observe is, its time, the rules left, the event
  queue,      \* fired alerts on their way to the delivery task
  dpc, event, attempt, \* the delivery task
  fired,      \* history: the events tally returned
  sent, unrecorded,    \* history: per rule, events made, and those fire_count misses
  unlisted,   \* history: the last attempt to list the rules failed
  edits, tests         \* bounds

adminVars == <<table, lastRule, apc, snap, unlisted, edits>>
logVars == <<at, ts, todo, held>>
taskVars == <<dpc, event, attempt>>
vars == <<adminVars, logVars, taskVars, installed, gen, queue, fired, sent, unrecorded,
          tests>>

NoEvent == [rule |-> 0, gen |-> 0, at |-> 0, logs |-> {}]
Fresh == [hits |-> <<>>, last |-> 0]
Bump(f, r) == [f EXCEPT ![r] = @ + 1]

\* The rules an operator sees as active.
Enabled == {r \in DOMAIN table : table[r].on}

Init ==
  /\ table = [r \in {} |-> [on |-> TRUE, fires |-> 0]]
  /\ lastRule = 0
  /\ installed = [r \in {} |-> Fresh]
  /\ gen = 0
  /\ apc = [a \in Admins |-> "idle"]
  /\ snap = [a \in Admins |-> {}]
  /\ at = [l \in Logs |-> "new"]
  /\ ts = [l \in Logs |-> 0]
  /\ todo = [l \in Logs |-> {}]
  /\ held = [l \in Logs |-> NoEvent]
  /\ queue = <<>>
  /\ dpc = "recv"
  /\ event = NoEvent
  /\ attempt = 1
  /\ fired = {}
  /\ sent = [r \in Rules |-> 0]
  /\ unrecorded = [r \in Rules |-> 0]
  /\ unlisted = FALSE
  /\ edits = 0
  /\ tests = 0

----------------------------------------------------------------------------
(* Administration: the statement, then reload_alerts in two steps.  Each    *)
(* use of the admin connection is one critical section of its own.          *)

Edit(a) ==
  /\ apc[a] = "idle"
  /\ edits < MaxEdits
  /\ edits' = edits + 1
  /\ apc' = [apc EXCEPT ![a] = "list"]
  /\ UNCHANGED <<logVars, taskVars, snap, unlisted, installed, gen, queue, fired, sent,
                 unrecorded, tests>>

Create(a) ==
  /\ Edit(a)
  /\ lastRule < MaxRules
  /\ lastRule' = lastRule + 1
  /\ \E on \in BOOLEAN :
       table' = [r \in DOMAIN table \cup {lastRule + 1} |->
                   IF r \in DOMAIN table THEN table[r] ELSE [on |-> on, fires |-> 0]]

\* The row may be as asked already: it is updated, and the rules are reloaded.
SetEnabled(a) ==
  /\ Edit(a)
  /\ \E r \in DOMAIN table, on \in BOOLEAN : table' = [table EXCEPT ![r].on = on]
  /\ UNCHANGED lastRule

Delete(a) ==
  /\ Edit(a)
  /\ \E gone \in DOMAIN table : table' = [r \in DOMAIN table \ {gone} |-> table[r]]
  /\ UNCHANGED lastRule

listSide == <<table, lastRule, edits, logVars, taskVars, installed, gen, queue, fired,
              sent, unrecorded, tests>>

List(a) ==
  /\ apc[a] = "list"
  /\ snap' = [snap EXCEPT ![a] = Enabled]
  /\ apc' = [apc EXCEPT ![a] = "install"]
  /\ unlisted' = FALSE
  /\ UNCHANGED listSide

\* "could not load alert rules": the old ones stay.
ListFails(a) ==
  /\ apc[a] = "list"
  /\ apc' = [apc EXCEPT ![a] = "idle"]
  /\ unlisted' = TRUE
  /\ UNCHANGED <<listSide, snap>>

\* An observe holds the read lock from its first rule to its last.
Observing(l) == at[l] \in {"scan", "send"}

\* mutant: a rule that is still there keeps its state, and one that is not, too
MergedOver(s) == [r \in s \cup DOMAIN installed |->
                    IF r \in DOMAIN installed THEN installed[r] ELSE Fresh]
Compiled(s) == [r \in s |-> Fresh]

\* AlertEngine::reload.
Install(a) ==
  /\ apc[a] = "install"
  /\ \A l \in Logs : ~Observing(l)
  /\ installed' = Compiled(snap[a])
  /\ gen' = gen + 1
  /\ snap' = [snap EXCEPT ![a] = {}]
  /\ apc' = [apc EXCEPT ![a] = "idle"]
  /\ UNCHANGED <<table, lastRule, unlisted, edits, logVars, taskVars, queue, fired,
                 sent, unrecorded, tests>>

----------------------------------------------------------------------------
(* The engine.                                                             *)

engineSide == <<adminVars, taskVars, gen, tests>>

\* AlertEngine::observe takes the read lock, and is done if there is no rule.
\* Any ts: that of a client, or a clock that has run since it was read.
Observe(l) ==
  /\ at[l] = "new"
  /\ ts' \in {[ts EXCEPT ![l] = t] : t \in Times}
  /\ todo' = [todo EXCEPT ![l] = DOMAIN installed]
  /\ at' = [at EXCEPT ![l] = IF DOMAIN installed = {} THEN "done" ELSE "scan"]
  /\ UNCHANGED <<engineSide, held, installed, queue, fired, sent, unrecorded>>

\* The rules are listed newest first.
Turn(l, r) == at[l] = "scan" /\ r \in todo[l] /\ \A q \in todo[l] : q <= r

Mismatch(l) ==
  /\ \E r \in Rules : Turn(l, r) /\ todo' = [todo EXCEPT ![l] = @ \ {r}]
  /\ UNCHANGED <<engineSide, at, ts, held, installed, queue, fired, sent, unrecorded>>

\* The hits left when those before cutoff have been popped off the front.
Recent(hits, cutoff) ==
  LET popped == {k \in DOMAIN hits : \A j \in 1..k : hits[j].ts < cutoff}
  IN SubSeq(hits, Cardinality(popped) + 1, Len(hits))

Counted(l, r) ==
  Append(Recent(installed[r].hits, ts[l] - Window[r]), [ts |-> ts[l], log |-> l])

\* mutants: a cooldown nobody looks at, and hits that are kept when the rule fires
NoCooldown(l, r) == Len(Counted(l, r)) >= Threshold[r]
KeptHits(l, r) == [hits |-> Counted(l, r), last |-> ts[l]]

Fires(l, r) ==
  /\ Len(Counted(l, r)) >= Threshold[r]
  /\ ts[l] >= installed[r].last + Cooldown[r]
Cleared(l, r) == [hits |-> <<>>, last |-> ts[l]]

\* tally, under the lock of the rule: the match is counted, and tips it or not.
Tally(l) ==
  \E r \in Rules :
    /\ Turn(l, r)
    /\ todo' = [todo EXCEPT ![l] = @ \ {r}]
    /\ \/ /\ ~Fires(l, r)
          /\ installed' = [installed EXCEPT ![r].hits = Counted(l, r)]
          /\ UNCHANGED <<at, held, fired, sent>>
       \/ /\ Fires(l, r)
          /\ LET e == [rule |-> r, gen |-> gen, at |-> ts[l],
                       logs |-> {Counted(l, r)[k].log : k \in DOMAIN Counted(l, r)}]
             IN /\ held' = [held EXCEPT ![l] = e]
                /\ fired' = fired \cup {e}
          /\ installed' = [installed EXCEPT ![r] = Cleared(l, r)]
          /\ sent' = Bump(sent, r)
          /\ at' = [at EXCEPT ![l] = "send"]
    /\ UNCHANGED <<engineSide, ts, queue, unrecorded>>

RoomForOneMore == Len(queue) <= AlertQueue  \* mutant: an off-by-one in the bound
HasRoom == Len(queue) < AlertQueue

\* try_send: a full queue drops the event, and the rule keeps its cooldown.
Offer(e) ==
  \/ /\ HasRoom
     /\ queue' = Append(queue, e)
     /\ UNCHANGED unrecorded
  \/ /\ ~HasRoom
     /\ unrecorded' = Bump(unrecorded, e.rule)
     /\ UNCHANGED queue

Send(l) ==
  /\ at[l] = "send"
  /\ Offer(held[l])
  /\ held' = [held EXCEPT ![l] = NoEvent]
  /\ at' = [at EXCEPT ![l] = "scan"]
  /\ UNCHANGED <<engineSide, ts, todo, installed, fired, sent>>

Observed(l) ==
  /\ at[l] = "scan"
  /\ todo[l] = {}
  /\ at' = [at EXCEPT ![l] = "done"]
  /\ UNCHANGED <<engineSide, ts, todo, held, installed, queue, fired, sent, unrecorded>>

\* The test endpoint: an event of its own, for a rule that is in the table,
\* whether it is enabled or not.
Test ==
  /\ tests < MaxTests
  /\ tests' = tests + 1
  /\ \E r \in DOMAIN table :
       /\ sent' = Bump(sent, r)
       /\ Offer([NoEvent EXCEPT !.rule = r])
  /\ UNCHANGED <<adminVars, taskVars, logVars, installed, gen, fired>>

----------------------------------------------------------------------------
(* The delivery task.                                                      *)

taskSide == <<adminVars, logVars, installed, gen, fired, sent, tests>>

\* mutant: the task returns when the rule of an event is gone
Returned == "off"
NextEvent == "recv"

\* rx.recv, then the rule is read again.
Take ==
  /\ dpc = "recv"
  /\ queue # <<>>
  /\ queue' = Tail(queue)
  /\ \/ /\ Head(queue).rule \in DOMAIN table
        /\ event' = Head(queue)
        /\ dpc' = "post"
        /\ UNCHANGED unrecorded
     \* It is gone, or the query failed: on to the next event.
     \/ /\ dpc' = NextEvent
        /\ unrecorded' = Bump(unrecorded, Head(queue).rule)
        /\ UNCHANGED event
  /\ UNCHANGED <<taskSide, attempt>>

\* mutant: a delivery that failed for good is not recorded
Forgotten == "recv"
GivesUp == "record"

\* deliver: guard_url, and up to Attempts posts.  A refused address, a 2xx and a
\* 4xx end it; an error, a timeout and a 5xx or 429 do not.
Post ==
  /\ dpc = "post"
  /\ \/ dpc' = "record" /\ attempt' = 1
     \/ attempt < Attempts /\ attempt' = attempt + 1 /\ dpc' = dpc
     \/ attempt = Attempts /\ attempt' = 1 /\ dpc' = GivesUp
  /\ UNCHANGED <<taskSide, queue, event, unrecorded>>

\* record_result, on whatever the rule is by now; an error is ignored.
Record ==
  /\ dpc = "record"
  /\ \/ /\ event.rule \in DOMAIN table
        /\ table' = [table EXCEPT ![event.rule].fires = @ + 1]
        /\ UNCHANGED unrecorded
     \/ /\ unrecorded' = Bump(unrecorded, event.rule)
        /\ UNCHANGED table
  /\ event' = NoEvent
  /\ dpc' = "recv"
  /\ UNCHANGED <<lastRule, apc, snap, unlisted, edits, logVars, installed, gen, fired,
                 sent, tests, attempt, queue>>

Delivery == Take \/ Post \/ Record

Reload(a) == List(a) \/ ListFails(a) \/ Install(a)
Scan(l) == Mismatch(l) \/ Tally(l) \/ Send(l) \/ Observed(l)

Next ==
  \/ \E a \in Admins : Create(a) \/ SetEnabled(a) \/ Delete(a) \/ Reload(a)
  \/ \E l \in Logs : Observe(l) \/ Scan(l)
  \/ Test
  \/ Delivery

Spec == Init /\ [][Next]_vars

\* A handler that has begun goes on, and the runtime polls the delivery task,
\* whose posts end by success, error or timeout.
FairSpec ==
  /\ Spec
  /\ \A a \in Admins : WF_vars(Reload(a))
  /\ \A l \in Logs : WF_vars(Scan(l))
  /\ WF_vars(Delivery)

----------------------------------------------------------------------------
Events == [rule : Rules \cup {0}, gen : Nat, at : Times \cup {0}, logs : SUBSET Logs]

TypeOK ==
  /\ DOMAIN table \subseteq 1..lastRule /\ lastRule \in 0..MaxRules
  /\ table \in [DOMAIN table -> [on : BOOLEAN, fires : Nat]]
  /\ DOMAIN installed \subseteq Rules
  /\ \A r \in DOMAIN installed :
       /\ installed[r].hits \in Seq([ts : Times, log : Logs])
       /\ installed[r].last \in Times \cup {0}
  /\ gen \in Nat
  /\ apc \in [Admins -> {"idle", "list", "install"}] /\ snap \in [Admins -> SUBSET Rules]
  /\ at \in [Logs -> {"new", "scan", "send", "done"}] /\ ts \in [Logs -> Times \cup {0}]
  /\ todo \in [Logs -> SUBSET Rules]
  /\ \A l \in Logs : held[l] \in Events
  /\ queue \in Seq(Events) /\ Len(queue) <= AlertQueue
  /\ dpc \in {"recv", "post", "record", "off"} /\ event \in Events
  /\ attempt \in 1..Attempts
  /\ fired \subseteq Events
  /\ sent \in [Rules -> Nat] /\ unrecorded \in [Rules -> Nat]

\* "Silent for cooldown_secs": two alerts of a rule are a cooldown apart in the
\* time of their logs, however handlers interleave and whatever ts clients set,
\* as long as no rule is edited in between.
CooldownHolds ==
  \A e, f \in fired :
    e # f /\ e.rule = f.rule /\ e.gen = f.gen =>
      e.at >= f.at + Cooldown[e.rule] \/ f.at >= e.at + Cooldown[e.rule]

\* A log counts towards one alert of a rule at most: what tipped it once does
\* not tip it again.
CountedOnce ==
  \A e, f \in fired : e.rule = f.rule /\ e # f => e.logs \cap f.logs = {}

\* "Silent for cooldown_secs": when the matches of a rule have piled up to its
\* threshold, the last of them lies less than a cooldown from an alert of the rule,
\* before it or after it; nothing else keeps the rule quiet.
QuietOnlyInCooldown ==
  \A r \in DOMAIN installed :
    LET hits == installed[r].hits IN
      Len(hits) >= Threshold[r] =>
        \E e \in fired :
          /\ e.rule = r /\ e.gen = gen
          /\ hits[Len(hits)].ts > e.at - Cooldown[r] /\ hits[Len(hits)].ts < e.at + Cooldown[r]

\* When no edit is under way the rules logs are matched against are the rules
\* enabled in the table, unless the last reload failed to read it.
RulesTakeEffect ==
  (\A a \in Admins : apc[a] = "idle") /\ ~unlisted => DOMAIN installed = Enabled

\* fire_count of a rule is the number of its alerts, less those on their way and
\* those that were dropped or could not be read or recorded.
FiresAreCounted ==
  \A r \in DOMAIN table :
    table[r].fires + unrecorded[r]
      + Cardinality({k \in DOMAIN queue : queue[k].rule = r})
      + Cardinality({l \in Logs : held[l].rule = r})
      + (IF event.rule = r THEN 1 ELSE 0)
    = sent[r]

\* The queue of alerts moves on: a full queue does not silence alerting for good.
QueueMovesOn ==
  Len(queue) = AlertQueue ~> Len(queue) < AlertQueue
=============================================================================

-------------------------------- MODULE Life --------------------------------
(* The life of the process and the clock, which the devices and the        *)
(* sessions share.                                                         *)
EXTENDS Naturals

CONSTANTS
  MaxNow,      \* bound: the last instant
  MaxBoots     \* bound: lives of the process

ASSUME LifeAssumption == MaxNow \in Nat \ {0} /\ MaxBoots \in Nat

VARIABLES
  phase,    \* "down", "serving", or "draining": the server is done, the writer is not
  now,      \* the clock
  boots

lifeVars == <<phase, now, boots>>

\* The map f with v under k, as HashMap::insert leaves it.
Put(f, k, v) == [i \in DOMAIN f \cup {k} |-> IF i = k THEN v ELSE f[i]]

LifeInit == phase = "down" /\ now = 1 /\ boots = 0

Tick == now < MaxNow /\ now' = now + 1 /\ UNCHANGED <<phase, boots>>

\* Store::open and build_state have returned.
Start ==
  /\ phase = "down" /\ boots < MaxBoots
  /\ phase' = "serving" /\ boots' = boots + 1
  /\ UNCHANGED now

\* server.await has returned after a signal: no request is left, and none comes.
Served == phase = "serving" /\ phase' = "draining" /\ UNCHANGED <<now, boots>>

\* The writer was joined, and main returns.
End == phase = "draining" /\ phase' = "down" /\ UNCHANGED <<now, boots>>

Kill == phase # "down" /\ phase' = "down" /\ UNCHANGED <<now, boots>>
=============================================================================

------------------------------ MODULE Sessions ------------------------------
(***************************************************************************)
(* The sessions of the dashboard: a table in memory from session id to     *)
(* expiry, bounded, checked on every viewer request and purged now and     *)
(* then.  An id is random; here it is the number of the login.             *)
(***************************************************************************)
EXTENDS Life, Sequences, FiniteSets, Functions

CONSTANTS
  TTL,
  MaxSessions,
  MaxLogins     \* bound: successful logins in one life of the process

ASSUME SessionsAssumption == TTL \in Nat /\ MaxSessions \in Nat /\ MaxLogins \in Nat

VARIABLES
  sessions,   \* Sessions::inner: session to expiry
  minted,     \* history: when each session of this life was minted
  ended       \* history: those that were logged out

sessionsVars == <<sessions, minted, ended>>

SessionsInit == sessions = [s \in {} |-> 0] /\ minted = <<>> /\ ended = {}

Unexpired == Restrict(sessions, {s \in DOMAIN sessions : sessions[s] > now})

\* mutant: the limit is compared with the size before the insertion.
IsOver(table) == Cardinality(DOMAIN table) > MaxSessions

IsFull(table) == Cardinality(DOMAIN table) >= MaxSessions

\* mutant: a full table refuses at once and leaves the purge to the janitor.
Unpurged == sessions

\* A full table is purged before the login is refused.
Room == IF IsFull(sessions) THEN Unexpired ELSE sessions

\* The session a login mints.
NewSession == Len(minted) + 1

Mint ==
  /\ Len(minted) < MaxLogins /\ ~IsFull(Room)
  /\ sessions' = Put(Room, NewSession, now + TTL)
  /\ minted' = Append(minted, now)
  /\ UNCHANGED ended

Refuse ==
  /\ IsFull(Room)
  /\ sessions' = Room
  /\ UNCHANGED <<minted, ended>>

\* mutant: expiry is left to the janitor.
InTable(s) == s \in DOMAIN sessions

IsValid(s) == s \in DOMAIN sessions /\ sessions[s] > now

Revoke(s) ==
  /\ sessions' = Restrict(sessions, DOMAIN sessions \ {s})
  /\ ended' = ended \cup {s}
  /\ UNCHANGED minted

PurgeExpired == sessions' = Unexpired /\ UNCHANGED <<minted, ended>>

SessionsGone == sessions' = [s \in {} |-> 0] /\ minted' = <<>> /\ ended' = {}

----------------------------------------------------------------------------
(* Properties.                                                             *)

SessionsTypeOK ==
  /\ DOMAIN sessions \subseteq 1..Len(minted)
  /\ Cardinality(DOMAIN sessions) <= MaxSessions
  /\ \A s \in DOMAIN sessions : sessions[s] = minted[s] + TTL
  /\ minted \in Seq(1..MaxNow)
  /\ ended \subseteq 1..Len(minted)

\* The sessions that ought to be valid, by what happened to them.
OughtToBeValid == {s \in 1..Len(minted) : s \notin ended /\ now < minted[s] + TTL}

\* "How long a dashboard login lasts": a session is accepted from its login for
\* TTL, unless it logs out or the process ends, whatever the janitor and the
\* logins of others purge meanwhile.
SessionLasts == \A s \in 1..Len(minted) : IsValid(s) <=> s \in OughtToBeValid

\* A login is only refused while MaxSessions sessions are valid, however long the
\* janitor has not run.
RefusedOnlyWhenFull == IsFull(Room) => Cardinality(OughtToBeValid) >= MaxSessions
=============================================================================

------------------------------- MODULE Access -------------------------------
(***************************************************************************)
(* Who may do what: devices that authenticate with tokens, administrators  *)
(* that hold a session or the admin token, over one process that restarts. *)
(***************************************************************************)
EXTENDS Devices, Sessions

CONSTANT Scripts   \* the administrators that send the admin token; the others are browsers

\* The session each administrator's cookie names.  0 stands for no cookie, and
\* for one of an earlier life, which names nothing either.
VARIABLE cookie

vars == <<lifeVars, devicesVars, sessionsVars, cookie>>

Init == LifeInit /\ DevicesInit /\ SessionsInit /\ cookie = [a \in Admins |-> 0]

Login(a) ==
  /\ phase = "serving" /\ a \notin Scripts
  /\ \/ Mint /\ cookie' = [cookie EXCEPT ![a] = NewSession]
     \/ Refuse /\ UNCHANGED cookie
  /\ UNCHANGED <<lifeVars, devicesVars>>

Logout(a) ==
  /\ phase = "serving" /\ cookie[a] # 0
  /\ Revoke(cookie[a])
  /\ cookie' = [cookie EXCEPT ![a] = 0]
  /\ UNCHANGED <<lifeVars, devicesVars>>

Janitor ==
  /\ phase = "serving"
  /\ PurgeExpired
  /\ UNCHANGED <<lifeVars, devicesVars, cookie>>

\* is_authorised: the session first, then the admin token.
IsAuthorised(a) == IsValid(cookie[a]) \/ a \in Scripts

Work ==
  /\ \/ \E a \in Admins : IsAuthorised(a) /\ Begin(a)
     \/ \E a \in Admins : Proceed(a)
     \/ \E c \in Calls : Device(c)
     \/ Writer
  /\ UNCHANGED <<lifeVars, sessionsVars, cookie>>

Clock == Tick /\ UNCHANGED <<devicesVars, sessionsVars, cookie>>

Boot == Start /\ DevicesBoot /\ UNCHANGED <<sessionsVars, cookie>>

CookiesStale == cookie' = [a \in Admins |-> 0]

\* Nobody can present a session any more: main drops the state.
ServerDone == Served /\ NoRequests /\ SessionsGone /\ CookiesStale /\ UNCHANGED devicesVars

Exit == End /\ DevicesEnd /\ UNCHANGED <<sessionsVars, cookie>>

Crash == Kill /\ DevicesKilled /\ SessionsGone /\ CookiesStale

Next ==
  \/ \E a \in Admins : Login(a) \/ Logout(a)
  \/ Janitor
  \/ Work
  \/ Clock
  \/ Boot
  \/ ServerDone
  \/ Exit
  \/ Crash

Spec == Init /\ [][Next]_vars

TypeOK ==
  /\ DevicesTypeOK
  /\ SessionsTypeOK
  /\ cookie \in [Admins -> 0..Len(minted)]
=============================================================================

----------------------------- MODULE MCAlerting -----------------------------
(* Instances of Alerting for TLC.                                          *)
EXTENDS Alerting

\* Rule 1 needs two matches, rule 2 one; one time unit of window and cooldown.
Thresholds == <<2, 1>>
Ones == <<1, 1>>
\* Two instants, and the clock of a client that was never set.
Clock == {-2, 10, 11}

\* A clock, and a client whose own is far ahead of it.
FarApart == {10, 20}
=============================================================================

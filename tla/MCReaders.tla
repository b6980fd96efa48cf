------------------------------ MODULE MCReaders ------------------------------
(* Instances of Readers for TLC.                                           *)
EXTENDS Readers, TLC

CONSTANTS q1, q2

\* One query whose answer matters, beside one that uses the pool.
AllOf == q1 :> {"walk", "context", "stats"} @@ q2 :> {"count"}

\* Two rows of one device, and two of one tag.
Devices == <<1, 2, 2>>
Tags == <<1, 1, 2>>
=============================================================================

------------------------------ MODULE MCAccess ------------------------------
(* Instances of Access for TLC.                                            *)
EXTENDS Access, TLC
=============================================================================

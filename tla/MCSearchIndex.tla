--------------------------- MODULE MCSearchIndex ---------------------------
(* Instances of SearchIndex for TLC.                                       *)
EXTENDS SearchIndex
=============================================================================

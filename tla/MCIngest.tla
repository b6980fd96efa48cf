------------------------------ MODULE MCIngest ------------------------------
(* Instances of Ingest for TLC.                                            *)
EXTENDS Ingest, TLC

\* Batches that are empty, valid, refused, and longer than what a full queue takes.
Batches == {<<>>, <<TRUE>>, <<FALSE>>, <<TRUE, TRUE>>}
\* A batch of which the first record is taken before the second is refused.
HalfValid == {<<TRUE>>, <<TRUE, FALSE>>}
One == {<<TRUE>>}

Symmetry == Permutations(Requests)
=============================================================================

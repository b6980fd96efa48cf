----------------------------- MODULE MCLiveTail -----------------------------
(* Instances of LiveTail for TLC.                                          *)
EXTENDS LiveTail, TLC

Three == 1..3
Two == 1..2

AnyOrSettled ==
  {[cap |-> 2, use |-> "any"], [cap |-> 1, use |-> "settled"], [cap |-> 2, use |-> "settled"]}
Reconnecting == {[cap |-> 2, use |-> "in turn"]}

Symmetry == Permutations(Clients)
=============================================================================

------------------------- MODULE MCConcurrentTable -------------------------
(* Three addresses: two collide in the last item of the first array, so    *)
(* that a probe wraps, and the array grows when the third is put.          *)
EXTENDS ConcurrentTable, TLC

CONSTANTS ip1

MCKeys == {[port |-> p, ip |-> ip1] : p \in {0, 2, 5}}

Symmetry == Permutations(Receivers)
=============================================================================

---------------------------- MODULE MCOwnership ----------------------------
(* Instances of Ownership.  Clients, handlers and the memory of packets are  *)
(* model values that the specification only compares.                        *)
EXTENDS Ownership, TLC

Alike == Permutations(Memory) \cup Permutations(Clients) \cup Permutations(Handlers)
=============================================================================

----------------------------- MODULE MCHandler -----------------------------
(***************************************************************************)
(* Small instances of Handler for TLC.  The counter has 8 values, a window *)
(* 4 nodes and 3 packets, in the proportions of 256, 32 and 31, and the    *)
(* file is longer than the counter, so that every case of the wrap-around  *)
(* occurs.                                                                 *)
(***************************************************************************)
EXTENDS Handler, TLC

Symmetry == Permutations(Handlers)
=============================================================================

------------------------------ MODULE MCStream ------------------------------
(* The constants of Stream are model values, given in the configurations. *)
EXTENDS Stream
=============================================================================

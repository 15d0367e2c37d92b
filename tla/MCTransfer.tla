----------------------------- MODULE MCTransfer -----------------------------
(***************************************************************************)
(* A small instance of Transfer for TLC: one handler, requests as large as *)
(* the window, a file longer than the window.                              *)
(***************************************************************************)
EXTENDS Transfer, TLC
=============================================================================

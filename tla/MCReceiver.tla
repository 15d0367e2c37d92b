----------------------------- MODULE MCReceiver -----------------------------
(***************************************************************************)
(* Instances of Receiver.  Two of the addresses differ in the port only.   *)
(***************************************************************************)
EXTENDS Receiver, TLC

CONSTANTS r1, r2, h1, h2, A

TwoSenders == {<<A, 1>>, <<A, 2>>}

Setting(threads, seq, room, client, node, packets) ==
  [receivers |-> threads, sequential |-> seq, max_clients |-> room,
   ClientFails |-> client, NodeFails |-> node, MaxPackets |-> packets]

\* Two receivers, with room for one of the two senders or for both; -s; and -s
\* with failures.
MCSettings ==
  {Setting({r1, r2}, FALSE, 1, FALSE, TRUE, 2),
   Setting({r1, r2}, FALSE, 2, FALSE, FALSE, 2),
   Setting({r1}, TRUE, 2, FALSE, FALSE, 3),
   Setting({r1}, TRUE, 2, TRUE, TRUE, 3)}

HandlerSymmetry == Permutations({h1, h2})
=============================================================================

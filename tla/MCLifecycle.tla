---------------------------- MODULE MCLifecycle ----------------------------
(* Instances of Lifecycle: the sequential mode, and threads on one stream. *)
EXTENDS Lifecycle

OnOneStream(n, m, seq) ==
  [receive_num |-> n, handle_num |-> m, stream_count |-> 1,
   receive_streams |-> [i \in 1 .. n |-> 1],
   handle_streams |-> [i \in 1 .. m |-> 1], sequential |-> seq]

\* -s, and two threads of each kind without a streams.cfg.
MCSettings == {OnOneStream(1, 1, TRUE), OnOneStream(2, 2, FALSE)}

Anything ==
  {"socket", "rx_to_hd", "hd_to_rx", "clients", "rx_configs", "hd_configs",
   "rx_thread", "receiver", "hd_thread", "handler", "stop_mutex", "stop_cond",
   "decoded"}
=============================================================================

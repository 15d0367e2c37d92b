----------------------------- MODULE Dictionary -----------------------------
(***************************************************************************)
(* What headers/hash_table.h promises: a partial map from the addresses of *)
(* the peers to their clients.                                             *)
(***************************************************************************)
CONSTANTS Keys, Values, NULL

VARIABLE entries

Init == entries = [k \in Keys |-> NULL]

Put(k, v) == entries' = [entries EXCEPT ![k] = v]

Remove(k) == entries' = [entries EXCEPT ![k] = NULL]

Next == \E k \in Keys : Remove(k) \/ \E v \in Values : Put(k, v)

Spec == Init /\ [][Next]_entries
=============================================================================

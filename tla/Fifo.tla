-------------------------------- MODULE Fifo --------------------------------
(***************************************************************************)
(* What headers/stream.h promises of a stream: a first-in first-out queue. *)
(* A node that was put is handed out once, to one popper, in the order of  *)
(* the puts; it can be put again only after its popper has let go of it.   *)
(***************************************************************************)
EXTENDS Naturals, Sequences

CONSTANTS Nodes, Poppers, NULL

VARIABLES
  queue,  \* the nodes in the stream, oldest first
  got     \* what each popper was handed

vars == <<queue, got>>

Init ==
  /\ queue = <<>>
  /\ got = [p \in Poppers |-> NULL]

Put(n) ==
  /\ \A i \in 1..Len(queue) : queue[i] # n
  /\ \A p \in Poppers : got[p] # n
  /\ queue' = Append(queue, n)
  /\ UNCHANGED got

Get(p) ==
  /\ got[p] = NULL
  /\ queue # <<>>
  /\ got' = [got EXCEPT ![p] = Head(queue)]
  /\ queue' = Tail(queue)

Done(p) ==
  /\ got' = [got EXCEPT ![p] = NULL]
  /\ UNCHANGED queue

Next == (\E n \in Nodes : Put(n)) \/ (\E p \in Poppers : Get(p) \/ Done(p))

Spec == Init /\ [][Next]_vars
=============================================================================

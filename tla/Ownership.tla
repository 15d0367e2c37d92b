----------------------------- MODULE Ownership -----------------------------
(***************************************************************************)
(* Who owns what the program allocates for its clients: the parts of a     *)
(* client_t (src/client.c), the packets in the nodes of its window         *)
(* (src/buffer.c), and the packet each handler decodes into, which it      *)
(* swaps with that of a node instead of copying it (src/handler.c).  The   *)
(* packets thus move from window to window, through the handlers.          *)
(*                                                                         *)
(* The table lock lets one client be built at a time, the client lock one  *)
(* handler at a time into a window (modules Receiver and Handler).  main   *)
(* is taken not to free a client that a handler has: module Receiver shows *)
(* when it does.  A built client counts as registered although ht_put is a *)
(* critical section of its own; the client that a second receiver replaces *)
(* there (Receiver again) is not represented.  The requests and their      *)
(* nodes are in Receiver too.                                              *)
(***************************************************************************)
EXTENDS Integers

CONSTANTS
  Clients, Handlers,
  MAX_BUFFER_SIZE,     \* the nodes of a window
  Memory,              \* the packets there is memory for
  FailAt               \* the steps of initialize_client that may fail

ASSUME OwnershipAssumption == MAX_BUFFER_SIZE \in Nat \ {0}

VARIABLES
  live,       \* what is allocated, initialised or open
  building,   \* how far calloc and initialize_client are, for each client
  active,     \* client_t.active
  values,     \* the value of every node of every window
  used,       \* the nodes in use
  decoded,    \* the packet of each handler
  handling,   \* what each handler does: client, node, and how far it is
  locked,     \* client_t.lock
  stopping,   \* the receivers are gone
  wrong       \* something was freed that was not allocated

vars == <<live, building, active, values, used, decoded, handling, locked,
          stopping, wrong>>

Nodes == 1 .. MAX_BUFFER_SIZE
NULL == <<"null", 0>>
GARBAGE == <<"garbage", 0>>
Packets == {<<"packet", n>> : n \in Memory}

\* calloc and initialize_client, one acquisition after the other: the parts, a
\* packet for every node, and the address as text, which needs no memory.
Order == <<"client", "lock", "mutex", "out_file", "address", "window">>
Parts(c) == {<<part, c>> : part \in {Order[i] : i \in 1 .. 6} \cup {"end_time"}}
PacketSteps == 7 .. 6 + MAX_BUFFER_SIZE
LastStep == 7 + MAX_BUFFER_SIZE
Kind(n) == IF n <= 6 THEN Order[n] ELSE IF n < LastStep THEN "packets" ELSE "ip"

Absent == 0
Registered == LastStep

Idle == [at |-> "idle", client |-> 0, node |-> 0, temp |-> NULL]
Working(c) == [Idle EXCEPT !.at = "datagrams", !.client = c]

Init ==
  /\ \E f \in [Handlers -> Packets] :
       /\ \A g, h \in Handlers : g # h => f[g] # f[h]
       /\ decoded = f
       /\ live = {f[h] : h \in Handlers}
  /\ building = [c \in Clients |-> Absent]
  /\ active = [c \in Clients |-> FALSE]
  /\ values = [c \in Clients |-> [i \in Nodes |-> NULL]]
  /\ used = [c \in Clients |-> {}]
  /\ handling = [h \in Handlers |-> Idle]
  /\ locked = [c \in Clients |-> FALSE]
  /\ stopping = FALSE
  /\ wrong = FALSE

\* free, fclose and pthread_mutex_destroy: first what deallocate_buffer frees,
\* then the rest.
Release(buffer, rest) ==
  /\ live' = live \ (buffer \cup rest)
  /\ wrong' = (wrong \/ ~(buffer \cup rest \subseteq live) \/ buffer \cap rest # {})

\* The window of client c, whose nodes have the values v.
deallocate_buffer(c, v) ==
  ({v[i] : i \in Nodes} \ {NULL}) \cup {<<"window", c>>}
-----------------------------------------------------------------------------
(* The receiver creates a client *)

\* What malloc leaves in the values of a window's nodes.
Uninitialised == [Nodes -> {NULL, GARBAGE}]

\* One receiver at a time, which has the lock of the table.
MayBuild(c) ==
  /\ ~stopping
  /\ building[c] \in 0 .. LastStep - 1
  /\ \A d \in Clients \ {c} : building[d] \in {Absent, Registered}

Acquire(c) ==
  LET n == building[c] + 1
  IN /\ MayBuild(c)
     /\ building' = [building EXCEPT ![c] = n]
     /\ IF n \in PacketSteps
        THEN \E p \in Packets \ live :
               /\ live' = live \cup {p}
               /\ values' = [values EXCEPT ![c][n - 6] = p]
        ELSE /\ live' = IF n = LastStep THEN live ELSE live \cup {<<Order[n], c>>}
             /\ IF Kind(n) = "window"
                THEN \E v \in Uninitialised : values' = [values EXCEPT ![c] = v]
                ELSE UNCHANGED values
     /\ active' = [active EXCEPT ![c] = TRUE]
     /\ UNCHANGED <<used, decoded, handling, locked, stopping, wrong>>

Named(c, parts) == {<<part, c>> : part \in parts}

\* Mutant: the lock is not freed when the file cannot be created.
UndoKeepsLock(c, kind) ==
  CASE kind = "client" -> {}
    [] kind = "lock" -> Named(c, {"client"})
    [] kind = "mutex" -> Named(c, {"lock", "client"})
    [] kind = "out_file" -> Named(c, {"mutex", "client"})
    [] OTHER -> Named(c, {"address", "mutex", "lock", "client"})

\* What initialize_client itself frees when a step fails.
Undo(c, kind) ==
  CASE kind = "client" -> {}
    [] kind = "lock" -> Named(c, {"client"})
    [] kind = "mutex" -> Named(c, {"lock", "client"})
    [] kind = "out_file" -> Named(c, {"mutex", "lock", "client"})
    [] kind = "address" -> Named(c, {"mutex", "lock", "client"})
    [] kind = "window" -> Named(c, {"address", "mutex", "lock", "client"})
    [] kind = "packets" ->
         Named(c, {"address", "mutex", "lock", "window", "client"})
    [] kind = "ip" -> Named(c, {"address", "mutex", "lock", "client"})

\* Before, initialize_buffer or initialize_client calls deallocate_buffer; the
\* node whose packet could not be allocated is NULL.
UndoBuffer(c, n) ==
  CASE n \in PacketSteps ->
         deallocate_buffer(c, [values[c] EXCEPT ![n - 6] = NULL])
    [] n = LastStep -> deallocate_buffer(c, values[c])
    [] OTHER -> {}

\* The receiver keeps the lock of the table after a failure, and the program
\* gets stuck (module Receiver).  Here it goes on, so that the invariants also
\* cover what would follow.
AcquireFails(c) ==
  LET n == building[c] + 1
  IN /\ MayBuild(c)
     /\ Kind(n) \in FailAt
     /\ Release(UndoBuffer(c, n), Undo(c, Kind(n)))
     /\ building' = [building EXCEPT ![c] = Absent]
     /\ values' = [values EXCEPT ![c] = [i \in Nodes |-> NULL]]
     /\ active' = [active EXCEPT ![c] = FALSE]
     /\ UNCHANGED <<used, decoded, handling, locked, stopping>>
-----------------------------------------------------------------------------
(* A handler and a request of a client *)

\* Mutant: the handler does not wait for the lock of the client.
LockAnyway(h, c) ==
  /\ handling[h].at = "idle" /\ decoded[h] # NULL
  /\ building[c] = Registered
  /\ locked' = [locked EXCEPT ![c] = TRUE]
  /\ handling' = [handling EXCEPT ![h] = Working(c)]
  /\ UNCHANGED <<live, building, active, values, used, decoded, stopping, wrong>>

Lock(h, c) ==
  /\ handling[h].at = "idle" /\ decoded[h] # NULL
  /\ building[c] = Registered
  /\ ~locked[c]
  /\ locked' = [locked EXCEPT ![c] = TRUE]
  /\ handling' = [handling EXCEPT ![h] = Working(c)]
  /\ UNCHANGED <<live, building, active, values, used, decoded, stopping, wrong>>

\* A datagram is decoded and is_used is asked about its node.  All other
\* datagrams leave `decoded` where it is.
Accept(h, i) ==
  LET c == handling[h].client
  IN /\ handling[h].at = "datagrams"
     /\ active[c]
     /\ i \notin used[c]
     /\ handling' = [handling EXCEPT ![h].at = "accepted", ![h].node = i]
     /\ UNCHANGED <<live, building, active, values, used, decoded, locked,
                    stopping, wrong>>

\* next, and the first line of the swap.
Spot(h) ==
  LET c == handling[h].client
      i == handling[h].node
  IN /\ handling[h].at = "accepted"
     /\ used' = [used EXCEPT ![c] = @ \cup {i}]
     /\ handling' = [handling EXCEPT ![h].at = "spot", ![h].temp = values[c][i]]
     /\ UNCHANGED <<live, building, active, values, decoded, locked, stopping,
                    wrong>>

\* The rest of the swap.
Swap(h) ==
  LET c == handling[h].client
  IN /\ handling[h].at = "spot"
     /\ values' = [values EXCEPT ![c][handling[h].node] = decoded[h]]
     /\ decoded' = [decoded EXCEPT ![h] = handling[h].temp]
     /\ handling' = [handling EXCEPT ![h] = Working(c)]
     /\ UNCHANGED <<live, building, active, used, locked, stopping, wrong>>

\* The nodes that get returns are free again, even when the write fails; the
\* packets stay in them.
Write(h) ==
  LET c == handling[h].client
  IN /\ handling[h].at = "datagrams"
     /\ \E rest \in SUBSET used[c] : used' = [used EXCEPT ![c] = rest]
     /\ handling' = [handling EXCEPT ![h] = Idle]
     /\ locked' = [locked EXCEPT ![c] = FALSE]
     /\ UNCHANGED <<live, building, active, values, decoded, stopping, wrong>>

\* The end of the transfer is among them: the file is closed and end_time is
\* allocated.
Close(h) ==
  LET c == handling[h].client
  IN /\ handling[h].at = "datagrams"
     /\ active[c]
     /\ \E rest \in SUBSET used[c] \ {used[c]} : used' = [used EXCEPT ![c] = rest]
     /\ active' = [active EXCEPT ![c] = FALSE]
     /\ live' = (live \ {<<"out_file", c>>}) \cup {<<"end_time", c>>}
     /\ wrong' = (wrong \/ <<"out_file", c>> \notin live)
     /\ handling' = [handling EXCEPT ![h] = Idle]
     /\ locked' = [locked EXCEPT ![c] = FALSE]
     /\ UNCHANGED <<building, values, decoded, stopping>>

\* A stop request: the handler frees its packet and exits.
Stop(h) ==
  /\ stopping
  /\ handling[h].at = "idle" /\ decoded[h] # NULL
  /\ Release({}, {decoded[h]})
  /\ decoded' = [decoded EXCEPT ![h] = NULL]
  /\ UNCHANGED <<building, active, values, used, handling, locked, stopping>>
-----------------------------------------------------------------------------
(* main frees clients *)

\* Mutant: the file is closed whether the client is active or not.
CloseAlways(c) ==
  /\ Release(deallocate_buffer(c, values[c]),
             Named(c, {"lock", "mutex", "address", "client", "out_file"})
             \cup (IF active[c] THEN {} ELSE Named(c, {"end_time"})))
  /\ building' = [building EXCEPT ![c] = Absent]
  /\ values' = [values EXCEPT ![c] = [i \in Nodes |-> NULL]]
  /\ active' = [active EXCEPT ![c] = FALSE]
  /\ used' = [used EXCEPT ![c] = {}]

\* With dealloc_addr and close_file; end_time is there once the client is not
\* active.
deallocate_client(c) ==
  /\ Release(deallocate_buffer(c, values[c]),
             Named(c, {"lock", "mutex", "address", "client"})
             \cup Named(c, {IF active[c] THEN "out_file" ELSE "end_time"}))
  /\ building' = [building EXCEPT ![c] = Absent]
  /\ values' = [values EXCEPT ![c] = [i \in Nodes |-> NULL]]
  /\ active' = [active EXCEPT ![c] = FALSE]
  /\ used' = [used EXCEPT ![c] = {}]

\* The loop of main, 30 seconds after the end of the transfer.
Reap(c) ==
  /\ ~stopping
  /\ building[c] = Registered /\ ~active[c] /\ ~locked[c]
  /\ deallocate_client(c)
  /\ UNCHANGED <<decoded, handling, locked, stopping>>

\* SIGINT: the receivers end their round and are joined.
StopReceivers ==
  /\ ~stopping
  /\ \A c \in Clients : building[c] \in {Absent, Registered}
  /\ stopping' = TRUE
  /\ UNCHANGED <<live, building, active, values, used, decoded, handling, locked,
                 wrong>>

\* dealloc_ht, when the handlers are joined.
dealloc_ht(c) ==
  /\ stopping
  /\ \A h \in Handlers : decoded[h] = NULL
  /\ building[c] = Registered
  /\ deallocate_client(c)
  /\ UNCHANGED <<decoded, handling, locked, stopping>>
-----------------------------------------------------------------------------
Next ==
  \/ \E c \in Clients : Acquire(c) \/ AcquireFails(c) \/ Reap(c) \/ dealloc_ht(c)
  \/ \E h \in Handlers, c \in Clients : Lock(h, c)
  \/ \E h \in Handlers, i \in Nodes : Accept(h, i)
  \/ \E h \in Handlers : Spot(h) \/ Swap(h) \/ Write(h) \/ Close(h) \/ Stop(h)
  \/ StopReceivers

Spec == Init /\ [][Next]_vars
-----------------------------------------------------------------------------
(* Properties *)

\* The packet of node i of client c has been allocated.
HasPacket(c, i) == building[c] >= 6 + i

\* A packet that is in use is in one place, however often the handlers have
\* swapped it: what a handler decodes next overwrites no packet that waits in a
\* window, and a client that is freed takes no packet with it that another
\* client or a handler still has.
OneOwner ==
  /\ \A h \in Handlers : decoded[h] # NULL => decoded[h] \in live
  /\ \A c \in Clients, i \in Nodes : HasPacket(c, i) => values[c][i] \in live
  /\ \A g, h \in Handlers : decoded[g] = decoded[h] /\ decoded[g] # NULL => g = h
  /\ \A h \in Handlers, c \in Clients, i \in Nodes :
       HasPacket(c, i) => values[c][i] # decoded[h]
  /\ \A c, d \in Clients, i, j \in Nodes :
       HasPacket(c, i) /\ HasPacket(d, j) /\ values[c][i] = values[d][j]
         => c = d /\ i = j

\* Nothing is freed, closed or destroyed that is not allocated, open or
\* initialised at that moment.
FreedOnce == ~wrong

\* What is allocated can be reached: it belongs to a handler that runs, to a
\* registered client, or to the client that is being created.  At the end
\* nothing is left.
NothingLeaks ==
  live \subseteq
    {decoded[h] : h \in Handlers}
    \cup UNION {Parts(c) \cup {values[c][i] : i \in Nodes} :
                  c \in {x \in Clients : building[x] # Absent}}
=============================================================================

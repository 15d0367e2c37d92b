------------------------------ MODULE Receiver ------------------------------
(***************************************************************************)
(* The receivers of src/receiver.c, the clients they register in the table *)
(* they share, the requests they send to the handlers, and the loop of     *)
(* main that removes the clients whose transfer is over.                   *)
(*                                                                         *)
(* The receivers share one socket and one pair of streams.  The streams    *)
(* are queues (module Stream shows that they behave so) and the table is a *)
(* map (module HashTable).  A handler is reduced to what it does to a      *)
(* request and to the end of a transfer (module Handler has the rest).  A  *)
(* call that holds the lock of the table from its start to its end is one  *)
(* step; rx_run_once is one step per call it makes.                        *)
(***************************************************************************)
EXTENDS Integers, Sequences, FiniteSets, Functions

CONSTANTS
  Receivers, Handlers,  \* threads that can be started
  Addresses,            \* <<ip, port>>
  window_size,          \* datagrams per call of recvmmsg
  MAX_WINDOW_SIZE,      \* datagrams in one hd_req_t, 31 in the code
  Limit,                \* ages at which a client goes, 30 s in the code
  Rounds,               \* rounds between two removals, 10 in the code
  Settings,             \* the values of config
  MaxClients,           \* bound on the client_t ever allocated
  MaxNodes              \* bound on the s_node_t ever allocated

ASSUME ReceiverAssumption ==
  /\ IsFiniteSet(Receivers) /\ IsFiniteSet(Handlers)
  /\ window_size \in Nat \ {0} /\ MAX_WINDOW_SIZE \in Nat \ {0}
  /\ Limit \in Nat /\ Rounds \in Nat \ {0}
  /\ {MaxClients, MaxNodes} \subseteq Nat
  /\ \A c \in Settings :
       /\ c.max_clients \in Nat \ {0}
       /\ {c.sequential, c.ClientFails, c.NodeFails} \subseteq BOOLEAN
       /\ c.receivers \subseteq Receivers
       /\ c.sequential => \E r \in Receivers : c.receivers = {r}
       /\ c.MaxPackets \in Nat

VARIABLES
  config,    \* the settings, which allocations may fail, and bounds
  clients,   \* what is known of each client_t
  table,     \* the client registered for an address
  lock,      \* the thread that kept the lock of the table
  rx,        \* the locals of rx_run_once, for each receiver
  nodes,     \* the content of each s_node_t
  queue,     \* rx_to_hd: the nodes on their way to the handlers
  returned,  \* hd_to_rx: the nodes on their way back
  hd,        \* what each handler is doing
  reaper,    \* the removal loop of main
  turn,      \* whose turn it is in sequential mode
  received,  \* the datagrams received
  handled,   \* the datagrams handled for each address
  raced      \* ghost: addresses two receivers were about to create at once

vars == <<config, clients, table, lock, rx, nodes, queue, returned, hd, reaper, turn,
          received, handled, raced>>

max_clients == config.max_clients
Sequential == config.sequential
ClientFails == config.ClientFails  \* creating a client may fail
NodeFails == config.NodeFails      \* allocating a request may fail
Running == config.receivers        \* the receivers that were started
MaxPackets == config.MaxPackets    \* bound on the datagrams received

Clients == 1 .. MaxClients
Nodes == 1 .. MaxNodes
NULL == 0
Free == "free"

\* client_t.end_time: not there, allocated and not yet written, or written:
\* then its age, of which only the order with Limit matters.
NoTime == -2
Unwritten == -1

Kinds == {"data", "end", "bad length"}

Idle == [pc |-> "wait", batch |-> <<>>, i |-> 1, contained |-> NULL,
         node |-> NULL, req |-> NULL]

Init ==
  /\ config \in Settings
  /\ clients = [c \in Clients |-> [state |-> "none", address |-> NULL,
                                   active |-> FALSE, end_time |-> NoTime]]
  /\ table = [a \in Addresses |-> NULL]
  /\ lock = Free
  /\ rx = [r \in Receivers |-> Idle]
  /\ nodes = [n \in Nodes |-> [state |-> "none", client |-> NULL,
                               packets |-> <<>>]]
  /\ queue = <<>>
  /\ returned = <<>>
  /\ hd = [h \in Handlers |-> [pc |-> "wait", node |-> NULL]]
  /\ reaper = [pc |-> "sleep", doomed |-> {}, removed |-> NULL, count |-> 1]
  /\ turn = IF Sequential THEN "receive" ELSE "any"
  /\ received = <<>>
  /\ handled = [a \in Addresses |-> <<>>]
  /\ raced = {}

Turn(t) == turn \in {t, "any"}

\* What follows in the loop of the sequential mode.
Pass(t) == turn' = IF Sequential THEN t ELSE turn

registered == {c \in Clients : \E a \in Addresses : table[a] = c}
Length == Cardinality({a \in Addresses : table[a] # NULL})
stream_enqueue(stream, node) == Append(stream, node)
Unused == {n \in Nodes : nodes[n].state = "none"}
Unallocated == {c \in Clients : clients[c].state = "none"}
Fresh(S) == CHOOSE x \in S : TRUE
-----------------------------------------------------------------------------
(* rx_run_once *)

Message(r) == rx[r].batch[rx[r].i]
At(r, pc) == rx[r].pc = pc /\ Turn("receive")
From(a, packets) == SelectSeq(packets, LAMBDA p : p.from = a)
Total == Len(received)

\* recvmmsg fills some of the window_size buffers.
Receive(r) ==
  /\ At(r, "wait")
  /\ \E n \in 1 .. window_size :
       /\ Total + n <= MaxPackets
       /\ \E from \in [1 .. n -> Addresses], kind \in [1 .. n -> Kinds] :
            LET batch == [j \in 1 .. n |->
                            [from |-> from[j], seq |-> Total + j,
                             kind |-> kind[j]]]
            IN /\ rx' = [rx EXCEPT ![r].pc = "group", ![r].batch = batch]
               /\ received' = received \o batch
  /\ UNCHANGED <<clients, table, lock, nodes, queue, returned, hd, reaper,
                 turn, handled>>

\* Nothing arrived in time, or the call failed.
ReceiveNothing(r) ==
  /\ At(r, "wait")
  /\ Pass("handle")
  /\ UNCHANGED <<clients, table, lock, rx, nodes, queue, returned, hd, reaper,
                 received, handled>>

\* A mutant: the ports are not compared.
SameIp(r) ==
  /\ rx[r].contained # NULL
  /\ Message(r).from[1] = rx[r].batch[rx[r].i - 1].from[1]
  /\ rx[r].i <= MAX_WINDOW_SIZE

\* The sender of the previous datagram, which has a client, and room is left
\* in the request: only the index in the batch is looked at.
SameSender(r) ==
  LET i == rx[r].i
  IN /\ rx[r].contained # NULL
     /\ rx[r].batch[i].from = rx[r].batch[i - 1].from
     /\ i <= MAX_WINDOW_SIZE

\* A mutant: the request under construction is forgotten.
FlushNothing(r) == queue' = queue

\* Sends the request under construction, if there is one.
Flush(r) ==
  queue' = IF rx[r].node = NULL THEN queue
           ELSE stream_enqueue(queue, rx[r].node)

\* The head of the loop: the datagram belongs to the request under
\* construction, or that request is sent and the client is looked up.
Group(r) ==
  /\ At(r, "group")
  /\ rx[r].i <= Len(rx[r].batch)
  /\ \/ /\ SameSender(r)
        /\ rx' = [rx EXCEPT ![r].pc = "fill"]
        /\ UNCHANGED queue
     \/ /\ ~SameSender(r)
        /\ Flush(r)
        /\ rx' = [rx EXCEPT ![r].pc = "get", ![r].node = NULL]
  /\ UNCHANGED <<clients, table, lock, nodes, returned, hd, reaper, turn,
                 received, handled>>

\* ht_get
Get(r) ==
  /\ At(r, "get")
  /\ lock = Free
  /\ LET found == table[Message(r).from]
     IN rx' = [rx EXCEPT ![r].pc = IF found = NULL THEN "check" ELSE "node",
                         ![r].contained = found]
  /\ UNCHANGED <<clients, table, lock, nodes, queue, returned, hd, reaper,
                 turn, received, handled>>

Full == Length >= max_clients

\* No room for a new client: its datagram is ignored.
Refuse(r) ==
  /\ At(r, "check")
  /\ lock = Free
  /\ Full
  /\ rx' = [rx EXCEPT ![r].pc = "group", ![r].i = @ + 1]
  /\ UNCHANGED <<clients, table, lock, nodes, queue, returned, hd, reaper,
                 turn, received, handled>>

\* The client is created with the lock held, and inserted after its release.
Create(r) ==
  /\ At(r, "check")
  /\ lock = Free
  /\ ~Full
  /\ Unallocated # {}
  /\ LET c == Fresh(Unallocated)
     IN /\ clients' = [clients EXCEPT ![c] =
                         [state |-> "live", address |-> Message(r).from,
                          active |-> TRUE, end_time |-> NoTime]]
        /\ rx' = [rx EXCEPT ![r].pc = "put", ![r].contained = c]
  /\ UNCHANGED <<table, lock, nodes, queue, returned, hd, reaper, turn,
                 received, handled>>

\* calloc returns NULL: the rest of the batch is dropped, the lock is kept.
CallocFails(r) ==
  /\ ClientFails
  /\ At(r, "check")
  /\ lock = Free
  /\ ~Full
  /\ lock' = r
  /\ rx' = [rx EXCEPT ![r].pc = "end"]
  /\ UNCHANGED <<clients, table, nodes, queue, returned, hd, reaper, turn,
                 received, handled>>

\* A mutant: the result of initialize_client is not tested.
InitializeIgnored(r) ==
  /\ ClientFails
  /\ At(r, "check")
  /\ lock = Free /\ ~Full /\ Unallocated # {}
  /\ LET c == Fresh(Unallocated)
     IN /\ clients' = [clients EXCEPT ![c].state = "freed",
                                      ![c].address = Message(r).from]
        /\ rx' = [rx EXCEPT ![r].pc = "put", ![r].contained = c]
  /\ UNCHANGED <<table, lock, nodes, queue, returned, hd, reaper, turn,
                 received, handled>>

\* initialize_client fails and frees the client: contained still points to
\* it, the lock is kept, and the loop goes on with the next datagram.
InitializeFails(r) ==
  /\ ClientFails
  /\ At(r, "check")
  /\ lock = Free
  /\ ~Full
  /\ Unallocated # {}
  /\ LET c == Fresh(Unallocated)
     IN /\ clients' = [clients EXCEPT ![c].state = "freed",
                                      ![c].address = Message(r).from]
        /\ rx' = [rx EXCEPT ![r].pc = "group", ![r].i = @ + 1,
                            ![r].contained = c]
  /\ lock' = r
  /\ UNCHANGED <<table, nodes, queue, returned, hd, reaper, turn, received,
                 handled>>

\* A mutant: the client is not inserted.
PutNothing(r) ==
  /\ At(r, "put")
  /\ rx' = [rx EXCEPT ![r].pc = "node"]
  /\ UNCHANGED <<clients, table, lock, nodes, queue, returned, hd, reaper,
                 turn, received, handled>>

\* ht_put
Put(r) ==
  /\ At(r, "put")
  /\ lock = Free
  /\ table' = [table EXCEPT ![Message(r).from] = rx[r].contained]
  /\ rx' = [rx EXCEPT ![r].pc = "node"]
  /\ UNCHANGED <<clients, lock, nodes, queue, returned, hd, reaper, turn,
                 received, handled>>

\* An empty request; its client is set by rx_run_once.
allocate_handle_request ==
  [state |-> "request", client |-> NULL, packets |-> <<>>]

\* A request that came back is used again, else one is allocated.  Nodes that
\* come back have a content, so the code's test for that changes nothing.
TakeNode(r) ==
  /\ At(r, "node")
  /\ returned # <<>> \/ Unused # {}
  /\ LET n == IF returned # <<>> THEN Head(returned) ELSE Fresh(Unused)
     IN /\ nodes' = [nodes EXCEPT ![n] =
                       [allocate_handle_request EXCEPT !.client = rx[r].contained]]
        /\ rx' = [rx EXCEPT ![r].pc = "fill", ![r].node = n, ![r].req = n]
  /\ returned' = IF returned # <<>> THEN Tail(returned) ELSE returned
  /\ UNCHANGED <<clients, table, lock, queue, hd, reaper, turn, received,
                 handled>>

\* The content of a new node cannot be allocated: the node is sent without
\* one after the loop, and the rest of the batch is dropped.
NodeAllocationFails(r) ==
  /\ NodeFails
  /\ At(r, "node")
  /\ returned = <<>>
  /\ Unused # {}
  /\ LET n == Fresh(Unused)
     IN /\ nodes' = [nodes EXCEPT ![n].state = "no content"]
        /\ rx' = [rx EXCEPT ![r].pc = "end", ![r].node = n]
  /\ UNCHANGED <<clients, table, lock, queue, returned, hd, reaper, turn,
                 received, handled>>

\* The datagram is copied unless its length is wrong.  After a failed
\* initialize_client, req is the request sent before, or uninitialised.
Fill(r) ==
  /\ At(r, "fill")
  /\ \E n \in IF rx[r].req # NULL THEN {rx[r].req} ELSE Nodes :
       nodes' = IF Message(r).kind = "bad length" THEN nodes
                ELSE [nodes EXCEPT ![n].packets = Append(@, Message(r))]
  /\ rx' = [rx EXCEPT ![r].pc = "group", ![r].i = @ + 1]
  /\ UNCHANGED <<clients, table, lock, queue, returned, hd, reaper, turn,
                 received, handled>>

\* After the loop.
Finish(r) ==
  /\ \/ At(r, "end")
     \/ At(r, "group") /\ rx[r].i > Len(rx[r].batch)
  /\ Flush(r)
  /\ rx' = [rx EXCEPT ![r] = Idle]
  /\ Pass("handle")
  /\ UNCHANGED <<clients, table, lock, nodes, returned, hd, reaper, received,
                 handled>>
-----------------------------------------------------------------------------
(* hd_run_once *)

Request(h) == nodes[hd[h].node]

\* stream_pop, then the lock of the client.  In sequential mode main makes one
\* call after the other.
Take(h) ==
  /\ hd[h].pc = "wait" /\ Turn("handle")
  /\ Sequential => \A g \in Handlers : hd[g].pc = "wait"
  /\ queue # <<>>
  /\ hd' = [hd EXCEPT ![h] = [pc |-> "lock", node |-> Head(queue)]]
  /\ queue' = Tail(queue)
  /\ UNCHANGED <<clients, table, lock, rx, nodes, returned, reaper, turn,
                 received, handled>>

\* A node without content is freed.
Discard(h) ==
  /\ hd[h].pc = "lock"
  /\ Request(h).state = "no content"
  /\ nodes' = [nodes EXCEPT ![hd[h].node].state = "none"]
  /\ hd' = [hd EXCEPT ![h] = [pc |-> "wait", node |-> NULL]]
  /\ UNCHANGED <<clients, table, lock, rx, queue, returned, reaper, turn,
                 received, handled>>

\* The handler that holds the lock of a client.
Locks(c) ==
  {h \in Handlers : hd[h].pc \in {"malloc", "clock"} /\ Request(h).client = c}

\* The datagrams are handled under the lock of the client; the last one of a
\* transfer makes it inactive.  The handling of a request for a client that
\* was freed is undefined: here it changes nothing.
Handle(h) ==
  /\ hd[h].pc = "lock"
  /\ Request(h).state = "request"
  /\ LET c == Request(h).client
         packets == Request(h).packets
         ends == /\ clients[c].state = "live" /\ clients[c].active
                 /\ \E p \in Range(packets) : p.kind = "end"
     IN /\ Locks(c) = {}
        /\ clients' = IF ends THEN [clients EXCEPT ![c].active = FALSE]
                      ELSE clients
        /\ handled' = [a \in Addresses |-> handled[a] \o From(a, packets)]
        /\ hd' = [hd EXCEPT ![h].pc = IF ends THEN "malloc" ELSE "return"]
  /\ UNCHANGED <<table, lock, rx, nodes, queue, returned, reaper, turn,
                 received>>

\* client->end_time = malloc(...)
AllocateEndTime(h) ==
  /\ hd[h].pc = "malloc"
  /\ clients' = [clients EXCEPT ![Request(h).client].end_time = Unwritten]
  /\ hd' = [hd EXCEPT ![h].pc = "clock"]
  /\ UNCHANGED <<table, lock, rx, nodes, queue, returned, reaper, turn,
                 received, handled>>

\* clock_gettime(CLOCK_MONOTONIC, client->end_time)
WriteEndTime(h) ==
  /\ hd[h].pc = "clock"
  /\ clients' = [clients EXCEPT ![Request(h).client].end_time = 0]
  /\ hd' = [hd EXCEPT ![h].pc = "return"]
  /\ UNCHANGED <<table, lock, rx, nodes, queue, returned, reaper, turn,
                 received, handled>>

\* The lock is released and the node goes back to the receivers.
Return(h) ==
  /\ hd[h].pc = "return"
  /\ returned' = stream_enqueue(returned, hd[h].node)
  /\ hd' = [hd EXCEPT ![h] = [pc |-> "wait", node |-> NULL]]
  /\ UNCHANGED <<clients, table, lock, rx, nodes, queue, reaper, turn,
                 received, handled>>
-----------------------------------------------------------------------------
(* The loop of main *)

\* A mutant: one request is handled per round.
DrainedOnce ==
  /\ Sequential /\ turn = "handle"
  /\ \A h \in Handlers : hd[h].pc = "wait"
  /\ turn' = IF reaper.count = Rounds THEN "reap" ELSE "receive"
  /\ reaper' = [reaper EXCEPT !.count = (@ % Rounds) + 1]
  /\ UNCHANGED <<clients, table, lock, rx, nodes, queue, returned, hd,
                 received, handled>>

\* In sequential mode: no request is left, and every Rounds rounds the
\* clients are looked through.
Drained ==
  /\ Sequential /\ turn = "handle"
  /\ queue = <<>>
  /\ \A h \in Handlers : hd[h].pc = "wait"
  /\ turn' = IF reaper.count = Rounds THEN "reap" ELSE "receive"
  /\ reaper' = [reaper EXCEPT !.count = (@ % Rounds) + 1]
  /\ UNCHANGED <<clients, table, lock, rx, nodes, queue, returned, hd,
                 received, handled>>

\* A mutant: too early by one.
TimeIsUpEarly(age) == age >= Limit - 1

\* time_inactive > 30.0 in sequential mode, >= 30.0 with threads
TimeIsUp(age) == IF Sequential THEN age > Limit ELSE age >= Limit

Over(c) ==
  /\ ~clients[c].active
  /\ clients[c].end_time >= 0
  /\ TimeIsUp(clients[c].end_time)

\* Inactive, with an end_time of which the value is anything yet.
Unclear(c) == ~clients[c].active /\ clients[c].end_time = Unwritten

\* The registered clients are looked through with the lock held.
Collect ==
  /\ reaper.pc = "sleep" /\ Turn("reap")
  /\ lock = Free
  /\ \E S \in SUBSET {c \in registered : Unclear(c)} :
       reaper' = [reaper EXCEPT !.pc = "remove",
                    !.doomed = S \cup {c \in registered : Over(c)}]
  /\ UNCHANGED <<clients, table, lock, rx, nodes, queue, returned, hd, turn,
                 received, handled>>

\* ht_remove
RemoveFromTable ==
  /\ reaper.pc = "remove" /\ reaper.removed = NULL
  /\ lock = Free
  /\ \E c \in reaper.doomed :
       /\ table' = [table EXCEPT ![clients[c].address] = NULL]
       /\ reaper' = [reaper EXCEPT !.removed = c]
  /\ UNCHANGED <<clients, lock, rx, nodes, queue, returned, hd, turn, received,
                 handled>>

\* deallocate_client
Deallocate ==
  /\ reaper.removed # NULL
  /\ clients' = [clients EXCEPT ![reaper.removed].state = "freed"]
  /\ reaper' = [reaper EXCEPT !.doomed = @ \ {reaper.removed},
                              !.removed = NULL]
  /\ UNCHANGED <<table, lock, rx, nodes, queue, returned, hd, turn, received,
                 handled>>

\* sleep(1), or the next round.
Sleep ==
  /\ reaper.pc = "remove"
  /\ reaper.doomed = {}
  /\ reaper' = [reaper EXCEPT !.pc = "sleep"]
  /\ Pass("receive")
  /\ UNCHANGED <<clients, table, lock, rx, nodes, queue, returned, hd,
                 received, handled>>

\* The clock advances.
Tick ==
  /\ \E c \in Clients : clients[c].end_time \in 0 .. Limit
  /\ clients' = [c \in Clients |->
                   IF clients[c].end_time \in 0 .. Limit
                   THEN [clients[c] EXCEPT !.end_time = @ + 1]
                   ELSE clients[c]]
  /\ UNCHANGED <<table, lock, rx, nodes, queue, returned, hd, reaper, turn,
                 received, handled>>
-----------------------------------------------------------------------------
ReceiverStep(r) ==
  \/ Receive(r) \/ ReceiveNothing(r) \/ Group(r) \/ Get(r) \/ Refuse(r)
  \/ Create(r) \/ CallocFails(r) \/ InitializeFails(r) \/ Put(r)
  \/ TakeNode(r) \/ NodeAllocationFails(r) \/ Fill(r) \/ Finish(r)

HandlerStep(h) ==
  \/ Take(h) \/ Discard(h) \/ Handle(h) \/ AllocateEndTime(h)
  \/ WriteEndTime(h) \/ Return(h)

MainStep == Drained \/ Collect \/ RemoveFromTable \/ Deallocate \/ Sleep

\* The receivers that looked an address up in vain and have yet to insert it.
Creating(a) ==
  {r \in Running : rx[r].pc \in {"check", "put"} /\ Message(r).from = a}

Next ==
  /\ \/ \E r \in Running : ReceiverStep(r)
     \/ \E h \in Handlers : HandlerStep(h)
     \/ MainStep
     \/ Tick
  /\ UNCHANGED config
  /\ raced' = raced \cup {a \in Addresses : Cardinality(Creating(a)') > 1}

Spec == Init /\ [][Next]_vars
-----------------------------------------------------------------------------
(* Properties *)

\* At most one transfer is open for an address, although the look-up of the
\* address, the creation of its client and the insertion in the table are
\* separate critical sections of rx_run_once: unless two receivers were between
\* look-up and insertion for this address at the same time.
OneTransfer ==
  \A c, d \in Clients :
    /\ clients[c].state = "live" /\ clients[d].state = "live"
    /\ clients[c].active /\ clients[d].active
    /\ clients[c].address = clients[d].address
    /\ clients[c].address \notin raced
    => c = d

\* rx_run_once groups the datagrams of one sender: a request holds only
\* datagrams that come from the address of its client, and no more than hd_req_t
\* has room for, however many one call of recvmmsg returns.  (After a failed
\* initialize_client the code may add to a request that it has sent.)
RequestOfOneSender ==
  ~ClientFails => \A n \in Nodes :
    nodes[n].state = "request" =>
      /\ \A p \in Range(nodes[n].packets) :
           p.from = clients[nodes[n].client].address
      /\ Len(nodes[n].packets) <= MAX_WINDOW_SIZE

Places(n) ==
    Cardinality({j \in DOMAIN queue : queue[j] = n})
  + Cardinality({j \in DOMAIN returned : returned[j] = n})
  + Cardinality({r \in Receivers : rx[r].node = n})
  + Cardinality({h \in Handlers : hd[h].node = n})

\* A node is in one place: held by a receiver, queued, held by a handler, or
\* on its way back; a node that was freed is nowhere.
NodesOwned ==
  \A n \in Nodes : Places(n) = IF nodes[n].state = "none" THEN 0 ELSE 1

\* In sequential mode, where clients are removed when no request is left, a
\* request under construction, queued or in the hands of a handler has a client
\* that was not freed, even when the creation of clients fails.
RequestsLive ==
  Sequential => \A n \in Nodes :
    (/\ nodes[n].state = "request"
     /\ n \notin Range(returned)) => clients[nodes[n].client].state = "live"

\* The loop of main frees a client only when its transfer is over, and in
\* sequential mode only when it has been over for Limit.
FreedAfterLimit ==
  [][\A c \in Clients :
       clients[c].state = "live" /\ clients'[c].state = "freed" =>
         /\ ~clients[c].active
         /\ Sequential => clients[c].end_time >= Limit]_vars

Good(a) == SelectSeq(From(a, received), LAMBDA p : p.kind # "bad length")

Unhampered == Sequential /\ ~ClientFails /\ ~NodeFails

\* In sequential mode nothing is put off: whenever rx_run_once is about to wait
\* for datagrams, all well-formed ones that were received before are handled,
\* once each and in the order of their reception, across batches, requests,
\* nodes that come back and clients.
AllHandled ==
  Unhampered /\ turn = "receive" /\ (\A r \in Receivers : rx[r].pc = "wait") =>
    \A a \in Addresses : handled[a] = Good(a)
=============================================================================

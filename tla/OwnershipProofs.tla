-------------------------- MODULE OwnershipProofs --------------------------
(***************************************************************************)
(* Proofs for any number of clients, handlers, nodes and packets: OneOwner *)
(* holds whichever allocations fail.                                       *)
(***************************************************************************)
EXTENDS Ownership, TLAPS

Pointers == Packets \cup {NULL, GARBAGE}

Activities ==
  [at : {"idle", "datagrams", "accepted", "spot"}, client : Clients \cup {0},
   node : Nodes \cup {0}, temp : Pointers]

Types ==
  /\ building \in [Clients -> 0 .. LastStep]
  /\ values \in [Clients -> [Nodes -> Pointers]]
  /\ decoded \in [Handlers -> Packets \cup {NULL}]
  /\ handling \in [Handlers -> Activities]
  /\ locked \in [Clients -> BOOLEAN]

\* A handler that works on a client has its lock, alone, and a packet; the
\* client is registered.
HandlersHaveLocks ==
  /\ \A h \in Handlers : handling[h].at # "idle" =>
       /\ handling[h].client \in Clients
       /\ locked[handling[h].client]
       /\ building[handling[h].client] = Registered
       /\ decoded[h] # NULL
  /\ \A g, h \in Handlers :
       /\ handling[g].at # "idle" /\ handling[h].at # "idle"
       /\ handling[g].client = handling[h].client
       => g = h

\* In the middle of a swap `temp` is still the value of the node.
TempIsValue ==
  \A h \in Handlers :
    /\ handling[h].at \in {"accepted", "spot"} => handling[h].node \in Nodes
    /\ handling[h].at = "spot" =>
         handling[h].temp = values[handling[h].client][handling[h].node]

\* What has been allocated for a node is a packet, and the value of any other
\* node is no packet of anybody.
NodesHavePackets ==
  \A c \in Clients, i \in Nodes :
    IF HasPacket(c, i) THEN values[c][i] \in Packets
    ELSE values[c][i] \in {NULL, GARBAGE}

IInv ==
  /\ Types
  /\ HandlersHaveLocks
  /\ TempIsValue
  /\ NodesHavePackets
  /\ OneOwner

\* At the start only the handlers have packets, each its own.
LEMMA InitOwned == Init => IInv
<1> SUFFICES ASSUME Init PROVE IInv
  OBVIOUS
<1>1. PICK f \in [Handlers -> Packets] :
        /\ \A g, h \in Handlers : g # h => f[g] # f[h]
        /\ decoded = f
        /\ live = {f[h] : h \in Handlers}
  BY DEF Init
<1>2. Types
  BY <1>1, OwnershipAssumption
  DEF Init, Types, Activities, Idle, Pointers, Nodes, LastStep, Absent
<1>3. HandlersHaveLocks /\ TempIsValue
  BY DEF Init, HandlersHaveLocks, TempIsValue, Idle
<1>4. \A c \in Clients, i \in Nodes : ~HasPacket(c, i)
  BY OwnershipAssumption DEF Init, HasPacket, Nodes, Absent
<1>5. NodesHavePackets
  BY <1>4 DEF NodesHavePackets, Init
<1>6. OneOwner
  BY <1>1, <1>4 DEF OneOwner
<1> QED
  BY <1>2, <1>3, <1>5, <1>6 DEF IInv

\* Building a client adds packets that nobody has.
LEMMA AcquireOwned ==
  ASSUME IInv, NEW c \in Clients, Acquire(c)
  PROVE  IInv'
<1> DEFINE n == building[c] + 1
<1> USE DEF IInv
<1>1. /\ n \in 1 .. LastStep
      /\ building' = [building EXCEPT ![c] = n]
      /\ building[c] # Registered
      /\ UNCHANGED <<decoded, handling, locked>>
  BY OwnershipAssumption DEF Acquire, MayBuild, Types, Registered, LastStep
<1>2. \A h \in Handlers : handling[h].at # "idle" => handling[h].client # c
  BY <1>1 DEF HandlersHaveLocks
<1>3. CASE n \in PacketSteps
  <2>1. PICK p \in Packets \ live :
          /\ live' = live \cup {p}
          /\ values' = [values EXCEPT ![c][n - 6] = p]
    BY <1>3 DEF Acquire
  <2>2. n - 6 \in Nodes
    BY <1>3, <1>1, OwnershipAssumption DEF PacketSteps, Nodes
  <2>3. \A d \in Clients, i \in Nodes :
          HasPacket(d, i)' <=> HasPacket(d, i) \/ (d = c /\ i = n - 6)
    BY <1>1, <2>2, OwnershipAssumption DEF HasPacket, Types, Nodes, LastStep
  <2>4. \A d \in Clients, i \in Nodes :
          values'[d][i] = IF d = c /\ i = n - 6 THEN p ELSE values[d][i]
    BY <2>1, <2>2 DEF Types
  <2>5. p # NULL
    BY <2>1 DEF Packets, NULL
  <2>6. Types'
    BY <1>1, <2>1, <2>2 DEF Types, Pointers
  <2>7. HandlersHaveLocks'
    BY <1>1, <1>2 DEF HandlersHaveLocks, Types
  <2>8. TempIsValue'
    BY <1>1, <1>2, <2>4 DEF TempIsValue, HandlersHaveLocks
  <2>9. NodesHavePackets'
    BY <2>1, <2>3, <2>4 DEF NodesHavePackets
  <2>10. OneOwner'
    BY <1>1, <2>1, <2>3, <2>4, <2>5 DEF OneOwner
  <2> QED
    BY <2>6, <2>7, <2>8, <2>9, <2>10
<1>4. CASE n \notin PacketSteps
  <2>1. /\ live \subseteq live'
        /\ values' \in [Clients -> [Nodes -> Pointers]]
        /\ \A d \in Clients : d # c => values'[d] = values[d]
        /\ Kind(n) # "window" => values' = values
        /\ Kind(n) = "window" => \A i \in Nodes : values'[c][i] \in {NULL, GARBAGE}
    BY ZenonT(30), <1>4 DEF Acquire, Types, Uninitialised, Pointers
  <2>2. \A d \in Clients, i \in Nodes : HasPacket(d, i)' <=> HasPacket(d, i)
    BY <1>1, <1>4, OwnershipAssumption
    DEF HasPacket, Types, Nodes, LastStep, PacketSteps
  <2>3. \A d \in Clients, i \in Nodes :
          HasPacket(d, i) => values'[d][i] = values[d][i]
    <3>1. Kind(n) = "window" => n <= 6
      BY <1>1, OwnershipAssumption DEF Kind, LastStep
    <3>2. \A i \in Nodes : HasPacket(c, i) => n > 6
      BY OwnershipAssumption DEF HasPacket, Nodes, Types
    <3>3. (\E i \in Nodes : HasPacket(c, i)) => values' = values
      BY <1>1, <2>1, <3>1, <3>2, OwnershipAssumption DEF LastStep
    <3> QED
      BY <2>1, <3>3
  <2>4. Types'
    <3>1. building' \in [Clients -> 0 .. LastStep]
      BY <1>1, OwnershipAssumption DEF Types, LastStep
    <3> QED
      BY <1>1, <2>1, <3>1 DEF Types
  <2>5. HandlersHaveLocks'
    BY <1>1, <1>2 DEF HandlersHaveLocks, Types
  <2>6. TempIsValue'
    BY <1>1, <1>2, <2>1 DEF TempIsValue, HandlersHaveLocks
  <2>7. NodesHavePackets'
    BY <2>1, <2>2, <2>3 DEF NodesHavePackets
  <2>8. OneOwner'
    BY <1>1, <2>1, <2>2, <2>3 DEF OneOwner
  <2> QED
    BY <2>4, <2>5, <2>6, <2>7, <2>8
<1> QED
  BY <1>3, <1>4

\* A client that no handler works on goes, with what only it has.
LEMMA FreeOwned ==
  ASSUME IInv, NEW c \in Clients, NEW S,
         live' = live \ S,
         \A h \in Handlers : handling[h].at # "idle" => handling[h].client # c,
         \A h \in Handlers : decoded[h] # NULL => decoded[h] \notin S,
         \A d \in Clients, i \in Nodes :
           d # c /\ HasPacket(d, i) => values[d][i] \notin S,
         building' = [building EXCEPT ![c] = Absent],
         values' = [values EXCEPT ![c] = [i \in Nodes |-> NULL]],
         UNCHANGED <<decoded, handling, locked>>
  PROVE  IInv'
<1> USE DEF IInv
<1>1. \A d \in Clients, i \in Nodes : HasPacket(d, i)' <=> d # c /\ HasPacket(d, i)
  BY OwnershipAssumption DEF HasPacket, Types, Nodes, Absent
<1>2. \A d \in Clients, i \in Nodes :
        values'[d][i] = IF d = c THEN NULL ELSE values[d][i]
  BY DEF Types
<1>3. Types'
  BY OwnershipAssumption DEF Types, Pointers, Absent, LastStep
<1>4. HandlersHaveLocks'
  BY DEF HandlersHaveLocks, Types
<1>5. TempIsValue'
  BY <1>2 DEF TempIsValue, HandlersHaveLocks
<1>6. NodesHavePackets'
  BY <1>1, <1>2 DEF NodesHavePackets
<1>7. OneOwner'
  BY <1>1, <1>2 DEF OneOwner
<1> QED
  BY <1>3, <1>4, <1>5, <1>6, <1>7

\* The parts of a client are no packets.
LEMMA PartsAreNoPackets ==
  \A c, part : part # "packet" => <<part, c>> \notin Packets
BY DEF Packets

\* What deallocate_buffer frees of a client, node k excepted, is nobody else's.
LEMMA BufferIsOwn ==
  ASSUME IInv, NEW c \in Clients, NEW v \in [Nodes -> Pointers],
         \A i \in Nodes : v[i] = values[c][i] \/ v[i] = NULL
  PROVE  /\ \A h \in Handlers :
              decoded[h] # NULL => decoded[h] \notin deallocate_buffer(c, v)
         /\ \A d \in Clients, i \in Nodes : d # c /\ HasPacket(d, i) =>
              values[d][i] \notin deallocate_buffer(c, v)
<1> USE DEF IInv
<1>1. \A p \in Packets :
        p \in deallocate_buffer(c, v) =>
          \E i \in Nodes : HasPacket(c, i) /\ p = values[c][i]
  <2> SUFFICES ASSUME NEW p \in Packets, p \in deallocate_buffer(c, v)
               PROVE  \E i \in Nodes : HasPacket(c, i) /\ p = values[c][i]
    OBVIOUS
  <2>1. p # NULL /\ p # GARBAGE /\ p # <<"window", c>>
    BY DEF Packets, NULL, GARBAGE
  <2>2. PICK i \in Nodes : p = v[i]
    BY <2>1 DEF deallocate_buffer
  <2> QED
    BY <2>1, <2>2 DEF NodesHavePackets
<1>2. \A h \in Handlers : decoded[h] # NULL => decoded[h] \in Packets
  BY DEF Types
<1>3. \A d \in Clients, i \in Nodes : HasPacket(d, i) => values[d][i] \in Packets
  BY DEF NodesHavePackets
<1> QED
  BY <1>1, <1>2, <1>3 DEF OneOwner

\* A creation that fails, whichever step it fails at.
LEMMA AcquireFailsOwned ==
  ASSUME IInv, NEW c \in Clients, AcquireFails(c)
  PROVE  IInv'
<1> DEFINE n == building[c] + 1
           S == UndoBuffer(c, n) \cup Undo(c, Kind(n))
<1> USE DEF IInv
<1>1. /\ live' = live \ S
      /\ building' = [building EXCEPT ![c] = Absent]
      /\ values' = [values EXCEPT ![c] = [i \in Nodes |-> NULL]]
      /\ UNCHANGED <<decoded, handling, locked>>
  BY DEF AcquireFails, Release
<1>2. n \in 1 .. LastStep /\ building[c] # Registered
  BY OwnershipAssumption DEF AcquireFails, MayBuild, Types, Registered, LastStep
<1>3. \A h \in Handlers : handling[h].at # "idle" => handling[h].client # c
  BY <1>2 DEF HandlersHaveLocks
<1>4. \A p \in Packets : p \notin Undo(c, Kind(n))
  BY PartsAreNoPackets, <1>2, OwnershipAssumption
  DEF Undo, Named, Kind, Order, LastStep
<1>5. \/ UndoBuffer(c, n) = {}
      \/ \E v \in [Nodes -> Pointers] :
           /\ \A i \in Nodes : v[i] = values[c][i] \/ v[i] = NULL
           /\ UndoBuffer(c, n) = deallocate_buffer(c, v)
  <2>1. CASE n \in PacketSteps
    <3> DEFINE v == [values[c] EXCEPT ![n - 6] = NULL]
    <3>1. UndoBuffer(c, n) = deallocate_buffer(c, v)
      BY <2>1, OwnershipAssumption DEF UndoBuffer, PacketSteps, LastStep
    <3>2. v \in [Nodes -> Pointers] /\ \A i \in Nodes : v[i] = values[c][i] \/ v[i] = NULL
      BY DEF Types, Pointers
    <3> QED
      BY <3>1, <3>2
  <2>2. CASE n = LastStep
    <3>1. UndoBuffer(c, n) = deallocate_buffer(c, values[c])
      BY <2>2, OwnershipAssumption DEF UndoBuffer, PacketSteps, LastStep
    <3>2. values[c] \in [Nodes -> Pointers]
      BY DEF Types
    <3> QED
      BY <3>1, <3>2
  <2>3. CASE n \notin PacketSteps /\ n # LastStep
    BY <2>3 DEF UndoBuffer
  <2> QED
    BY <2>1, <2>2, <2>3
<1>6. \A h \in Handlers : decoded[h] # NULL => decoded[h] \in Packets
  BY DEF Types
<1>7. \A d \in Clients, i \in Nodes : HasPacket(d, i) => values[d][i] \in Packets
  BY DEF NodesHavePackets
<1>8. /\ \A h \in Handlers : decoded[h] # NULL => decoded[h] \notin S
      /\ \A d \in Clients, i \in Nodes :
           d # c /\ HasPacket(d, i) => values[d][i] \notin S
  BY <1>4, <1>5, <1>6, <1>7, BufferIsOwn
<1> HIDE DEF n, S
<1> QED
  BY <1>1, <1>3, <1>8, FreeOwned

\* deallocate_client, on a client that no handler works on.
LEMMA DeallocateOwned ==
  ASSUME IInv, NEW c \in Clients, deallocate_client(c),
         \A h \in Handlers : handling[h].at # "idle" => handling[h].client # c,
         UNCHANGED <<decoded, handling, locked>>
  PROVE  IInv'
<1> DEFINE Rest == Named(c, {"lock", "mutex", "address", "client"})
                   \cup Named(c, {IF active[c] THEN "out_file" ELSE "end_time"})
           S == deallocate_buffer(c, values[c]) \cup Rest
<1> USE DEF IInv
<1>1. /\ live' = live \ S
      /\ building' = [building EXCEPT ![c] = Absent]
      /\ values' = [values EXCEPT ![c] = [i \in Nodes |-> NULL]]
  BY DEF deallocate_client, Release
<1>2. \A p \in Packets : p \notin Rest
  BY PartsAreNoPackets DEF Named
<1>3. /\ \A h \in Handlers : decoded[h] # NULL => decoded[h] \in Packets
      /\ values[c] \in [Nodes -> Pointers]
  BY DEF Types
<1>4. \A d \in Clients, i \in Nodes : HasPacket(d, i) => values[d][i] \in Packets
  BY DEF NodesHavePackets
<1>5. /\ \A h \in Handlers : decoded[h] # NULL => decoded[h] \notin S
      /\ \A d \in Clients, i \in Nodes :
           d # c /\ HasPacket(d, i) => values[d][i] \notin S
  BY <1>2, <1>3, <1>4, BufferIsOwn
<1> HIDE DEF Rest, S
<1> QED
  BY <1>1, <1>5, FreeOwned

\* main frees a finished client.
LEMMA ReapOwned ==
  ASSUME IInv, NEW c \in Clients, Reap(c)
  PROVE  IInv'
<1>1. \A h \in Handlers : handling[h].at # "idle" => handling[h].client # c
  BY DEF Reap, IInv, HandlersHaveLocks
<1> QED
  BY <1>1, DeallocateOwned DEF Reap

\* The table is freed when the handlers are gone.
LEMMA TableOwned ==
  ASSUME IInv, NEW c \in Clients, dealloc_ht(c)
  PROVE  IInv'
<1>1. \A h \in Handlers : handling[h].at = "idle"
  BY DEF dealloc_ht, IInv, HandlersHaveLocks
<1> QED
  BY <1>1, DeallocateOwned DEF dealloc_ht

\* A handler gets the lock of a client.
LEMMA LockOwned ==
  ASSUME IInv, NEW h \in Handlers, NEW c \in Clients, Lock(h, c)
  PROVE  IInv'
<1> USE DEF IInv
<1>1. /\ handling' = [handling EXCEPT ![h] = Working(c)]
      /\ locked' = [locked EXCEPT ![c] = TRUE]
      /\ ~locked[c] /\ decoded[h] # NULL /\ building[c] = Registered
      /\ UNCHANGED <<live, building, values, decoded>>
  BY DEF Lock
<1>2. Working(c) \in Activities /\ Working(c).at = "datagrams" /\ Working(c).client = c
  BY DEF Working, Idle, Activities, Pointers
<1>3. Types'
  BY <1>1, <1>2 DEF Types
<1>4. HandlersHaveLocks'
  BY <1>1, <1>2 DEF HandlersHaveLocks, Types
<1>5. TempIsValue'
  BY <1>1, <1>2 DEF TempIsValue, Types
<1>6. NodesHavePackets' /\ OneOwner'
  BY <1>1 DEF NodesHavePackets, OneOwner, HasPacket
<1> QED
  BY <1>3, <1>4, <1>5, <1>6

\* A datagram is accepted for a node.
LEMMA AcceptOwned ==
  ASSUME IInv, NEW h \in Handlers, NEW i \in Nodes, Accept(h, i)
  PROVE  IInv'
<1> USE DEF IInv
<1>1. /\ handling' = [handling EXCEPT ![h].at = "accepted", ![h].node = i]
      /\ handling[h].at = "datagrams"
      /\ UNCHANGED <<live, building, values, decoded, locked>>
  BY DEF Accept
<1>2. Types'
  <2>1. [handling[h] EXCEPT !.at = "accepted", !.node = i] \in Activities
    BY DEF Types, Activities
  <2>2. handling' \in [Handlers -> Activities]
    BY <1>1, <2>1 DEF Types
  <2> QED
    BY <1>1, <2>2 DEF Types
<1>3. HandlersHaveLocks'
  BY <1>1 DEF HandlersHaveLocks, Types, Activities
<1>4. TempIsValue'
  BY <1>1 DEF TempIsValue, Types, Activities
<1>5. NodesHavePackets' /\ OneOwner'
  BY <1>1 DEF NodesHavePackets, OneOwner, HasPacket
<1> QED
  BY <1>2, <1>3, <1>4, <1>5

\* temp is read from the node.
LEMMA SpotOwned ==
  ASSUME IInv, NEW h \in Handlers, Spot(h)
  PROVE  IInv'
<1> USE DEF IInv
<1> DEFINE c == handling[h].client
           i == handling[h].node
<1>1. /\ handling' = [handling EXCEPT ![h].at = "spot", ![h].temp = values[c][i]]
      /\ handling[h].at = "accepted"
      /\ UNCHANGED <<live, building, values, decoded, locked>>
  BY DEF Spot
<1>2. c \in Clients /\ i \in Nodes
  BY <1>1 DEF HandlersHaveLocks, TempIsValue
<1>3. Types'
  <2>1. values[c][i] \in Pointers
    BY <1>2 DEF Types
  <2>2. [handling[h] EXCEPT !.at = "spot", !.temp = values[c][i]] \in Activities
    BY ZenonT(30), <2>1 DEF Types, Activities
  <2>3. handling' \in [Handlers -> Activities]
    BY <1>1, <2>2 DEF Types
  <2> QED
    BY <1>1, <2>3 DEF Types
<1>4. HandlersHaveLocks'
  BY <1>1 DEF HandlersHaveLocks, Types, Activities
<1>5. TempIsValue'
  BY <1>1, <1>2 DEF TempIsValue, Types, Activities
<1>6. NodesHavePackets' /\ OneOwner'
  BY <1>1 DEF NodesHavePackets, OneOwner, HasPacket
<1> QED
  BY <1>3, <1>4, <1>5, <1>6

\* The swap exchanges the owners of two packets.
LEMMA SwapOwned ==
  ASSUME IInv, NEW h \in Handlers, Swap(h)
  PROVE  IInv'
<1> USE DEF IInv
<1> DEFINE c == handling[h].client
           i == handling[h].node
<1>1. /\ handling[h].at = "spot"
      /\ values' = [values EXCEPT ![c][i] = decoded[h]]
      /\ decoded' = [decoded EXCEPT ![h] = handling[h].temp]
      /\ handling' = [handling EXCEPT ![h] = Working(c)]
      /\ UNCHANGED <<live, building, locked>>
  BY DEF Swap
<1>2. /\ c \in Clients /\ i \in Nodes
      /\ building[c] = Registered
      /\ handling[h].temp = values[c][i]
      /\ decoded[h] # NULL
  BY <1>1 DEF HandlersHaveLocks, TempIsValue
<1>3. HasPacket(c, i)
  BY <1>2, OwnershipAssumption DEF HasPacket, Registered, LastStep, Nodes
<1>4. values[c][i] \in Packets /\ decoded[h] \in Packets
  BY <1>2, <1>3 DEF NodesHavePackets, Types
<1>5. \A d \in Clients, j \in Nodes :
        /\ HasPacket(d, j)' <=> HasPacket(d, j)
        /\ values'[d][j] = IF d = c /\ j = i THEN decoded[h] ELSE values[d][j]
  BY <1>1, <1>2 DEF Types, HasPacket
<1>6. \A g \in Handlers : decoded'[g] = IF g = h THEN values[c][i] ELSE decoded[g]
  BY <1>1, <1>2 DEF Types
<1>7. Working(c) \in Activities /\ Working(c).at = "datagrams" /\ Working(c).client = c
  BY ZenonT(30), <1>2 DEF Working, Idle, Activities, Pointers
<1>8. Types'
  BY <1>1, <1>2, <1>4, <1>7, SMTT(30) DEF Types, Pointers
<1>9. HandlersHaveLocks'
  <2>1. values[c][i] # NULL
    BY <1>4, SMTT(30) DEF Packets, NULL
  <2> QED
    BY <1>1, <1>2, <1>6, <1>7, <2>1 DEF HandlersHaveLocks, Types
<1>10. TempIsValue'
  BY <1>1, <1>2, <1>5, <1>7 DEF TempIsValue, HandlersHaveLocks, Types
<1>11. NodesHavePackets'
  BY SMTT(30), <1>3, <1>4, <1>5 DEF NodesHavePackets
<1> HIDE DEF c, i
<1>12. OneOwner'
  <2>0. live' = live
    BY SMTT(30), <1>1
  <2>1. \A g \in Handlers : decoded'[g] # NULL => decoded'[g] \in live'
    BY SMTT(30), <2>0, <1>2, <1>3, <1>6 DEF OneOwner
  <2>2. \A d \in Clients, j \in Nodes :
          HasPacket(d, j)' => values'[d][j] \in live'
    BY <2>0, <1>2, <1>5 DEF OneOwner
  <2>3. \A f, g \in Handlers :
          decoded'[f] = decoded'[g] /\ decoded'[f] # NULL => f = g
    BY SMTT(30), <1>2, <1>3, <1>6 DEF OneOwner
  <2>4. \A g \in Handlers, d \in Clients, j \in Nodes :
          HasPacket(d, j)' => values'[d][j] # decoded'[g]
    BY <1>2, <1>3, <1>5, <1>6 DEF OneOwner
  <2>5. \A d, e \in Clients, j, k \in Nodes :
          HasPacket(d, j)' /\ HasPacket(e, k)' /\ values'[d][j] = values'[e][k]
            => d = e /\ j = k
    BY <1>2, <1>3, <1>5 DEF OneOwner
  <2> QED
    BY <2>1, <2>2, <2>3, <2>4, <2>5 DEF OneOwner
<1> QED
  BY <1>8, <1>9, <1>10, <1>11, <1>12

\* A handler gives the lock back, and the parts of the client may change.
LEMMA UnlockOwned ==
  ASSUME IInv, NEW h \in Handlers, handling[h].at = "datagrams",
         handling' = [handling EXCEPT ![h] = Idle],
         locked' = [locked EXCEPT ![handling[h].client] = FALSE],
         \A p \in Packets : p \in live => p \in live',
         UNCHANGED <<building, values, decoded>>
  PROVE  IInv'
<1> USE DEF IInv
<1>1. Idle \in Activities /\ Idle.at = "idle"
  BY DEF Idle, Activities, Pointers
<1>2. Types'
  BY <1>1 DEF Types
<1>3. HandlersHaveLocks'
  BY <1>1 DEF HandlersHaveLocks, Types
<1>4. TempIsValue'
  BY <1>1 DEF TempIsValue, Types
<1>5. NodesHavePackets'
  BY DEF NodesHavePackets, HasPacket
<1>6. OneOwner'
  <2>1. /\ \A g \in Handlers : decoded[g] # NULL => decoded[g] \in Packets
        /\ \A c \in Clients, i \in Nodes : HasPacket(c, i) => values[c][i] \in Packets
    BY DEF Types, NodesHavePackets
  <2>2. \A c \in Clients, i \in Nodes : HasPacket(c, i)' <=> HasPacket(c, i)
    BY DEF HasPacket
  <2> QED
    BY <2>1, <2>2 DEF OneOwner
<1> QED
  BY <1>2, <1>3, <1>4, <1>5, <1>6

\* A handler ends a request, or a transfer with it.
LEMMA WriteOwned ==
  ASSUME IInv, NEW h \in Handlers, Write(h) \/ Close(h)
  PROVE  IInv'
<1>1. CASE Write(h)
  BY <1>1, UnlockOwned DEF Write
<1>2. CASE Close(h)
  <2>1. \A p \in Packets : p # <<"out_file", handling[h].client>>
    BY PartsAreNoPackets
  <2> QED
    BY ZenonT(30), <1>2, <2>1, UnlockOwned DEF Close
<1> QED
  BY <1>1, <1>2

\* A handler stops and frees its packet.
LEMMA StopOwned ==
  ASSUME IInv, NEW h \in Handlers, Stop(h)
  PROVE  IInv'
<1> USE DEF IInv
<1>1. /\ live' = live \ {decoded[h]}
      /\ decoded' = [decoded EXCEPT ![h] = NULL]
      /\ handling[h].at = "idle" /\ decoded[h] # NULL
      /\ UNCHANGED <<building, values, handling, locked>>
  BY DEF Stop, Release
<1>2. \A g \in Handlers : decoded'[g] = IF g = h THEN NULL ELSE decoded[g]
  BY <1>1 DEF Types
<1>3. Types'
  BY <1>1 DEF Types
<1>4. HandlersHaveLocks'
  BY <1>1, <1>2 DEF HandlersHaveLocks
<1>5. TempIsValue' /\ NodesHavePackets'
  BY SMTT(30), <1>1 DEF TempIsValue, NodesHavePackets, HasPacket
<1>6. OneOwner'
  <2>1. \A c \in Clients, i \in Nodes : HasPacket(c, i)' <=> HasPacket(c, i)
    BY SMTT(30), <1>1 DEF HasPacket
  <2>2. \A c \in Clients, i \in Nodes : HasPacket(c, i) => values[c][i] # NULL
    BY SMTT(30) DEF NodesHavePackets, Packets, NULL
  <2> QED
    BY SMTT(30), <1>1, <1>2, <2>1, <2>2 DEF OneOwner
<1> QED
  BY <1>3, <1>4, <1>5, <1>6

\* Nothing changes that IInv speaks of.
LEMMA UnchangedOwned ==
  ASSUME IInv, UNCHANGED <<live, building, values, decoded, handling, locked>>
  PROVE  IInv'
BY DEF IInv, Types, HandlersHaveLocks, TempIsValue, NodesHavePackets, OneOwner,
       HasPacket

\* IInv holds in every state: hd_run_once, rx_run_once and main keep it.
THEOREM Owned == Spec => []IInv
<1>1. Init => IInv
  BY InitOwned
<1>2. IInv /\ [Next]_vars => IInv'
  <2> SUFFICES ASSUME IInv, [Next]_vars PROVE IInv'
    OBVIOUS
  <2>1. ASSUME NEW c \in Clients,
               Acquire(c) \/ AcquireFails(c) \/ Reap(c) \/ dealloc_ht(c)
        PROVE  IInv'
    BY <2>1, AcquireOwned, AcquireFailsOwned, ReapOwned, TableOwned
  <2>2. ASSUME NEW h \in Handlers, NEW c \in Clients, Lock(h, c)
        PROVE  IInv'
    BY <2>2, LockOwned
  <2>3. ASSUME NEW h \in Handlers, NEW i \in Nodes, Accept(h, i)
        PROVE  IInv'
    BY <2>3, AcceptOwned
  <2>4. ASSUME NEW h \in Handlers,
               Spot(h) \/ Swap(h) \/ Write(h) \/ Close(h) \/ Stop(h)
        PROVE  IInv'
    BY <2>4, SpotOwned, SwapOwned, WriteOwned, StopOwned
  <2>5. CASE StopReceivers
    BY <2>5, UnchangedOwned DEF StopReceivers
  <2>6. CASE UNCHANGED vars
    BY <2>6, UnchangedOwned DEF vars
  <2> QED
    BY <2>1, <2>2, <2>3, <2>4, <2>5, <2>6 DEF Next
<1> QED
  BY <1>1, <1>2, PTL DEF Spec

\* Each packet has one owner, for any number of clients, handlers and nodes,
\* and whichever steps of initialize_client fail.
THEOREM EachPacketHasOneOwner == Spec => []OneOwner
<1>1. IInv => OneOwner
  BY DEF IInv
<1> QED
  BY <1>1, Owned, PTL
=============================================================================

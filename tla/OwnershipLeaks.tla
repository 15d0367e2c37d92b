--------------------------- MODULE OwnershipLeaks ---------------------------
(***************************************************************************)
(* What is freed, and what is lost: nothing is freed twice or lost while   *)
(* initialize_client fails at most before the output file is open.  A      *)
(* failure after that loses the file, and the failure of a packet frees    *)
(* the window twice.                                                       *)
(***************************************************************************)
EXTENDS OwnershipProofs

Harmless == FailAt \subseteq {"client", "lock", "mutex", "out_file"}

\* A client is active from its creation to the end of its transfer.
ActiveWhile ==
  /\ active \in [Clients -> BOOLEAN]
  /\ \A c \in Clients :
       /\ building[c] = Absent => ~active[c]
       /\ building[c] \notin {Absent, Registered} => active[c]

\* Which parts of a client there are: those that have been acquired, and the
\* file while it is active, end_time afterwards.
LiveParts ==
  \A c \in Clients :
    /\ <<"client", c>> \in live <=> building[c] >= 1
    /\ <<"lock", c>> \in live <=> building[c] >= 2
    /\ <<"mutex", c>> \in live <=> building[c] >= 3
    /\ <<"out_file", c>> \in live <=> building[c] >= 4 /\ active[c]
    /\ <<"address", c>> \in live <=> building[c] >= 5
    /\ <<"window", c>> \in live <=> building[c] >= 6
    /\ <<"end_time", c>> \in live <=> building[c] = Registered /\ ~active[c]

\* What there is has an owner.
LiveIsOwned ==
  \A x \in live :
    \/ \E h \in Handlers : decoded[h] # NULL /\ x = decoded[h]
    \/ \E c \in Clients, i \in Nodes : HasPacket(c, i) /\ x = values[c][i]
    \/ \E c \in Clients : building[c] # Absent /\ x \in Parts(c)

LInv ==
  /\ IInv
  /\ ActiveWhile
  /\ LiveParts
  /\ LiveIsOwned
  /\ FreedOnce

\* The parts of a client, one by one.
LEMMA PartsAre ==
  ASSUME NEW c
  PROVE  Parts(c) = {<<"client", c>>, <<"lock", c>>, <<"mutex", c>>,
                     <<"out_file", c>>, <<"address", c>>, <<"window", c>>,
                     <<"end_time", c>>}
<1>1. {Order[i] : i \in 1 .. 6}
        = {"client", "lock", "mutex", "out_file", "address", "window"}
  BY DEF Order
<1> QED
  BY <1>1 DEF Parts

\* Absent and Registered are the ends of the range of building.
LEMMA Ends ==
  /\ Absent \in Int /\ Registered \in Int
  /\ Absent < 1 /\ Registered >= 8 /\ Absent # Registered
  /\ \A x \in 0 .. LastStep : x >= 1 \/ x = Absent
BY OwnershipAssumption DEF Absent, Registered, LastStep

\* At the start there are only the packets of the handlers.
LEMMA InitLeaks == Init => LInv
<1> SUFFICES ASSUME Init PROVE LInv
  OBVIOUS
<1>1. PICK f \in [Handlers -> Packets] :
        decoded = f /\ live = {f[h] : h \in Handlers}
  BY DEF Init
<1>2. live \subseteq Packets
  BY <1>1
<1>3. ActiveWhile /\ FreedOnce
  BY DEF Init, ActiveWhile, FreedOnce
<1>4. \A c, part : part # "packet" => <<part, c>> \notin live
  BY <1>2, PartsAreNoPackets
<1>5. LiveParts
  <2>1. building = [c \in Clients |-> Absent]
    BY DEF Init
  <2>2. \A c \in Clients :
          /\ <<"client", c>> \notin live /\ <<"lock", c>> \notin live
          /\ <<"mutex", c>> \notin live /\ <<"out_file", c>> \notin live
          /\ <<"address", c>> \notin live /\ <<"window", c>> \notin live
          /\ <<"end_time", c>> \notin live
    BY <1>4
  <2> QED
    <3> SUFFICES ASSUME NEW c \in Clients PROVE LiveParts!(c)
      BY DEF LiveParts
    <3>1. building[c] \in Int /\ building[c] < 1
      BY <2>1, Ends
    <3>2. /\ ~(building[c] >= 1) /\ ~(building[c] >= 2) /\ ~(building[c] >= 3)
          /\ ~(building[c] >= 4) /\ ~(building[c] >= 5) /\ ~(building[c] >= 6)
          /\ building[c] # Registered
      BY <3>1, Ends
    <3> QED
      BY <2>2, <3>2, Zenon
<1>6. LiveIsOwned
  <2>1. \A h \in Handlers : decoded[h] # NULL
    BY <1>1, SMTT(30) DEF Packets, NULL
  <2> QED
    BY <1>1, <2>1 DEF LiveIsOwned
<1> QED
  BY <1>3, <1>5, <1>6, InitOwned DEF LInv

\* Steps that neither free, allocate nor move anything.
LEMMA UnchangedLeaks ==
  ASSUME LInv, IInv',
         UNCHANGED <<live, building, active, values, decoded, wrong>>
  PROVE  LInv'
BY DEF LInv, ActiveWhile, LiveParts, LiveIsOwned, FreedOnce, HasPacket, Parts

\* A swap leaves every packet with an owner.
LEMMA SwapLeaks ==
  ASSUME LInv, IInv', NEW h \in Handlers, Swap(h)
  PROVE  LInv'
<1> DEFINE c == handling[h].client
           i == handling[h].node
<1>1. /\ handling[h].at = "spot"
      /\ values' = [values EXCEPT ![c][i] = decoded[h]]
      /\ decoded' = [decoded EXCEPT ![h] = handling[h].temp]
      /\ UNCHANGED <<live, building, active, wrong>>
  BY DEF Swap
<1>2. /\ c \in Clients /\ i \in Nodes
      /\ building[c] = Registered
      /\ handling[h].temp = values[c][i]
      /\ decoded[h] # NULL
  BY <1>1 DEF LInv, IInv, HandlersHaveLocks, TempIsValue
<1>3. HasPacket(c, i)
  BY <1>2, OwnershipAssumption DEF HasPacket, Registered, LastStep, Nodes
<1>4. values[c][i] # NULL
  BY <1>2, <1>3 DEF LInv, IInv, NodesHavePackets, Packets, NULL
<1>5. \A d \in Clients, j \in Nodes :
        /\ HasPacket(d, j)' <=> HasPacket(d, j)
        /\ values'[d][j] = IF d = c /\ j = i THEN decoded[h] ELSE values[d][j]
  BY <1>1, <1>2, SMTT(30) DEF LInv, IInv, Types, HasPacket
<1>6. \A g \in Handlers : decoded'[g] = IF g = h THEN values[c][i] ELSE decoded[g]
  BY <1>1, <1>2 DEF LInv, IInv, Types
<1>7. ActiveWhile' /\ LiveParts' /\ FreedOnce'
  BY <1>1, ZenonT(30) DEF LInv, ActiveWhile, LiveParts, FreedOnce
<1>8. LiveIsOwned'
  <2> SUFFICES ASSUME NEW x \in live
               PROVE  \/ \E g \in Handlers : decoded'[g] # NULL /\ x = decoded'[g]
                      \/ \E d \in Clients, j \in Nodes :
                           HasPacket(d, j)' /\ x = values'[d][j]
                      \/ \E d \in Clients : building[d] # Absent /\ x \in Parts(d)
    BY <1>1 DEF LiveIsOwned, Parts
  <2>1. CASE \E g \in Handlers : decoded[g] # NULL /\ x = decoded[g]
    BY <1>2, <1>3, <1>5, <1>6, <2>1
  <2>2. CASE \E d \in Clients, j \in Nodes : HasPacket(d, j) /\ x = values[d][j]
    BY <1>4, <1>5, <1>6, <2>2
  <2>3. CASE \E d \in Clients : building[d] # Absent /\ x \in Parts(d)
    BY <2>3
  <2> QED
    BY <2>1, <2>2, <2>3 DEF LInv, LiveIsOwned
<1> QED
  BY <1>7, <1>8 DEF LInv

\* A handler that stops frees its own packet, which nobody else has.
LEMMA StopLeaks ==
  ASSUME LInv, IInv', NEW h \in Handlers, Stop(h)
  PROVE  LInv'
<1>1. /\ live' = live \ {decoded[h]}
      /\ decoded' = [decoded EXCEPT ![h] = NULL]
      /\ decoded[h] # NULL /\ decoded[h] \in live
      /\ UNCHANGED <<building, active, values>>
  BY DEF Stop, Release, LInv, IInv, OneOwner
<1>2. ~wrong'
  BY <1>1 DEF Stop, Release, LInv, FreedOnce
<1>3. \A g \in Handlers : g # h => decoded'[g] = decoded[g]
  BY <1>1 DEF LInv, IInv, Types
<1>4. \A c, part : part # "packet" => <<part, c>> # decoded[h]
  <2>1. decoded[h] \in Packets
    BY <1>1 DEF LInv, IInv, Types
  <2> QED
    BY <2>1, PartsAreNoPackets
<1>5. \A c \in Clients :
        /\ <<"client", c>> # decoded[h] /\ <<"lock", c>> # decoded[h]
        /\ <<"mutex", c>> # decoded[h] /\ <<"out_file", c>> # decoded[h]
        /\ <<"address", c>> # decoded[h] /\ <<"window", c>> # decoded[h]
        /\ <<"end_time", c>> # decoded[h]
  BY <1>4
<1>6. LiveParts'
  BY <1>1, <1>5 DEF LInv, LiveParts
<1>7. LiveIsOwned'
  BY <1>1, <1>3 DEF LInv, LiveIsOwned, HasPacket, Parts
<1> QED
  BY <1>1, <1>2, <1>6, <1>7, SMTT(30) DEF LInv, ActiveWhile, FreedOnce

\* The end of a transfer replaces the file by end_time.
LEMMA CloseLeaks ==
  ASSUME LInv, IInv', NEW h \in Handlers, Close(h)
  PROVE  LInv'
<1> DEFINE c == handling[h].client
<1>1. /\ active[c]
      /\ active' = [active EXCEPT ![c] = FALSE]
      /\ live' = (live \ {<<"out_file", c>>}) \cup {<<"end_time", c>>}
      /\ wrong' = (wrong \/ <<"out_file", c>> \notin live)
      /\ UNCHANGED <<building, values, decoded>>
      /\ c \in Clients /\ building[c] = Registered
  BY DEF Close, LInv, IInv, HandlersHaveLocks
<1>2. building[c] >= 4 /\ building[c] # Absent
  BY <1>1, Ends
<1>3. <<"out_file", c>> \in live
  BY <1>1, <1>2 DEF LInv, LiveParts
<1>4. FreedOnce'
  BY <1>1, <1>3 DEF LInv, FreedOnce
<1>5. ActiveWhile'
  BY <1>1, <1>2 DEF LInv, ActiveWhile
<1>6. LiveParts'
  <2> SUFFICES ASSUME NEW d \in Clients PROVE LiveParts!(d)'
    BY DEF LiveParts
  <2>1. CASE d # c
    BY <1>1, <2>1 DEF LInv, LiveParts, ActiveWhile
  <2>2. CASE d = c
    BY <1>1, <1>2, <2>2 DEF LInv, LiveParts, ActiveWhile
  <2> QED
    BY <2>1, <2>2
<1>7. LiveIsOwned'
  <2>1. <<"end_time", c>> \in Parts(c)
    BY DEF Parts
  <2> QED
    BY <1>1, <1>2, <2>1 DEF LInv, LiveIsOwned, HasPacket, Parts
<1> QED
  BY <1>4, <1>5, <1>6, <1>7, SMTT(30) DEF LInv

\* The step a part is acquired at.
LEMMA OrderIs ==
  ASSUME NEW n \in 1 .. 6, NEW c
  PROVE  /\ <<"client", c>> = <<Order[n], c>> <=> n = 1
         /\ <<"lock", c>> = <<Order[n], c>> <=> n = 2
         /\ <<"mutex", c>> = <<Order[n], c>> <=> n = 3
         /\ <<"out_file", c>> = <<Order[n], c>> <=> n = 4
         /\ <<"address", c>> = <<Order[n], c>> <=> n = 5
         /\ <<"window", c>> = <<Order[n], c>> <=> n = 6
         /\ <<"end_time", c>> # <<Order[n], c>>
         /\ <<Order[n], c>> \in Parts(c)
         /\ <<Order[n], c>> \notin Packets
BY PartsAre, PartsAreNoPackets DEF Order

\* A step of calloc and initialize_client gives the new client one part more.
LEMMA AcquireLeaks ==
  ASSUME LInv, IInv', NEW c \in Clients, Acquire(c)
  PROVE  LInv'
<1> DEFINE m == building[c]
           n == m + 1
<1>1. /\ m \in 0 .. LastStep - 1
      /\ building' = [building EXCEPT ![c] = n]
      /\ active' = [active EXCEPT ![c] = TRUE]
      /\ UNCHANGED <<decoded, wrong>>
  BY DEF Acquire, MayBuild
<1>2. n # Absent /\ m # Registered /\ m \in Nat /\ n \in Nat
  BY <1>1, OwnershipAssumption DEF Absent, Registered, LastStep
<1>3. m # Absent => active[c]
  BY <1>2 DEF LInv, ActiveWhile
<1>4. ActiveWhile'
  BY <1>1, <1>2 DEF LInv, ActiveWhile, IInv, Types
<1>5. FreedOnce'
  BY <1>1 DEF LInv, FreedOnce
<1>6. \A d \in Clients : building'[d] = IF d = c THEN n ELSE building[d]
  BY <1>1 DEF LInv, IInv, Types
<1>7. CASE n \in PacketSteps
  <2>1. PICK p \in Packets \ live :
          /\ live' = live \cup {p}
          /\ values' = [values EXCEPT ![c][n - 6] = p]
    BY <1>7 DEF Acquire
  <2>2. PICK k \in Nodes : k = n - 6
    BY <1>7, <1>1, OwnershipAssumption, SMTT(30) DEF PacketSteps, Nodes
  <2>3. LiveParts'
    <3>1. \A d \in Clients :
            /\ <<"client", d>> # p /\ <<"lock", d>> # p /\ <<"mutex", d>> # p
            /\ <<"out_file", d>> # p /\ <<"address", d>> # p
            /\ <<"window", d>> # p /\ <<"end_time", d>> # p
      BY <2>1, PartsAreNoPackets
    <3>2. m >= 6 /\ n # Registered
      BY <1>1, <1>7, OwnershipAssumption DEF PacketSteps, Registered, LastStep
    <3> SUFFICES ASSUME NEW d \in Clients PROVE LiveParts!(d)'
      BY DEF LiveParts
    <3>3. CASE d # c
      BY <1>1, <2>1, <3>1, <3>3 DEF LInv, LiveParts, ActiveWhile, IInv, Types
    <3>4. CASE d = c
      <4>1. active[c] /\ active'[c] /\ building'[c] = n
        BY <1>1, <1>2, <1>3, <3>2, Ends DEF LInv, ActiveWhile, IInv, Types
      <4>2. LiveParts!(c)
        BY DEF LInv, LiveParts
      <4> HIDE DEF m, n
      <4> QED
        BY <1>2, <2>1, <3>1, <3>2, <3>4, <4>1, <4>2 DEF m, n
    <3> QED
      BY <3>3, <3>4
  <2>4. LiveIsOwned'
    <3>1. HasPacket(c, k)' /\ values'[c][k] = p
      <4>1. building'[c] >= 6 + k
        BY <1>2, <1>6, <2>2
      <4>2. values'[c][k] = p
        BY <2>1, <2>2 DEF LInv, IInv, Types
      <4> QED
        BY <4>1, <4>2 DEF HasPacket
    <3>2. \A d \in Clients, j \in Nodes : HasPacket(d, j) =>
            HasPacket(d, j)' /\ values'[d][j] = values[d][j]
      BY <1>2, <1>6, <2>1, <2>2, OwnershipAssumption
      DEF HasPacket, LInv, IInv, Types, Nodes
    <3>3. \A d \in Clients : building[d] # Absent => building'[d] # Absent
      BY <1>2, <1>6
    <3> QED
      BY <1>1, <2>1, <2>2, <3>1, <3>2, <3>3 DEF LInv, LiveIsOwned, Parts
  <2> QED
    BY <1>4, <1>5, <2>3, <2>4 DEF LInv
<1>8. CASE n \in 1 .. 6
  <2>1. live' = live \cup {<<Order[n], c>>}
    BY <1>8, OwnershipAssumption DEF Acquire, PacketSteps, LastStep
  <2>2. \A d \in Clients : d # c => \A part : <<part, d>> \in live' <=> <<part, d>> \in live
    BY <2>1
  <2>3. LiveParts'
    <3> SUFFICES ASSUME NEW d \in Clients PROVE LiveParts!(d)'
      BY DEF LiveParts
    <3>1. CASE d # c
      BY <1>1, <2>2, <3>1 DEF LInv, LiveParts, ActiveWhile, IInv, Types
    <3>2. CASE d = c
      <4>1. active'[c] /\ building'[c] = n /\ n # Registered
        BY <1>1, <1>6, <1>8, Ends DEF LInv, ActiveWhile
      <4>2. LiveParts!(c)
        BY DEF LInv, LiveParts
      <4>3. m >= 4 => active[c]
        BY <1>2, <1>3, Ends
      <4>4. /\ <<"client", c>> \in live' <=> m >= 1 \/ n = 1
            /\ <<"lock", c>> \in live' <=> m >= 2 \/ n = 2
            /\ <<"mutex", c>> \in live' <=> m >= 3 \/ n = 3
            /\ <<"out_file", c>> \in live' <=> m >= 4 \/ n = 4
            /\ <<"address", c>> \in live' <=> m >= 5 \/ n = 5
            /\ <<"window", c>> \in live' <=> m >= 6 \/ n = 6
            /\ <<"end_time", c>> \notin live'
        BY ZenonT(30), <1>2, <1>8, <2>1, <4>2, <4>3, OrderIs
      <4>5. /\ m >= 1 \/ n = 1 <=> n >= 1
            /\ m >= 2 \/ n = 2 <=> n >= 2
            /\ m >= 3 \/ n = 3 <=> n >= 3
            /\ m >= 4 \/ n = 4 <=> n >= 4
            /\ m >= 5 \/ n = 5 <=> n >= 5
            /\ m >= 6 \/ n = 6 <=> n >= 6
        BY <1>2, SMTT(30)
      <4> QED
        BY <3>2, <4>1, <4>4, <4>5
    <3> QED
      BY <3>1, <3>2
  <2>4. LiveIsOwned'
    <3>1. \A d \in Clients, j \in Nodes : HasPacket(d, j) =>
            HasPacket(d, j)' /\ values'[d][j] = values[d][j]
      <4>1. \A j \in Nodes : ~HasPacket(c, j)
        BY <1>2, <1>8, OwnershipAssumption DEF HasPacket, Nodes
      <4>2. \A d \in Clients : d # c => values'[d] = values[d]
        BY <1>8, OwnershipAssumption
        DEF Acquire, LInv, IInv, Types, PacketSteps, LastStep
      <4> QED
        BY <1>6, <4>1, <4>2 DEF HasPacket
    <3>2. \A d \in Clients : building[d] # Absent => building'[d] # Absent
      BY <1>2, <1>6, SMTT(30)
    <3>3. <<Order[n], c>> \in Parts(c) /\ building'[c] # Absent
      BY <1>2, <1>6, <1>8, OrderIs
    <3> QED
      BY <1>1, <2>1, <3>1, <3>2, <3>3 DEF LInv, LiveIsOwned, Parts
  <2> QED
    BY <1>4, <1>5, <2>3, <2>4 DEF LInv
<1>9. CASE n = LastStep
  <2>1. live' = live /\ values' = values
    BY <1>9, OwnershipAssumption, SMTT(30) DEF Acquire, PacketSteps, LastStep, Kind
  <2>2. LiveParts'
    <3> SUFFICES ASSUME NEW d \in Clients PROVE LiveParts!(d)'
      BY DEF LiveParts
    <3>1. CASE d # c
      BY <1>1, <2>1, <3>1 DEF LInv, LiveParts, ActiveWhile, IInv, Types
    <3>2. CASE d = c
      <4>1. active[c] /\ active'[c] /\ building'[c] = n /\ m >= 6
        BY <1>1, <1>2, <1>3, <1>6, <1>9, OwnershipAssumption
        DEF LInv, ActiveWhile, LastStep, Absent
      <4>2. LiveParts!(c)
        BY DEF LInv, LiveParts
      <4> QED
        BY <1>2, <2>1, <3>2, <4>1, <4>2
    <3> QED
      BY <3>1, <3>2
  <2>3. LiveIsOwned'
    <3>1. \A d \in Clients, j \in Nodes : HasPacket(d, j) => HasPacket(d, j)'
      <4>1. \A d \in Clients : d # c => building'[d] = building[d]
        BY <1>6
      <4>2. \A j \in Nodes : m >= 6 + j => n >= 6 + j
        BY <1>2, OwnershipAssumption DEF Nodes
      <4>3. building'[c] = n
        BY <1>6
      <4> QED
        BY <4>1, <4>2, <4>3 DEF HasPacket
    <3>2. \A d \in Clients : building[d] # Absent => building'[d] # Absent
      BY <1>2, <1>6
    <3> QED
      BY <1>1, <2>1, <3>1, <3>2 DEF LInv, LiveIsOwned, Parts
  <2> QED
    BY <1>4, <1>5, <2>2, <2>3 DEF LInv
<1>10. n \in PacketSteps \/ n \in 1 .. 6 \/ n = LastStep
  BY <1>1, OwnershipAssumption DEF PacketSteps, LastStep
<1> QED
  BY <1>7, <1>8, <1>9, <1>10

\* A client goes with all its parts and packets, and with nothing else.
LEMMA FreeLeaks ==
  ASSUME LInv, IInv', NEW c \in Clients, NEW S,
         live' = live \ S, ~wrong',
         \A x \in Parts(c) : x \in live => x \in S,
         \A i \in Nodes : HasPacket(c, i) => values[c][i] \in S,
         \A d \in Clients : d # c => \A x \in Parts(d) : x \notin S,
         building' = [building EXCEPT ![c] = Absent],
         values' = [values EXCEPT ![c] = [i \in Nodes |-> NULL]],
         active' = [active EXCEPT ![c] = FALSE],
         UNCHANGED decoded
  PROVE  LInv'
<1>1. ActiveWhile'
  BY Ends DEF LInv, ActiveWhile, IInv, Types
<1>2. \A d \in Clients : d # c =>
        building'[d] = building[d] /\ active'[d] = active[d] /\ values'[d] = values[d]
  BY SMTT(30) DEF LInv, ActiveWhile, IInv, Types
<1>3. LiveParts'
  <2> SUFFICES ASSUME NEW d \in Clients PROVE LiveParts!(d)'
    BY DEF LiveParts
  <2>1. CASE d # c
    <3>1. \A x \in Parts(d) : x \in live' <=> x \in live
      BY <2>1, SMTT(30)
    <3>2. LiveParts!(d)
      BY DEF LInv, LiveParts
    <3> QED
      BY <1>2, <2>1, <3>1, <3>2, PartsAre, SMTT(30)
  <2>2. CASE d = c
    <3>1. \A x \in Parts(d) : x \notin live'
      BY <2>2
    <3>2. building'[d] \in Int /\ building'[d] < 1
      BY <2>2, Ends DEF LInv, IInv, Types
    <3>3. /\ ~(building'[d] >= 1) /\ ~(building'[d] >= 2) /\ ~(building'[d] >= 3)
          /\ ~(building'[d] >= 4) /\ ~(building'[d] >= 5) /\ ~(building'[d] >= 6)
          /\ building'[d] # Registered
      BY <3>2, Ends
    <3> QED
      BY <3>1, <3>3, PartsAre
  <2> QED
    BY <2>1, <2>2, SMTT(30)
<1>4. LiveIsOwned'
  <2>1. \A d \in Clients, i \in Nodes :
          d # c => (HasPacket(d, i)' <=> HasPacket(d, i))
    BY <1>2, SMTT(30) DEF HasPacket
  <2>2. ASSUME NEW x, x \in live'
        PROVE  LiveIsOwned!(x)'
    <3>1. CASE \E h \in Handlers : decoded[h] # NULL /\ x = decoded[h]
      BY <3>1, SMTT(30)
    <3>2. CASE \E d \in Clients, i \in Nodes : HasPacket(d, i) /\ x = values[d][i]
      BY <1>2, <2>1, <2>2, <3>2, SMTT(30)
    <3>3. CASE \E d \in Clients : building[d] # Absent /\ x \in Parts(d)
      BY <1>2, <2>2, <3>3, SMTT(30) DEF Parts
    <3> QED
      BY <2>2, <3>1, <3>2, <3>3, SMTT(30) DEF LInv, LiveIsOwned
  <2> QED
    BY <2>2 DEF LiveIsOwned
<1> QED
  BY <1>1, <1>3, <1>4 DEF LInv, FreedOnce

\* Before the output file is open, initialize_client undoes what it has done.
LEMMA AcquireFailsLeaks ==
  ASSUME Harmless, LInv, IInv', NEW c \in Clients, AcquireFails(c)
  PROVE  LInv'
<1> DEFINE m == building[c]
           n == m + 1
           S == Undo(c, Kind(n))
<1>1. m \in Nat /\ n \in Nat /\ n \in 1 .. LastStep
  BY OwnershipAssumption DEF AcquireFails, MayBuild, LastStep
<1>2. n \in 1 .. 4
  <2>1. Kind(n) \in {"client", "lock", "mutex", "out_file"}
    BY DEF AcquireFails, Harmless
  <2> QED
    BY <1>1, <2>1, OwnershipAssumption DEF Kind, LastStep, Order
<1>3. UndoBuffer(c, n) = {}
  BY <1>2, OwnershipAssumption DEF UndoBuffer, PacketSteps, LastStep
<1>4. Kind(n) = Order[n]
  BY <1>2 DEF Kind
<1>5. /\ <<"client", c>> \in S <=> n >= 2
      /\ <<"lock", c>> \in S <=> n >= 3
      /\ <<"mutex", c>> \in S <=> n >= 4
      /\ S \subseteq {<<"client", c>>, <<"lock", c>>, <<"mutex", c>>}
  <2>1. CASE n = 1
    BY <2>1, <1>4 DEF Undo, Order
  <2>2. CASE n = 2
    BY <2>2, <1>4 DEF Undo, Order, Named
  <2>3. CASE n = 3
    BY <2>3, <1>4 DEF Undo, Order, Named
  <2>4. CASE n = 4
    BY <2>4, <1>4, SMTT(30) DEF Undo, Order, Named
  <2> QED
    BY <1>2, <2>1, <2>2, <2>3, <2>4
<1>6. /\ <<"client", c>> \in live <=> m >= 1
      /\ <<"lock", c>> \in live <=> m >= 2
      /\ <<"mutex", c>> \in live <=> m >= 3
      /\ <<"out_file", c>> \notin live /\ <<"address", c>> \notin live
      /\ <<"window", c>> \notin live /\ <<"end_time", c>> \notin live
  <2>1. LiveParts!(c)
    BY DEF LInv, LiveParts
  <2>2. ~(m >= 4) /\ ~(m >= 5) /\ ~(m >= 6) /\ m # Registered
    BY <1>1, <1>2, Ends
  <2> QED
    BY <2>1, <2>2, SMTT(30)
<1>7. (m >= 1 <=> n >= 2) /\ (m >= 2 <=> n >= 3) /\ (m >= 3 <=> n >= 4)
  BY <1>1
<1>8. S \subseteq live
  BY <1>5, <1>6, <1>7
<1>9. \A x \in Parts(c) : x \in live => x \in S
  BY <1>5, <1>6, <1>7, PartsAre
<1>10. \A i \in Nodes : ~HasPacket(c, i)
  BY <1>1, <1>2, OwnershipAssumption DEF HasPacket, Nodes
<1>11. \A d \in Clients : d # c => \A x \in Parts(d) : x \notin S
  BY <1>5, PartsAre, SMTT(30)
<1>12. live' = live \ S /\ ~wrong'
  BY <1>3, <1>8 DEF AcquireFails, Release, LInv, FreedOnce
<1> HIDE DEF S
<1> QED
  BY <1>9, <1>10, <1>11, <1>12, FreeLeaks DEF AcquireFails

\* deallocate_client frees what a registered client has, each thing once.
LEMMA DeallocateLeaks ==
  ASSUME LInv, IInv', NEW c \in Clients, deallocate_client(c),
         building[c] = Registered, UNCHANGED decoded
  PROVE  LInv'
<1> DEFINE Last == IF active[c] THEN "out_file" ELSE "end_time"
           Rest == {<<"lock", c>>, <<"mutex", c>>, <<"address", c>>,
                    <<"client", c>>, <<Last, c>>}
           Packs == deallocate_buffer(c, values[c])
           S == Packs \cup Rest
<1>1. Named(c, {"lock", "mutex", "address", "client"}) \cup Named(c, {Last}) = Rest
  BY DEF Named
<1>2. \A i \in Nodes : HasPacket(c, i)
  BY OwnershipAssumption DEF HasPacket, Registered, LastStep, Nodes
<1>3. \A i \in Nodes :
        values[c][i] \in Packets /\ values[c][i] \in live /\ values[c][i] # NULL
  <2>1. \A i \in Nodes : values[c][i] \in Packets
    BY <1>2, Zenon DEF LInv, IInv, NodesHavePackets
  <2>2. \A i \in Nodes : values[c][i] \in live
    BY <1>2, Zenon DEF LInv, IInv, OneOwner
  <2>3. \A x \in Packets : x # NULL
    BY DEF Packets, NULL
  <2> QED
    BY <2>1, <2>2, <2>3, Zenon
<1>4. Packs = {values[c][i] : i \in Nodes} \cup {<<"window", c>>}
  BY <1>3, SMTT(30) DEF deallocate_buffer
<1>5. /\ <<"lock", c>> \in live /\ <<"mutex", c>> \in live
      /\ <<"address", c>> \in live /\ <<"client", c>> \in live
      /\ <<"window", c>> \in live /\ <<Last, c>> \in live
      /\ active[c] => <<"end_time", c>> \notin live
      /\ ~active[c] => <<"out_file", c>> \notin live
  <2>1. LiveParts!(c)
    BY DEF LInv, LiveParts
  <2>2. /\ building[c] >= 1 /\ building[c] >= 2 /\ building[c] >= 3
        /\ building[c] >= 4 /\ building[c] >= 5 /\ building[c] >= 6
    BY Ends
  <2> QED
    BY <2>1, <2>2
<1>6. S \subseteq live
  BY <1>3, <1>4, <1>5
<1>7. \A x \in Rest : x \notin Packets /\ x # <<"window", c>>
  BY PartsAreNoPackets
<1>8. Packs \cap Rest = {}
  BY <1>3, <1>4, <1>7, SMTT(30)
<1>9. live' = live \ S /\ ~wrong'
  <2>1. /\ live' = live \ (Packs \cup Rest)
        /\ wrong' = (wrong \/ ~(Packs \cup Rest \subseteq live) \/ Packs \cap Rest # {})
    BY <1>1 DEF deallocate_client, Release
  <2> QED
    BY <1>6, <1>8, <2>1 DEF LInv, FreedOnce
<1>10. \A x \in Parts(c) : x \in live => x \in S
  BY <1>4, <1>5, PartsAre
<1>11. \A d \in Clients : d # c => \A x \in Parts(d) : x \notin S
  <2>1. \A d \in Clients : \A x \in Parts(d) : x \notin Packets
    BY PartsAre, PartsAreNoPackets
  <2> QED
    BY <1>3, <1>4, <2>1, PartsAre
<1>12. \A i \in Nodes : values[c][i] \in S
  BY <1>4
<1> HIDE DEF S
<1> QED
  BY <1>9, <1>10, <1>11, <1>12, FreeLeaks, ZenonT(30) DEF deallocate_client

\* LInv holds in every state, while initialize_client fails only before the
\* output file is open.
THEOREM Leakless ==
  ASSUME Harmless
  PROVE  Spec => []LInv
<1>1. Init => LInv
  BY InitLeaks
<1>2. LInv /\ IInv' /\ [Next]_vars => LInv'
  <2> SUFFICES ASSUME LInv, IInv', [Next]_vars PROVE LInv'
    OBVIOUS
  <2>1. ASSUME NEW c \in Clients, Acquire(c) \/ AcquireFails(c)
        PROVE  LInv'
    BY <2>1, AcquireLeaks, AcquireFailsLeaks
  <2>2. ASSUME NEW c \in Clients, Reap(c) \/ dealloc_ht(c)
        PROVE  LInv'
    BY <2>2, DeallocateLeaks, SMTT(30) DEF Reap, dealloc_ht
  <2>3. ASSUME NEW h \in Handlers, NEW c \in Clients, Lock(h, c)
        PROVE  LInv'
    BY <2>3, UnchangedLeaks DEF Lock
  <2>4. ASSUME NEW h \in Handlers, NEW i \in Nodes, Accept(h, i)
        PROVE  LInv'
    BY <2>4, UnchangedLeaks DEF Accept
  <2>5. ASSUME NEW h \in Handlers, Spot(h) \/ Write(h)
        PROVE  LInv'
    BY <2>5, UnchangedLeaks DEF Spot, Write
  <2>6. ASSUME NEW h \in Handlers, Swap(h) \/ Close(h) \/ Stop(h)
        PROVE  LInv'
    BY <2>6, SwapLeaks, CloseLeaks, StopLeaks
  <2>7. CASE StopReceivers
    BY <2>7, UnchangedLeaks DEF StopReceivers
  <2>8. CASE UNCHANGED vars
    BY <2>8, UnchangedLeaks DEF vars
  <2> QED
    BY <2>1, <2>2, <2>3, <2>4, <2>5, <2>6, <2>7, <2>8 DEF Next
<1> QED
  BY <1>1, <1>2, Owned, PTL DEF Spec

\* Nothing of a client or a handler is freed, closed or destroyed twice, or
\* before it is there: by close_file, deallocate_client, dealloc_ht or the
\* handler.
THEOREM NothingFreedTwice ==
  ASSUME Harmless
  PROVE  Spec => []FreedOnce
<1>1. LInv => FreedOnce
  BY SMTT(30) DEF LInv
<1> QED
  BY <1>1, Leakless, PTL

\* Nothing that is allocated for clients and handlers is ever lost.
THEOREM NothingIsLost ==
  ASSUME Harmless
  PROVE  Spec => []NothingLeaks
<1>1. LInv => NothingLeaks
  <2> SUFFICES ASSUME LInv PROVE NothingLeaks
    OBVIOUS
  <2>1. \A c \in Clients, i \in Nodes : HasPacket(c, i) => building[c] # Absent
    BY OwnershipAssumption, SMTT(30) DEF HasPacket, Nodes, Absent
  <2> SUFFICES ASSUME NEW x \in live
               PROVE  \/ \E h \in Handlers : x = decoded[h]
                      \/ \E c \in Clients : /\ building[c] # Absent
                                            /\ \/ x \in Parts(c)
                                               \/ \E i \in Nodes : x = values[c][i]
    BY DEF NothingLeaks
  <2> QED
    BY <2>1 DEF LInv, LiveIsOwned
<1> QED
  BY <1>1, Leakless, PTL
=============================================================================

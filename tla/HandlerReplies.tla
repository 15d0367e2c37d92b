--------------------------- MODULE HandlerReplies ---------------------------
(***************************************************************************)
(* Theorems about what hd_run_once counts and answers: buf_t.length, the   *)
(* array packets_to_send and the window and sequence number of an ACK.     *)
(***************************************************************************)
EXTENDS HandlerProofs, FiniteSetTheorems

\* One place of packets_to_send for every packet still to be looked at, and
\* one more for the ACK that follows the drain.
ReplyRoom ==
  \A h \in Handlers :
    /\ pc[h] \in {"pop", "lock", "exit"} => len_to_send[h] = 0
    /\ pc[h] \notin {"lock", "loop"} => todo[h] = 0
    /\ IF pc[h] = "send" THEN len_to_send[h] <= MAX_WINDOW_SIZE + 1
                         ELSE len_to_send[h] + todo[h] <= MAX_WINDOW_SIZE

\* What an ACK says was true when it was prepared: it names a packet that
\* was due, which is not ahead of the one due now.
Honest(r, upto) ==
  r.type = "ACK" =>
    r.seqnum = SeqNum(r.upto) /\ r.upto \in 0..upto /\ r.window <= r.room

HonestAcks == faults = 0 => \A h \in Handlers : \A r \in replies[h] : Honest(r, delivered)

\* The inductive invariant: the length is what makes the ACKs honest.
RInv ==
  /\ IInv
  /\ ReplyRoom
  /\ LengthIsOccupancy
  /\ HonestAcks

-----------------------------------------------------------------------------
(* Counting the nodes in use. *)

\* The places of a window are fewer than the sequence numbers.
LEMMA WindowFits == MAX_WINDOW_SIZE < SEQ_SPACE
<1>1. PICK k \in 1..SEQ_SPACE : SEQ_SPACE = k * MAX_BUFFER_SIZE
  BY BufferAssumption
<1>2. MAX_BUFFER_SIZE <= k * MAX_BUFFER_SIZE
  BY Sizes
<1> QED
  BY <1>1, <1>2, Sizes

\* A count that fits the window is not changed by storing it in a uint8_t.
LEMMA U8Small ==
  ASSUME NEW x \in 0..MAX_WINDOW_SIZE
  PROVE  U8(x) = x
<1>1. x \in Int /\ x \in 0..(SEQ_SPACE - 1) /\ x = (SEQ_SPACE * 0) + x
  BY WindowFits, Sizes
<1> QED
  BY <1>1, Sizes, ModUnique DEF U8

\* One node of the MAX_BUFFER_SIZE is always free: the one of the packet that
\* follows the window.
LEMMA OneNodeFree ==
  ASSUME NEW w \in Windows, NEW low \in Nat,
         \A i \in Occupied(w) : /\ low <= w.nodes[i]
                                /\ w.nodes[i] < low + MAX_WINDOW_SIZE
                                /\ hash(SeqNum(w.nodes[i])) = i
  PROVE  \E k \in Indexes : k \notin Occupied(w)
<1> DEFINE e == low + MAX_WINDOW_SIZE
           k == hash(U8(e))
<1>1. e \in Int /\ k \in Indexes
  BY Sizes, U8Type, HashType DEF SeqNums
<1>2. SUFFICES ASSUME k \in Occupied(w) PROVE FALSE
  BY <1>1
<1> DEFINE n == w.nodes[k]
<1>3. /\ n \in Nat /\ low <= n /\ n < low + MAX_WINDOW_SIZE
      /\ hash(U8(n)) = hash(U8(e))
  BY <1>2, Sizes DEF SeqNum, Occupied, Windows, Packets
<1> HIDE DEF n, k
<1>4. n - e < MAX_BUFFER_SIZE /\ e - n < MAX_BUFFER_SIZE /\ n # e /\ n \in Int
  BY <1>3, Sizes
<1> QED
  BY <1>1, <1>3, <1>4, NoCollision, Zenon

\* So the nodes in use are at most MAX_WINDOW_SIZE.
LEMMA OccupiedFits ==
  ASSUME NEW w \in Windows, NEW low \in Nat,
         \A i \in Occupied(w) : /\ low <= w.nodes[i]
                                /\ w.nodes[i] < low + MAX_WINDOW_SIZE
                                /\ hash(SeqNum(w.nodes[i])) = i
  PROVE  IsFiniteSet(Occupied(w)) /\ Cardinality(Occupied(w)) \in 0..MAX_WINDOW_SIZE
<1>1. IsFiniteSet(Indexes) /\ Cardinality(Indexes) = MAX_WINDOW_SIZE + 1
  <2>1. 0 \in Int /\ MAX_BUFFER_SIZE - 1 \in Int /\ MAX_BUFFER_SIZE - 1 = MAX_WINDOW_SIZE
    BY Sizes
  <2>2. /\ IsFiniteSet(Indexes)
        /\ Cardinality(Indexes) = IF 0 > MAX_BUFFER_SIZE - 1 THEN 0
                                  ELSE (MAX_BUFFER_SIZE - 1) - 0 + 1
    BY <2>1, FS_Interval, Zenon DEF Indexes
  <2> QED
    BY <2>1, <2>2, Sizes
<1>2. PICK k \in Indexes : k \notin Occupied(w)
  BY OneNodeFree
<1>3. /\ IsFiniteSet(Indexes \ {k})
      /\ Cardinality(Indexes \ {k}) = Cardinality(Indexes) - 1
  BY <1>1, <1>2, FS_RemoveElement, SMTT(30)
<1>4. Occupied(w) \subseteq Indexes \ {k}
  BY <1>2 DEF Occupied
<1>5. /\ IsFiniteSet(Occupied(w))
      /\ Cardinality(Occupied(w)) <= Cardinality(Indexes \ {k})
  BY <1>3, <1>4, FS_Subset, SMTT(30)
<1>6. Cardinality(Occupied(w)) \in Nat
  BY <1>5, FS_CardinalityType
<1> QED
  BY <1>1, <1>3, <1>5, <1>6, Sizes, SMTT(30)

\* In every state of the invariant the nodes in use can be counted.
LEMMA CountFits ==
  ASSUME IInv
  PROVE  /\ IsFiniteSet(Occupied(window))
         /\ Cardinality(Occupied(window)) \in 0..MAX_WINDOW_SIZE
<1>1. window \in Windows /\ delivered \in Nat /\ Drained \in Nat
  BY Sizes DEF IInv, TypeOK, Drained
<1>2. \A i \in Occupied(window) : window.nodes[i] \in Nat
  BY <1>1, Sizes DEF Occupied, Windows, Packets
<1>3. \A i \in Occupied(window) : /\ delivered + Drained <= window.nodes[i]
                                  /\ window.nodes[i] < delivered + MAX_WINDOW_SIZE
                                  /\ hash(SeqNum(window.nodes[i])) = i
  BY DEF IInv, NodesHoldWindow
<1>4. \A i \in Occupied(window) : delivered <= window.nodes[i]
  BY <1>1, <1>2, <1>3
<1> QED
  BY <1>1, <1>3, <1>4, OccupiedFits, SMTT(30)

\* Nothing is drained outside the drain.
LEMMA NothingDrained ==
  ASSUME IInv, lock = NoThread \/ \E h \in Handlers : pc[h] \in {"lock", "loop"} /\ lock = h
  PROVE  Drained = 0
BY DEF IInv, DrainState, DrainOf, Drained

-----------------------------------------------------------------------------
(* buf_t.length is the number of nodes in use. *)

\* A step that stores and drains nothing.
LEMMA SameLength ==
  ASSUME LengthIsOccupancy, UNCHANGED <<window, faults>>, Drained' = Drained
  PROVE  LengthIsOccupancy'
BY Zenon DEF LengthIsOccupancy, Occupied

\* next() adds one node and one to the length.
LEMMA StoreLength ==
  ASSUME IInv, IInv', LengthIsOccupancy, NEW h \in Handlers, NEW n \in Deliverable,
         Store(h, n)
  PROVE  LengthIsOccupancy'
<1> DEFINE k == hash(SeqNum(n))
           O == Occupied(window)
<1>1. n \in Packets /\ window \in Windows /\ faults' = faults
  BY DEF Deliverable, IInv, TypeOK, Store, Unpack, output
<1>2. k \in Indexes /\ n # Unused
  BY <1>1, U8Type, HashType, Sizes, SMTT(30) DEF SeqNum, SeqNums, Packets
<1>3. Drained = 0 /\ Drained' = 0
  <2>1. pc[h] = "loop" /\ pc' = pc /\ lock' = lock
    BY DEF Store, Unpack
  <2>2. lock = h
    BY <2>1 DEF IInv, LockHolder
  <2> QED
    BY <2>1, <2>2, NothingDrained, SMTT(30) DEF Drained, Store, Unpack
<1>4. /\ window'.nodes = [window.nodes EXCEPT ![k] = n]
      /\ window'.length = U8(window.length + 1)
  BY <1>1, Zenon DEF Store, next, Windows
<1>5. window.nodes[k] = Unused
  BY DEF Store, is_used
<1>6. Occupied(window') = O \cup {k} /\ k \notin O
  BY <1>1, <1>2, <1>4, <1>5, SMTT(30) DEF Occupied, Windows
<1>7. IsFiniteSet(O) /\ Cardinality(O) \in Nat
  BY CountFits
<1>8. Cardinality(O \cup {k}) = Cardinality(O) + 1
  BY <1>6, <1>7, FS_AddElement, Zenon
<1>9. Cardinality(Occupied(window')) \in 0..MAX_WINDOW_SIZE
  <2>1. window' \in Windows /\ delivered' \in Nat
    BY DEF IInv, TypeOK
  <2>2. \A i \in Occupied(window') : /\ delivered' <= window'.nodes[i]
                                     /\ window'.nodes[i] < delivered' + MAX_WINDOW_SIZE
                                     /\ hash(SeqNum(window'.nodes[i])) = i
    BY <1>3, <2>1 DEF IInv, NodesHoldWindow, Occupied
  <2> QED
    BY <2>1, <2>2, OccupiedFits, SMTT(30)
<1> HIDE DEF O, k
<1>10. Cardinality(O) + 1 \in 0..MAX_WINDOW_SIZE
  BY <1>6, <1>8, <1>9
<1>11. ASSUME faults = 0
       PROVE  window.length = Cardinality(O)
  BY <1>3, <1>7, <1>11, SMTT(30) DEF LengthIsOccupancy, O
<1>12. ASSUME faults = 0
       PROVE  window'.length = Cardinality(Occupied(window')) + 0
  BY <1>4, <1>6, <1>7, <1>8, <1>10, <1>11, <1>12, U8Small, SMTT(30)
<1> QED
  BY <1>1, <1>3, <1>12, ZenonT(30) DEF LengthIsOccupancy

\* get() moves one node from those in use to those drained.
LEMMA DrainLength ==
  ASSUME IInv, LengthIsOccupancy, NEW h \in Handlers, DrainOne(h)
  PROVE  LengthIsOccupancy'
<1> DEFINE k == hash(U8(Due(h)))
           O == Occupied(window)
<1>1. Drains(h) /\ window \in Windows /\ cnt \in [Handlers -> 0..MAX_WINDOW_SIZE]
  BY DrainOneFacts, SMTT(30) DEF IInv, TypeOK
<1>2. /\ k \in Indexes /\ window.nodes[k] \in Nat /\ faults' = faults
      /\ window'.nodes = [window.nodes EXCEPT ![k] = Unused]
      /\ lock = h /\ lock' = h /\ cnt' = [cnt EXCEPT ![h] = cnt[h] + 1]
  BY <1>1, Sizes DEF Drains, output, Packets
<1>3. window'.length = window.length
  BY <1>1, ZenonT(30) DEF DrainOne, get, Windows
<1>4. Drained = cnt[h] /\ Drained' = cnt[h] + 1 /\ cnt[h] \in Nat
  BY <1>1, <1>2, Sizes, SMTT(30) DEF Drained
<1>5. Occupied(window') = O \ {k} /\ k \in O
  BY <1>1, <1>2, Sizes DEF Occupied, Windows
<1>6. IsFiniteSet(O) /\ Cardinality(O) \in Nat
  BY CountFits
<1>7. Cardinality(O \ {k}) = Cardinality(O) - 1
  BY <1>5, <1>6, FS_RemoveElement
<1> HIDE DEF O, k
<1>8. ASSUME faults = 0
      PROVE  window.length = Cardinality(O) + cnt[h]
  BY <1>4, <1>8, ZenonT(30) DEF LengthIsOccupancy, O
<1>9. (Cardinality(O) - 1) + (cnt[h] + 1) = Cardinality(O) + cnt[h]
  BY <1>4, <1>6
<1>10. Cardinality(Occupied(window')) + Drained' = Cardinality(O) + cnt[h]
  BY <1>4, <1>5, <1>7, <1>9, ZenonT(30)
<1> QED
  BY <1>2, <1>3, <1>8, <1>10, ZenonT(30) DEF LengthIsOccupancy

\* The subtraction after a complete write accounts for the drained nodes.
LEMMA CommitLength ==
  ASSUME IInv, LengthIsOccupancy, NEW h \in Handlers, Commit(h), cnt[h] > 0, faults = 0
  PROVE  /\ Drained' = 0 /\ faults' = 0
         /\ window'.length = Cardinality(Occupied(window'))
<1> DEFINE O == Occupied(window)
<1>1. window \in Windows /\ cnt[h] \in Nat
  BY Sizes DEF IInv, TypeOK
<1>2. Drained = cnt[h] /\ lock' = NoThread /\ faults' = 0
  BY ReleaseFacts, ZenonT(30) DEF Commit, Release
<1>3. window'.nodes = window.nodes /\ window'.length = U8(window.length - cnt[h])
  BY <1>1, Zenon DEF Commit, Windows
<1>4. Cardinality(O) \in 0..MAX_WINDOW_SIZE /\ Occupied(window') = O
  BY <1>3, CountFits DEF Occupied
<1>5. window.length = Cardinality(O) + cnt[h]
  BY <1>2, Zenon DEF LengthIsOccupancy
<1> HIDE DEF O
<1>6. window.length - cnt[h] = Cardinality(O)
  BY <1>1, <1>4, <1>5, Sizes, SMTT(30)
<1> QED
  BY <1>2, <1>3, <1>4, <1>6, U8Small, SMTT(30) DEF Drained

-----------------------------------------------------------------------------
(* Honest replies. *)

\* An ACK built from a window whose length is right asks for no more packets
\* than there are places, and names the packet that is due.
LEMMA AckHonest ==
  ASSUME NEW w \in Windows, NEW low \in Nat, w.window_low = SeqNum(low),
         w.length = Cardinality(Occupied(w)),
         Cardinality(Occupied(w)) \in 0..MAX_WINDOW_SIZE
  PROVE  Honest(Ack(w, low), low)
<1> DEFINE c == Cardinality(Occupied(w))
           size == min(max_window_size, MAX_WINDOW_SIZE - c)
<1> HIDE DEF c
<1>1. size \in 0..MAX_WINDOW_SIZE /\ size <= MAX_WINDOW_SIZE - c
  BY Sizes DEF min, c
<1> HIDE DEF size
<1>2. WindowField(size) = size
  <2>1. size \in Int /\ size \in 0..(MAX_BUFFER_SIZE - 1) /\ size = (MAX_BUFFER_SIZE * 0) + size
    BY <1>1, Sizes
  <2> QED
    BY <2>1, Sizes, ModUnique, SMTT(30) DEF WindowField
<1>3. Ack(w, low) = [type |-> "ACK", seqnum |-> SeqNum(low), window |-> size,
                     upto |-> low, room |-> MAX_WINDOW_SIZE - c]
  BY <1>2, Zenon DEF Ack, Reply, size, c
<1>4. low \in 0..low
  OBVIOUS
<1> QED
  BY <1>1, <1>3, <1>4, SMTT(30) DEF Honest

\* The point up to which an ACK is right never moves back.
LEMMA HonestLater ==
  ASSUME NEW r, NEW a \in Nat, NEW b \in Nat, a <= b, Honest(r, a)
  PROVE  Honest(r, b)
BY DEF Honest

\* A NACK is no ACK.
LEMMA NackHonest ==
  ASSUME NEW w, NEW low, NEW n, NEW upto
  PROVE  Honest(Nack(w, low, n), upto)
BY DEF Honest, Nack, Reply

\* A step that prepares no reply.
LEMMA SameReplies ==
  ASSUME IInv, HonestAcks, faults' \in {faults, faults + 1}, delivered' = delivered,
         \A g \in Handlers : replies'[g] \in {replies[g], {}}
  PROVE  HonestAcks'
<1>1. faults' = 0 => faults = 0
  BY Sizes, SMTT(30) DEF IInv, TypeOK
<1> QED
  BY <1>1 DEF HonestAcks

\* A step that prepares an honest one.
LEMMA OneReply ==
  ASSUME IInv, HonestAcks, NEW h \in Handlers, NEW reply, faults' = faults,
         replies' = [replies EXCEPT ![h] = @ \cup {reply}],
         delivered' \in Nat, delivered <= delivered',
         faults = 0 => Honest(reply, delivered')
  PROVE  HonestAcks'
<1> SUFFICES ASSUME faults = 0, NEW g \in Handlers, NEW r \in replies'[g]
             PROVE  Honest(r, delivered')
  BY DEF HonestAcks
<1>1. replies \in [Handlers -> SUBSET Replies] /\ delivered \in Nat
  BY DEF IInv, TypeOK
<1>2. r \in replies[g] \/ r = reply
  BY <1>1
<1>3. CASE r \in replies[g]
  <2>1. Honest(r, delivered)
    BY <1>3 DEF HonestAcks
  <2> QED
    BY <1>1, <2>1, HonestLater, SMTT(30)
<1> QED
  BY <1>2, <1>3

\* The branches of the loop that answer a packet.
LEMMA LoopReplies ==
  ASSUME IInv, LengthIsOccupancy, HonestAcks, NEW h \in Handlers, Unpack(h),
         NEW reply, Respond(h, reply),
         reply = Ack(window, delivered) \/ \E n : reply = Nack(window, delivered, n)
  PROVE  HonestAcks'
<1>1. /\ pc[h] = "loop" /\ faults' = faults /\ delivered' = delivered
      /\ replies' = [replies EXCEPT ![h] = @ \cup {reply}]
      /\ delivered \in Nat /\ window \in Windows
  BY DEF Unpack, output, Respond, Prepare, IInv, TypeOK
<1>2. Drained = 0
  BY <1>1, NothingDrained, SMTT(30) DEF IInv, LockHolder
<1>3. Cardinality(Occupied(window)) \in 0..MAX_WINDOW_SIZE
  BY CountFits
<1>4. ASSUME faults = 0
      PROVE  Honest(Ack(window, delivered), delivered)
  <2>1. window.length = Cardinality(Occupied(window))
    BY <1>2, <1>3, <1>4, SMTT(30) DEF LengthIsOccupancy
  <2> QED
    BY <1>1, <1>3, <2>1, AckHonest, SMTT(30) DEF IInv, LowIsDelivered
<1>5. faults = 0 => Honest(reply, delivered')
  BY <1>1, <1>4, NackHonest, SMTT(30)
<1>6. delivered' \in Nat /\ delivered <= delivered'
  BY <1>1
<1> QED
  BY <1>1, <1>5, <1>6, OneReply, ZenonT(30)

\* The ACK that follows a complete write.
LEMMA CommitReplies ==
  ASSUME IInv, LengthIsOccupancy, HonestAcks, NEW h \in Handlers, Commit(h), cnt[h] > 0
  PROVE  HonestAcks'
<1> DEFINE reply == Ack(window', delivered')
<1>1. replies' = [replies EXCEPT ![h] = @ \cup {reply}] /\ faults' = faults
  BY DEF Commit, Prepare
<1>2. Delivers(h)
  BY CommitFacts
<1>3. delivered' \in Nat /\ delivered <= delivered' /\ window' \in Windows
  BY <1>2 DEF Delivers
<1>4. window'.window_low = SeqNum(delivered') /\ Occupied(window') = Occupied(window)
  BY <1>2 DEF Delivers, SeqNum, Occupied
<1>5. Cardinality(Occupied(window')) \in 0..MAX_WINDOW_SIZE
  BY <1>4, CountFits, SMTT(30)
<1>6. faults = 0 => Honest(reply, delivered')
  BY <1>3, <1>4, <1>5, CommitLength, AckHonest, SMTT(30)
<1> HIDE DEF reply
<1> QED
  BY <1>1, <1>3, <1>6, OneReply, Zenon

-----------------------------------------------------------------------------
(* Room for the replies. *)

\* A step of h keeps the room of the other handlers.
LEMMA RoomOf ==
  ASSUME IInv, ReplyRoom, NEW h \in Handlers,
         \A g \in Handlers \ {h} : /\ pc'[g] = pc[g] /\ todo'[g] = todo[g]
                                   /\ len_to_send'[g] = len_to_send[g],
         pc'[h] \in {"pop", "lock", "exit"} => len_to_send'[h] = 0,
         pc'[h] \notin {"lock", "loop"} => todo'[h] = 0,
         IF pc'[h] = "send" THEN len_to_send'[h] <= MAX_WINDOW_SIZE + 1
                            ELSE len_to_send'[h] + todo'[h] <= MAX_WINDOW_SIZE
  PROVE  ReplyRoom'
BY Zenon DEF ReplyRoom

\* Every step leaves room for the replies to come.
LEMMA RoomStep ==
  ASSUME IInv, ReplyRoom, NEW h \in Handlers, Pop(h) \/ PopStop(h) \/ Step(h)
  PROVE  ReplyRoom'
<1>1. /\ pc \in [Handlers -> {"pop", "lock", "loop", "drain", "write", "send", "exit"}]
      /\ todo \in [Handlers -> 0..MAX_WINDOW_SIZE] /\ todo[h] \in Nat
      /\ len_to_send \in [Handlers -> Nat] /\ len_to_send[h] \in Nat
  BY Sizes, SMTT(30) DEF IInv, TypeOK
<1>2. /\ pc[h] \in {"pop", "lock", "exit"} => len_to_send[h] = 0
      /\ pc[h] \notin {"lock", "loop"} => todo[h] = 0
      /\ IF pc[h] = "send" THEN len_to_send[h] <= MAX_WINDOW_SIZE + 1
                           ELSE len_to_send[h] + todo[h] <= MAX_WINDOW_SIZE
  BY DEF ReplyRoom
<1>3. CASE Pop(h)
  <2>1. PICK num \in 0..MaxBatch : todo' = [todo EXCEPT ![h] = num]
    BY <1>3, Zenon DEF Pop
  <2>2. pc[h] = "pop" /\ pc' = [pc EXCEPT ![h] = "lock"] /\ len_to_send' = len_to_send
    BY <1>3, SMTT(30) DEF Pop, sending
  <2> QED
    BY <1>1, <1>2, <2>1, <2>2, RoomOf, Sizes, SMTT(30)
<1>4. CASE PopStop(h) \/ Lock(h)
  <2>1. \/ pc[h] = "pop" /\ pc' = [pc EXCEPT ![h] = "exit"]
        \/ pc[h] = "lock" /\ pc' = [pc EXCEPT ![h] = "loop"]
    BY <1>4 DEF PopStop, Lock
  <2>2. todo' = todo /\ len_to_send' = len_to_send
    BY <1>4, SMTT(30) DEF PopStop, Lock, sending
  <2> QED
    BY <1>1, <1>2, <2>1, <2>2, RoomOf, SMTT(30)
<1>5. CASE \/ AckInvalid(h) \/ AckInactive(h) \/ IgnoreNonData(h)
           \/ \E n \in Deliverable : \/ NackTruncated(h, n) \/ AckOutOfWindow(h, n)
                                     \/ AckDuplicate(h, n) \/ Store(h, n)
  <2>1. Unpack(h)
    BY <1>5, SMTT(30) DEF AckInvalid, AckInactive, IgnoreNonData, NackTruncated, AckOutOfWindow,
       AckDuplicate, Store
  <2>2. UNCHANGED sending \/ \E reply : Prepare(h, reply)
    BY <1>5, SMTT(30) DEF AckInvalid, AckInactive, IgnoreNonData, NackTruncated,
       AckOutOfWindow, AckDuplicate, Store, Respond
  <2>3. /\ pc[h] = "loop" /\ pc' = pc /\ todo[h] > 0
        /\ todo' = [todo EXCEPT ![h] = @ - 1]
    BY <2>1 DEF Unpack
  <2>4. \/ len_to_send' = len_to_send
        \/ len_to_send' = [len_to_send EXCEPT ![h] = @ + 1]
    BY <2>2, SMTT(30) DEF sending, Prepare
  <2> QED
    BY <1>1, <1>2, <2>3, <2>4, RoomOf, Sizes, SMTT(30)
<1>6. CASE StartDrain(h) \/ DrainEnd(h) \/ DrainOne(h) \/ NothingToWrite(h)
  <2>1. /\ pc[h] \in {"loop", "drain", "write"} /\ (pc[h] = "loop" => todo[h] = 0)
        /\ \E v \in {"drain", "write", "send"} : pc' = [pc EXCEPT ![h] = v]
        /\ todo' = todo /\ len_to_send' = len_to_send
    BY <1>6, SMTT(30) DEF StartDrain, DrainEnd, DrainOne, NothingToWrite, Release, sending
  <2> QED
    BY <1>1, <1>2, <2>1, RoomOf, Sizes, SMTT(30)
<1>7. CASE Commit(h) /\ cnt[h] > 0
  <2>1. /\ pc[h] = "write" /\ pc' = [pc EXCEPT ![h] = "send"] /\ todo' = todo
        /\ len_to_send' = [len_to_send EXCEPT ![h] = @ + 1]
    BY <1>7, SMTT(30) DEF Commit, Release, Prepare
  <2> QED
    BY <1>1, <1>2, <2>1, RoomOf, Sizes, SMTT(30)
<1>8. CASE WriteFails(h) \/ Send(h)
  <2>1. /\ pc[h] \in {"write", "send"} /\ pc' = [pc EXCEPT ![h] = "pop"] /\ todo' = todo
        /\ len_to_send' = [len_to_send EXCEPT ![h] = 0]
    BY <1>8, SMTT(30) DEF WriteFails, Send, Release
  <2> QED
    BY <1>1, <1>2, <2>1, RoomOf, Sizes, SMTT(30)
<1> QED
  BY <1>3, <1>4, <1>5, <1>6, <1>7, <1>8, SMTT(30) DEF Step, Local, Write, Arrive

-----------------------------------------------------------------------------
(* The invariant and what it says of the program. *)

\* A step in which nothing is stored, drained or answered.
LEMMA QuietStep ==
  ASSUME IInv, LengthIsOccupancy, HonestAcks, NEW h \in Handlers,
         \/ Pop(h) \/ PopStop(h) \/ Send(h) \/ Lock(h) \/ IgnoreNonData(h)
         \/ StartDrain(h) \/ DrainEnd(h) \/ NothingToWrite(h)
  PROVE  LengthIsOccupancy' /\ HonestAcks'
<1>1. UNCHANGED <<window, output>>
  BY DEF Pop, PopStop, Send, Lock, IgnoreNonData, StartDrain, DrainEnd, NothingToWrite,
     Unpack
<1>2. UNCHANGED <<window, faults>> /\ delivered' = delivered
  BY <1>1, SMTT(30) DEF output
<1>3. \A g \in Handlers : replies'[g] \in {replies[g], {}}
  <2>1. CASE Send(h)
    BY <2>1, SMTT(30) DEF Send, IInv, TypeOK
  <2>2. CASE ~Send(h)
    BY <2>2 DEF Pop, PopStop, Lock, IgnoreNonData, StartDrain, DrainEnd, NothingToWrite,
       sending
  <2> QED
    BY <2>1, <2>2, SMTT(30)
<1>4. Drained' = Drained
  <2>1. CASE NothingToWrite(h)
    <3>1. cnt[h] = 0 /\ Release(h, "send")
      BY <2>1 DEF NothingToWrite
    <3>2. Drained = cnt[h] /\ Released
      BY <3>1, ReleaseFacts, SMTT(30)
    <3> QED
      BY <3>1, <3>2, SMTT(30) DEF Drained, Released
  <2>2. CASE Lock(h)
    <3>1. cnt[h] = 0 /\ lock = NoThread /\ lock' = h /\ cnt' = cnt /\ h # NoThread
      BY <2>2, Sizes, SMTT(30) DEF Lock, IInv, DrainState, DrainOf
    <3> QED
      BY <3>1, SMTT(30) DEF Drained
  <2>3. CASE ~NothingToWrite(h) /\ ~Lock(h)
    BY <2>3, SMTT(30) DEF Pop, PopStop, Send, IgnoreNonData, StartDrain, DrainEnd, Unpack, Drained
  <2> QED
    BY <2>1, <2>2, <2>3, SMTT(30)
<1> QED
  BY <1>2, <1>3, <1>4, SameLength, SameReplies, SMTT(30)

\* A step that answers a packet in the loop.
LEMMA AnswerStep ==
  ASSUME IInv, LengthIsOccupancy, HonestAcks, NEW h \in Handlers,
         \/ AckInvalid(h) \/ AckInactive(h)
         \/ \E n \in Deliverable :
              NackTruncated(h, n) \/ AckOutOfWindow(h, n) \/ AckDuplicate(h, n)
  PROVE  LengthIsOccupancy' /\ HonestAcks'
<1>1. PICK reply : /\ Unpack(h) /\ Respond(h, reply)
                   /\ \/ reply = Ack(window, delivered)
                      \/ \E n : reply = Nack(window, delivered, n)
  BY SMTT(30) DEF AckInvalid, AckInactive, NackTruncated, AckOutOfWindow, AckDuplicate
<1>2. UNCHANGED <<window, faults>> /\ Drained' = Drained
  BY <1>1 DEF Unpack, Respond, output, Drained
<1> QED
  BY <1>1, <1>2, LoopReplies, SameLength, SMTT(30)

\* RInv is inductive.
LEMMA NextReplies == RInv /\ [Next]_vars => RInv'
<1> SUFFICES ASSUME RInv, [Next]_vars PROVE RInv'
  OBVIOUS
<1>1. IInv /\ IInv' /\ ReplyRoom /\ LengthIsOccupancy /\ HonestAcks
  BY NextInv DEF RInv
<1>2. CASE UNCHANGED vars
  BY <1>1, <1>2, ZenonT(30) DEF vars, RInv, ReplyRoom, LengthIsOccupancy, HonestAcks, Drained,
     Occupied
<1>3. CASE Next
  <2>1. PICK h \in Handlers : Pop(h) \/ PopStop(h) \/ Step(h)
    BY <1>3 DEF Next
  <2>2. ReplyRoom'
    BY <1>1, <2>1, RoomStep, SMTT(30)
  <2>3. CASE \E n \in Deliverable : Store(h, n)
    <3>1. PICK n \in Deliverable : Store(h, n)
      BY <2>3
    <3>2. LengthIsOccupancy'
      BY <1>1, <3>1, StoreLength, SMTT(30)
    <3>3. faults' = faults /\ delivered' = delivered /\ replies' = replies
      BY <3>1, SMTT(30) DEF Store, Unpack, sending, output
    <3> QED
      BY <1>1, <2>2, <3>2, <3>3, SameReplies, SMTT(30) DEF RInv
  <2>4. CASE DrainOne(h)
    <3>1. faults' = faults /\ delivered' = delivered /\ replies' = replies
      BY <2>4 DEF DrainOne, sending, output
    <3> QED
      BY <1>1, <2>2, <2>4, <3>1, DrainLength, SameReplies, SMTT(30) DEF RInv
  <2>5. CASE Commit(h) /\ cnt[h] > 0
    <3>1. LengthIsOccupancy'
      <4>1. Occupied(window') = Occupied(window) /\ faults' = faults
        BY <1>1, <2>5, CommitFacts, ZenonT(30) DEF Delivers, Occupied, Commit
      <4>2. Cardinality(Occupied(window')) \in Nat
        BY <1>1, <4>1, CountFits, SMTT(30)
      <4> QED
        BY <1>1, <2>5, <4>1, <4>2, CommitLength, SMTT(30) DEF LengthIsOccupancy
    <3> QED
      BY <1>1, <2>2, <2>5, <3>1, CommitReplies, SMTT(30) DEF RInv
  <2>6. CASE WriteFails(h) /\ cnt[h] > 0
    <3>1. faults' # 0
      BY <1>1, <2>6, Sizes, SMTT(30) DEF WriteFails, IInv, TypeOK
    <3> QED
      BY <1>1, <2>2, <3>1, SMTT(30) DEF RInv, LengthIsOccupancy, HonestAcks
  <2>7. CASE \/ AckInvalid(h) \/ AckInactive(h)
             \/ \E n \in Deliverable :
                  NackTruncated(h, n) \/ AckOutOfWindow(h, n) \/ AckDuplicate(h, n)
    BY <1>1, <2>2, <2>7, AnswerStep, SMTT(30) DEF RInv
  <2>8. CASE \/ Pop(h) \/ PopStop(h) \/ Send(h) \/ Lock(h) \/ IgnoreNonData(h)
             \/ StartDrain(h) \/ DrainEnd(h) \/ NothingToWrite(h)
    BY <1>1, <2>2, <2>8, QuietStep, SMTT(30) DEF RInv
  <2> QED
    BY <2>1, <2>3, <2>4, <2>5, <2>6, <2>7, <2>8, SMTT(30) DEF Step, Local, Write, Arrive
<1> QED
  BY <1>2, <1>3

\* A fresh client has nothing buffered and nothing to send.
LEMMA InitReplies == Init => RInv
<1> SUFFICES ASSUME Init PROVE RInv
  OBVIOUS
<1>1. IInv
  BY InitInv, SMTT(30)
<1>2. ReplyRoom /\ HonestAcks
  BY Sizes DEF Init, ReplyRoom, HonestAcks
<1>3. LengthIsOccupancy
  <2>1. Occupied(window) = {}
    BY DEF Init, Occupied, initialize_buffer
  <2>2. Drained = 0 /\ window.length = 0
    BY DEF Init, Drained, initialize_buffer
  <2> QED
    BY <2>1, <2>2, FS_EmptySet, SMTT(30) DEF LengthIsOccupancy
<1> QED
  BY <1>1, <1>2, <1>3, SMTT(30) DEF RInv

\* Every reachable state of hd_run_once satisfies the invariant.
THEOREM RepliesInvariant == Spec => []RInv
BY InitReplies, NextReplies, PTL DEF Spec

\* buf_t.length counts the nodes in use: next() adds one for each packet
\* stored, and the one subtraction after a drain removes as many as get()
\* released, for every window size and wherever the sequence number wraps.
THEOREM LengthIsRight == Spec => []LengthIsOccupancy
<1>1. RInv => LengthIsOccupancy
  BY SMTT(30) DEF RInv
<1> QED
  BY <1>1, RepliesInvariant, PTL

\* packets_to_send never overflows: a request of MAX_WINDOW_SIZE packets
\* leaves one place for the ACK of the drain, and the early return of a short
\* write starts again from an empty array.
THEOREM RepliesFit == Spec => []ReplyCapacity
<1>1. RInv => ReplyCapacity
  <2> SUFFICES ASSUME RInv, NEW h \in Handlers
               PROVE  len_to_send[h] <= MAX_WINDOW_SIZE + 1
    BY SMTT(30) DEF ReplyCapacity
  <2>1. len_to_send[h] \in Nat /\ todo[h] \in Nat
    BY Sizes DEF RInv, IInv, TypeOK
  <2> QED
    BY <2>1, Sizes, SMTT(30) DEF RInv, ReplyRoom
<1> QED
  BY <1>1, RepliesInvariant, PTL

\* Without short writes, no ACK acknowledges a packet that is not in the file
\* or asks for more packets than there were places, however late it is sent
\* and whatever other handlers did with the client in between.
THEOREM AcksAreTrue ==
  ASSUME MaxWriteFaults = 0
  PROVE  Spec => []AckIsTruthful
<1>1. RInv => AckIsTruthful
  <2> SUFFICES ASSUME RInv, NEW h \in Handlers, NEW r \in replies[h], r.type = "ACK"
               PROVE  /\ r.seqnum = SeqNum(r.upto) /\ r.window <= r.room
                      /\ min(r.upto, LastPacket) <= Len(file)
    BY ZenonT(30) DEF AckIsTruthful
  <2>1. faults = 0 /\ delivered \in Nat
    BY SMTT(30) DEF RInv, IInv, TypeOK
  <2>2. r.seqnum = SeqNum(r.upto) /\ r.upto \in 0..delivered /\ r.window <= r.room
    BY <2>1, SMTT(30) DEF RInv, HonestAcks, Honest
  <2>3. Len(file) = min(delivered, LastPacket)
    BY <2>1, SMTT(30) DEF RInv, IInv, FileContent, InOrderFile
  <2>4. \A u \in 0..delivered : min(u, LastPacket) <= min(delivered, LastPacket)
    BY <2>1, Sizes DEF min
  <2> QED
    BY <2>2, <2>3, <2>4, SMTT(30)
<1> QED
  BY <1>1, RepliesInvariant, PTL
=============================================================================

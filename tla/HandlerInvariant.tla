-------------------------- MODULE HandlerInvariant --------------------------
(***************************************************************************)
(* The inductive invariant of Handler, and that the steps up to the end of *)
(* the drain preserve it.  HandlerProofs has the write and the theorems.   *)
(***************************************************************************)
EXTENDS Handler, Facts

-----------------------------------------------------------------------------
(* The arithmetic of the sequence numbers. *)

\* hash() of a sequence number depends on the packet's number only through
\* its low bits: truncating to uint8_t first loses nothing.
LEMMA HashOfSeqNum ==
  ASSUME NEW n \in Int
  PROVE  hash(U8(n)) = n % MAX_BUFFER_SIZE
<1> DEFINE B == MAX_BUFFER_SIZE
           S == SEQ_SPACE
<1>1. B \in Nat \ {0} /\ S \in Nat \ {0}
  BY BufferAssumption
<1>2. PICK k \in 1..S : S = k * B
  BY BufferAssumption
<1>3. /\ n \div S \in Int /\ n % S \in Int
      /\ n = (S * (n \div S)) + (n % S)
  BY <1>1, DivMod
<1>4. /\ (n % S) \div B \in Int /\ (n % S) % B \in 0..(B - 1)
      /\ n % S = (B * ((n % S) \div B)) + ((n % S) % B)
  BY <1>1, <1>3, DivMod, Zenon
<1> DEFINE q == n \div S
           p == (n % S) \div B
           r == (n % S) % B
<1>5. q \in Int /\ p \in Int /\ r \in 0..(B - 1) /\ k \in Int
  BY <1>3, <1>4
<1>6. n = (S * q) + ((B * p) + r)
  BY <1>3, <1>4
<1> HIDE DEF q, p, r, B, S
<1>7. S * q = B * (k * q)
  BY <1>1, <1>2, <1>5
<1>8. B * (k * q) + (B * p) = B * ((k * q) + p)
  BY <1>1, <1>5
<1>9. n = (B * ((k * q) + p)) + r /\ (k * q) + p \in Int
  BY <1>1, <1>5, <1>6, <1>7, <1>8
<1>10. n % B = r
  BY <1>1, <1>5, <1>9, ModUnique
<1> QED
  BY <1>10 DEF hash, U8, r, B, S

\* sequences[][] tells the window from everything else as long as no packet
\* is more than a turn of the counter away.
LEMMA WindowTest ==
  ASSUME NEW low \in Int, NEW n \in Int, NEW age \in Nat, NEW lead \in Nat,
         MAX_WINDOW_SIZE <= lead, age + lead <= SEQ_SPACE,
         low - age <= n, n < low + lead
  PROVE  sequences(U8(low), U8(n)) <=> (low <= n /\ n < low + MAX_WINDOW_SIZE)
<1> DEFINE S == SEQ_SPACE
           W == MAX_WINDOW_SIZE
<1>1. S \in Nat \ {0} /\ W \in Nat
  BY BufferAssumption
<1>2. U8(U8(n) - U8(low)) = (n - low) % S
  BY <1>1, ModDifference, Zenon DEF U8
<1>3. CASE low <= n
  <2>1. n - low = (S * 0) + (n - low) /\ n - low \in 0..(S - 1)
    BY <1>1, <1>3
  <2>2. (n - low) % S = n - low
    BY <1>1, <2>1, ModUnique
  <2> QED
    BY <1>1, <1>2, <1>3, <2>2 DEF sequences
<1>4. CASE n < low
  <2>1. n - low = (S * (-1)) + (S + n - low) /\ S + n - low \in 0..(S - 1)
    BY <1>1, <1>4
  <2>2. (n - low) % S = S + n - low
    BY <1>1, <2>1, ModUnique
  <2> QED
    BY <1>1, <1>2, <1>4, <2>2 DEF sequences
<1> QED
  BY <1>3, <1>4

\* No two packets of a window share a node.
LEMMA NoCollision ==
  ASSUME NEW a \in Int, NEW b \in Int,
         a - b < MAX_BUFFER_SIZE, b - a < MAX_BUFFER_SIZE,
         hash(U8(a)) = hash(U8(b))
  PROVE  a = b
BY HashOfSeqNum, ModInjective, BufferAssumption, Zenon

-----------------------------------------------------------------------------
(***************************************************************************)
(* The inductive invariant.  None of the properties is inductive alone:    *)
(* the content of the file depends on the nodes holding the packets of the *)
(* current window, which depends on window_low standing for `delivered`    *)
(* and on the drain of the only handler that is inside the lock.           *)
(***************************************************************************)

\* window_low is `delivered` reduced to a uint8_t.
LowIsDelivered == window.window_low = SeqNum(delivered)

\* The lock is held exactly by the handler inside the critical section.
LockHolder ==
  \A h \in Handlers : lock = h <=> pc[h] \in {"loop", "drain", "write"}

\* Where a drain stands, and why it ended.
DrainOf(h) ==
  /\ pc[h] \notin {"drain", "write"} => cnt[h] = 0
  /\ pc[h] = "drain" =>
       /\ cnt[h] < MAX_WINDOW_SIZE
       /\ cnt[h] > 0 => delivered + cnt[h] <= LastPacket
  /\ cnt[h] > 0 => /\ delivered + cnt[h] <= LastPacket + 1
                   /\ remove[h] <=> delivered + cnt[h] = LastPacket + 1
  /\ pc[h] = "write" => window.nodes[hash(Cursor(h))] = Unused

DrainState == \A h \in Handlers : DrainOf(h)

\* The payloads a drain has collected are the next ones of the file.
Chunk ==
  \A h \in Handlers :
    /\ Len(file_buffer[h]) =
         min(delivered + cnt[h], LastPacket) - min(delivered, LastPacket)
    /\ \A i \in 1..Len(file_buffer[h]) : file_buffer[h][i] = delivered + i - 1

\* The client is active until the end-of-file packet has been delivered.
Activity ==
  /\ delivered <= LastPacket + 1
  /\ active <=> delivered <= LastPacket

\* As long as no write failed, the file is the delivered prefix.
FileContent ==
  /\ pos <= Len(file)
  /\ faults = 0 => InOrderFile /\ pos = Len(file)

\* A free lock means that the packet due is not waiting in its node.
NothingLeft == lock = NoThread => window.nodes[hash(window.window_low)] = Unused

IInv ==
  /\ TypeOK
  /\ LowIsDelivered
  /\ LockHolder
  /\ NodesHoldWindow
  /\ DrainState
  /\ Chunk
  /\ Activity
  /\ FileContent
  /\ NothingLeft

-----------------------------------------------------------------------------
(* Facts about the values the actions build. *)

\* The assumptions on the constants, in the form the proofs use.
LEMMA Sizes ==
  /\ SEQ_SPACE \in Nat \ {0}
  /\ MAX_BUFFER_SIZE \in Nat \ {0}
  /\ MAX_WINDOW_SIZE \in Nat \ {0}
  /\ MAX_BUFFER_SIZE = MAX_WINDOW_SIZE + 1
  /\ LastPacket \in Nat /\ MaxAge \in Nat /\ MaxLead \in Nat
  /\ MAX_WINDOW_SIZE <= MaxLead
  /\ MaxAge + MaxLead <= SEQ_SPACE
  /\ max_window_size \in 0..MAX_WINDOW_SIZE
  /\ MaxBatch \in 0..MAX_WINDOW_SIZE
  /\ MaxWriteFaults \in Nat
  /\ Unused \notin Nat
  /\ NoThread \notin Handlers
BY BufferAssumption, HandlerAssumption

\* A value stored in a uint8_t is a sequence number.
LEMMA U8Type ==
  ASSUME NEW x \in Int
  PROVE  U8(x) \in SeqNums
BY Sizes, DivMod DEF U8, SeqNums

\* hash() selects one of the nodes.
LEMMA HashType ==
  ASSUME NEW x \in Int
  PROVE  hash(x) \in Indexes
BY Sizes, DivMod DEF hash, Indexes

\* A reply has the type of a packet, whatever window size it is given.
LEMMA ReplyType ==
  ASSUME NEW w \in Windows, NEW low \in Nat, NEW size \in Int,
         NEW type \in {"ACK", "NACK"}, NEW seqnum \in SeqNums
  PROVE  Reply(type, seqnum, size, w, low) \in Replies
<1>1. WindowField(size) \in Indexes
  BY Sizes, DivMod DEF WindowField, Indexes
<1>2. MAX_WINDOW_SIZE - Cardinality(Occupied(w)) \in Rooms
  BY DEF Rooms, Occupied
<1> QED
  BY <1>1, <1>2 DEF Reply, Replies

\* So has every ACK,
LEMMA AckType ==
  ASSUME NEW w \in Windows, NEW low \in Nat
  PROVE  Ack(w, low) \in Replies
<1>1. min(max_window_size, MAX_WINDOW_SIZE - w.length) \in Int
  BY Sizes DEF min, Windows, SeqNums
<1> QED
  BY <1>1, ReplyType DEF Ack, Windows

\* and every NACK, although its window is computed from window_low.
LEMMA NackType ==
  ASSUME NEW w \in Windows, NEW low \in Nat, NEW n \in Int
  PROVE  Nack(w, low, n) \in Replies
<1>1. min(max_window_size, MAX_WINDOW_SIZE - w.window_low) \in Int
  BY Sizes DEF min, Windows, SeqNums
<1> QED
  BY <1>1, ReplyType, U8Type DEF Nack, SeqNum

\* next() keeps the type of the buffer,
LEMMA NextType ==
  ASSUME NEW w \in Windows, NEW n \in Packets
  PROVE  next(w, SeqNum(n), n) \in Windows
<1>1. hash(SeqNum(n)) \in Indexes /\ U8(w.length + 1) \in SeqNums
  BY Sizes, U8Type, HashType DEF SeqNum, SeqNums, Packets, Windows
<1> QED
  BY <1>1, Zenon DEF next, Windows

\* and so does get().
LEMMA GetType ==
  ASSUME NEW w \in Windows, NEW seqnum \in SeqNums
  PROVE  get(w, seqnum) \in Windows
BY HashType DEF get, Windows, SeqNums

-----------------------------------------------------------------------------
(* The invariant holds initially and every action preserves it. *)

\* A fresh client satisfies the invariant.
LEMMA InitInv == Init => IInv
<1> SUFFICES ASSUME Init PROVE IInv
  OBVIOUS
<1> USE DEF Init
<1>1. U8(0) = 0
  <2>1. 0 = (SEQ_SPACE * 0) + 0 /\ 0 \in 0..(SEQ_SPACE - 1)
    BY Sizes
  <2> QED
    BY <2>1, Sizes, ModUnique DEF U8
<1>2. 0 \in SeqNums
  BY Sizes DEF SeqNums
<1>3. TypeOK
  BY <1>2, Sizes DEF TypeOK, initialize_buffer, Windows
<1>4. LowIsDelivered
  BY <1>1 DEF LowIsDelivered, SeqNum, initialize_buffer
<1>5. LockHolder
  BY Sizes DEF LockHolder
<1>6. NodesHoldWindow
  BY DEF NodesHoldWindow, Occupied, initialize_buffer
<1>7. DrainState /\ Chunk
  BY Sizes DEF DrainState, DrainOf, Chunk, min
<1>8. Activity /\ FileContent
  BY Sizes DEF Activity, FileContent, InOrderFile, min
<1>9. NothingLeft
  BY <1>2, HashType DEF NothingLeft, initialize_buffer
<1> QED
  BY <1>3, <1>4, <1>5, <1>6, <1>7, <1>8, <1>9 DEF IInv

\* A step that touches neither the client nor a drain, and in which no handler
\* enters or leaves the critical section.
LEMMA FrameInv ==
  ASSUME IInv, TypeOK',
         UNCHANGED <<cnt, remove, file_buffer, lock, window, output>>,
         \A g \in Handlers : \/ pc'[g] = pc[g]
                             \/ /\ pc[g] \notin {"loop", "drain", "write"}
                                /\ pc'[g] \notin {"loop", "drain", "write"}
  PROVE  IInv'
<1>1. UNCHANGED <<cnt, remove, file_buffer, lock, window, active, file, pos, delivered,
                  faults>>
  BY DEF output
<1>2. LowIsDelivered' /\ Activity' /\ NothingLeft'
  BY <1>1 DEF IInv, LowIsDelivered, Activity, NothingLeft
<1>3. NodesHoldWindow'
  BY <1>1 DEF IInv, NodesHoldWindow, Occupied, Drained
<1>4. Chunk' /\ FileContent'
  BY <1>1 DEF IInv, Chunk, FileContent, InOrderFile
<1>5. LockHolder'
  BY <1>1 DEF IInv, LockHolder
<1>6. ASSUME NEW g \in Handlers
      PROVE  DrainOf(g)'
  <2>1. DrainOf(g)
    BY DEF IInv, DrainState
  <2>2. Cursor(g)' = Cursor(g)
    BY <1>1 DEF Cursor
  <2> QED
    BY <1>1, <2>1, <2>2 DEF DrainOf
<1>7. DrainState'
  BY <1>6, Zenon DEF DrainState
<1> QED
  BY <1>2, <1>3, <1>4, <1>5, <1>7 DEF IInv

\* Steps outside the lock: pop, stop and send.
LEMMA OutsideInv ==
  ASSUME IInv, NEW h \in Handlers, Pop(h) \/ PopStop(h) \/ Send(h)
  PROVE  IInv'
<1>1. UNCHANGED <<cnt, remove, file_buffer, lock, window, output>>
  BY DEF Pop, PopStop, Send
<1>2. /\ TypeOK /\ pc[h] \notin {"loop", "drain", "write"}
      /\ \E v \in {"pop", "lock", "exit"} : pc' = [pc EXCEPT ![h] = v]
  BY DEF Pop, PopStop, Send, IInv
<1>3. TypeOK'
  <2>1. CASE Pop(h)
    BY <1>2, <2>1, Sizes DEF TypeOK, Pop, sending, output
  <2>2. CASE PopStop(h)
    BY <1>2, <2>2 DEF TypeOK, PopStop, sending, output
  <2>3. CASE Send(h)
    BY <1>2, <2>3 DEF TypeOK, Send, output
  <2> QED
    BY <2>1, <2>2, <2>3
<1>4. \A g \in Handlers : \/ pc'[g] = pc[g]
                          \/ /\ pc[g] \notin {"loop", "drain", "write"}
                             /\ pc'[g] \notin {"loop", "drain", "write"}
  BY <1>2 DEF TypeOK
<1> QED
  BY <1>1, <1>3, <1>4, FrameInv

\* Taking the lock: nothing has been drained yet.
LEMMA LockInv ==
  ASSUME IInv, NEW h \in Handlers, Lock(h)
  PROVE  IInv'
<1> USE DEF IInv, Lock
<1>1. cnt[h] = 0
  BY DEF DrainState, DrainOf
<1>2. TypeOK'
  BY DEF TypeOK, sending, output
<1>3. LowIsDelivered' /\ Chunk' /\ Activity' /\ FileContent'
  BY DEF output, LowIsDelivered, Chunk, Activity, FileContent, InOrderFile
<1>4. LockHolder'
  BY Sizes DEF LockHolder, TypeOK
<1>5. NodesHoldWindow'
  <2>1. Drained = 0 /\ Drained' = 0
    BY <1>1, Sizes DEF Drained
  <2> QED
    BY <2>1 DEF NodesHoldWindow, Occupied, output
<1>6. DrainState'
  BY <1>1 DEF output, DrainState, DrainOf, Cursor, TypeOK
<1>7. NothingLeft'
  BY Sizes DEF NothingLeft
<1> QED
  BY <1>2, <1>3, <1>4, <1>5, <1>6, <1>7

\* Packets that are answered or ignored: only todo and the replies change.
LEMMA AnswerInv ==
  ASSUME IInv, NEW h \in Handlers, Unpack(h), UNCHANGED window,
         \/ UNCHANGED sending
         \/ \E reply \in Replies : Prepare(h, reply)
  PROVE  IInv'
<1>1. /\ TypeOK /\ UNCHANGED <<pc, cnt, remove, file_buffer, lock, output>>
      /\ todo[h] > 0 /\ todo' = [todo EXCEPT ![h] = @ - 1]
  BY DEF Unpack, IInv
<1>2. todo' \in [Handlers -> 0..MAX_WINDOW_SIZE]
  BY <1>1, Sizes DEF TypeOK
<1>3. replies' \in [Handlers -> SUBSET Replies] /\ len_to_send' \in [Handlers -> Nat]
  <2>1. CASE UNCHANGED sending
    BY <1>1, <2>1 DEF TypeOK, sending
  <2>2. CASE \E reply \in Replies : Prepare(h, reply)
    <3>1. PICK reply \in Replies : Prepare(h, reply)
      BY <2>2
    <3>2. replies[h] \cup {reply} \in SUBSET Replies
      BY <1>1 DEF TypeOK
    <3> QED
      BY <1>1, <3>1, <3>2 DEF TypeOK, Prepare
  <2> QED
    BY <2>1, <2>2
<1>4. TypeOK'
  BY <1>1, <1>2, <1>3, Zenon DEF TypeOK, output
<1> QED
  BY <1>1, <1>4, FrameInv

\* The branches of the loop that answer a packet, or ignore it.
LEMMA RepliesInv ==
  ASSUME IInv, NEW h \in Handlers,
         \/ AckInvalid(h) \/ AckInactive(h) \/ IgnoreNonData(h)
         \/ \E n \in Deliverable :
              NackTruncated(h, n) \/ AckOutOfWindow(h, n) \/ AckDuplicate(h, n)
  PROVE  IInv'
<1>1. window \in Windows /\ delivered \in Nat
  BY DEF IInv, TypeOK
<1>2. Ack(window, delivered) \in Replies
  BY <1>1, AckType
<1>3. \A n \in Deliverable : Nack(window, delivered, n) \in Replies
  BY <1>1, NackType DEF Deliverable, Packets
<1>4. Unpack(h) /\ UNCHANGED window
  BY DEF AckInvalid, AckInactive, IgnoreNonData, NackTruncated, AckOutOfWindow,
     AckDuplicate, Respond
<1>5. UNCHANGED sending \/ \E reply \in Replies : Prepare(h, reply)
  BY SMTT(30), <1>2, <1>3 DEF AckInvalid, AckInactive, IgnoreNonData, NackTruncated,
     AckOutOfWindow, AckDuplicate, Respond
<1> QED
  BY <1>4, <1>5, AnswerInv

\* A packet that is stored is one of the window and goes to a free node.
LEMMA StoreInv ==
  ASSUME IInv, NEW h \in Handlers, NEW n \in Deliverable, Store(h, n)
  PROVE  IInv'
<1> USE DEF IInv, Store, Unpack
<1> DEFINE k == hash(SeqNum(n))
<1>1. n \in Packets /\ n \in Int /\ window \in Windows /\ delivered \in Nat
  BY SMTT(30), Sizes DEF Deliverable, Packets, TypeOK
<1>2. delivered <= n /\ n < delivered + MAX_WINDOW_SIZE
  <2>1. sequences(U8(delivered), U8(n))
    BY DEF LowIsDelivered, SeqNum
  <2>2. delivered - MaxAge <= n /\ n < delivered + MaxLead
    BY DEF Deliverable
  <2>3. /\ delivered \in Int /\ MaxAge \in Nat /\ MaxLead \in Nat
        /\ MAX_WINDOW_SIZE <= MaxLead /\ MaxAge + MaxLead <= SEQ_SPACE
    BY <1>1, Sizes
  <2> QED
    BY <1>1, <2>1, <2>2, <2>3, WindowTest
<1>3. k \in Indexes /\ n # Unused
  BY <1>1, U8Type, HashType, Sizes DEF SeqNum, SeqNums, Packets
<1>4. /\ window' \in Windows
      /\ window'.window_low = window.window_low
      /\ window'.nodes = [window.nodes EXCEPT ![k] = n]
  BY <1>1, NextType, Zenon DEF next, Windows
<1>5. Drained = 0 /\ Drained' = 0
  BY Sizes DEF LockHolder, DrainState, DrainOf, Drained
<1>6. TypeOK'
  <2>1. todo' \in [Handlers -> 0..MAX_WINDOW_SIZE]
    BY SMTT(30), Sizes DEF TypeOK
  <2> QED
    BY <1>4, <2>1, Zenon DEF TypeOK, output, sending
<1>7. NodesHoldWindow'
  <2> SUFFICES ASSUME NEW i \in Occupied(window)'
               PROVE  /\ delivered <= window'.nodes[i]
                      /\ window'.nodes[i] < delivered + MAX_WINDOW_SIZE
                      /\ hash(SeqNum(window'.nodes[i])) = i
    BY <1>1, <1>5 DEF NodesHoldWindow, output
  <2>1. CASE i = k
    BY <1>1, <1>2, <1>3, <1>4, <2>1 DEF Windows
  <2>2. CASE i # k
    <3>1. i \in Occupied(window) /\ window'.nodes[i] = window.nodes[i]
      BY <1>1, <1>4, <2>2 DEF Occupied, Windows
    <3> QED
      BY <1>1, <1>5, <3>1 DEF NodesHoldWindow
  <2> QED
    BY <2>1, <2>2
<1>8. LowIsDelivered' /\ LockHolder' /\ Chunk' /\ Activity' /\ FileContent'
  BY SMTT(30), <1>4 DEF output, LowIsDelivered, LockHolder, Chunk, Activity, FileContent,
     InOrderFile
<1>9. DrainState' /\ NothingLeft'
  <2>1. lock = h /\ \A g \in Handlers : pc[g] # "write"
    BY DEF LockHolder
  <2> QED
    BY <2>1, Sizes DEF DrainState, DrainOf, NothingLeft, output
<1> QED
  BY <1>4, <1>6, <1>7, <1>8, <1>9

\* A step that only moves h from one stage of the drain to the next.
Moves(h, from, to) ==
  /\ pc[h] = from
  /\ pc' = [pc EXCEPT ![h] = to]
  /\ \A g \in Handlers \ {h} : remove'[g] = remove[g]
  /\ remove' \in [Handlers -> BOOLEAN]
  /\ UNCHANGED <<todo, sending, cnt, file_buffer, lock, window, output>>

\* Such a step preserves the invariant if it does so for the drain of h.
LEMMA MovesInv ==
  ASSUME IInv, NEW h \in Handlers, NEW from \in {"loop", "drain"},
         NEW to \in {"drain", "write"}, Moves(h, from, to), DrainOf(h)'
  PROVE  IInv'
<1>1. /\ pc \in [Handlers -> {"pop", "lock", "loop", "drain", "write", "send", "exit"}]
      /\ pc[h] \in {"loop", "drain"} /\ pc' = [pc EXCEPT ![h] = to]
      /\ pc'[h] \in {"drain", "write"}
      /\ UNCHANGED <<todo, replies, len_to_send, cnt, file_buffer, lock, window,
                     active, file, pos, delivered, faults>>
      /\ remove' \in [Handlers -> BOOLEAN]
  BY DEF Moves, sending, output, IInv, TypeOK
<1>2. TypeOK'
  BY <1>1, Zenon DEF IInv, TypeOK
<1>3. LowIsDelivered' /\ Activity' /\ NothingLeft'
  <2>1. LowIsDelivered /\ Activity /\ NothingLeft
    BY Zenon DEF IInv
  <2> QED
    BY <1>1, <2>1, Zenon DEF LowIsDelivered, Activity, NothingLeft
<1>4. NodesHoldWindow'
  <2>1. NodesHoldWindow
    BY Zenon DEF IInv
  <2> QED
    BY <1>1, <2>1, Zenon DEF NodesHoldWindow, Occupied, Drained
<1>5. Chunk' /\ FileContent'
  <2>1. Chunk /\ FileContent
    BY Zenon DEF IInv
  <2> QED
    BY <1>1, <2>1, Zenon DEF Chunk, FileContent, InOrderFile
<1>6. LockHolder'
  BY <1>1 DEF IInv, LockHolder
<1>7. ASSUME NEW g \in Handlers
      PROVE  DrainOf(g)'
  <2>1. CASE g = h
    BY <2>1
  <2>2. CASE g # h
    <3>1. pc'[g] = pc[g] /\ remove'[g] = remove[g] /\ Cursor(g)' = Cursor(g)
      BY <1>1, <2>2 DEF Moves, Cursor
    <3>2. DrainOf(g)
      BY DEF IInv, DrainState
    <3> QED
      BY <1>1, <3>1, <3>2, SMTT(30) DEF DrainOf
  <2> QED
    BY <2>1, <2>2
<1>8. DrainState'
  BY <1>7, Zenon DEF DrainState
<1> QED
  BY <1>2, <1>3, <1>4, <1>5, <1>6, <1>8 DEF IInv

\* A drain starts with nothing taken.
LEMMA StartDrainInv ==
  ASSUME IInv, NEW h \in Handlers, StartDrain(h)
  PROVE  IInv'
<1>1. remove \in [Handlers -> BOOLEAN] /\ DOMAIN pc = Handlers
  BY DEF IInv, TypeOK
<1>2. Moves(h, "loop", "drain")
  BY <1>1, Zenon DEF StartDrain, Moves
<1>3. pc[h] = "loop" /\ cnt' = cnt /\ pc'[h] = "drain"
  BY SMTT(30), <1>1 DEF StartDrain
<1>4. cnt[h] = 0
  BY <1>3 DEF IInv, DrainState, DrainOf
<1>5. DrainOf(h)'
  BY <1>3, <1>4, Sizes DEF DrainOf
<1> QED
  BY <1>2, <1>5, MovesInv

\* A drain ends at an unused node.
LEMMA DrainEndInv ==
  ASSUME IInv, NEW h \in Handlers, DrainEnd(h)
  PROVE  IInv'
<1>1. remove \in [Handlers -> BOOLEAN] /\ DOMAIN pc = Handlers
  BY DEF IInv, TypeOK
<1>2. Moves(h, "drain", "write")
  BY <1>1 DEF DrainEnd, Moves
<1>3. UNCHANGED <<cnt, remove, window, delivered>> /\ pc'[h] = "write"
  BY <1>1 DEF DrainEnd, output
<1>4. window.nodes[hash(Cursor(h))] = Unused /\ Cursor(h)' = Cursor(h)
  BY <1>3 DEF DrainEnd, is_used, Cursor
<1>5. DrainOf(h)
  BY DEF IInv, DrainState
<1>6. DrainOf(h)'
  BY <1>3, <1>4, <1>5 DEF DrainOf
<1> QED
  BY <1>2, <1>6, MovesInv

\* The sequence number the drain looks at is the one of the next packet, and
\* the node it selects is either unused or holds exactly that packet.
LEMMA DrainCursor ==
  ASSUME IInv, NEW h \in Handlers, pc[h] \in {"drain", "write"}
  PROVE  /\ delivered + cnt[h] \in Nat
         /\ Cursor(h) = U8(delivered + cnt[h])
         /\ Cursor(h) \in SeqNums
         /\ hash(Cursor(h)) \in Indexes
         /\ window.nodes[hash(Cursor(h))] \in {Unused, delivered + cnt[h]}
<1> DEFINE d == delivered + cnt[h]
           k == hash(Cursor(h))
           n == window.nodes[k]
<1>1. delivered \in Nat /\ cnt[h] \in Nat /\ d \in Nat /\ d \in Int
  BY Sizes, SMTT(30) DEF IInv, TypeOK
<1>2. Cursor(h) = U8(d)
  <2>1. ((delivered % SEQ_SPACE) + cnt[h]) % SEQ_SPACE = (delivered + cnt[h]) % SEQ_SPACE
    <3>1. delivered \in Int /\ cnt[h] \in Int /\ SEQ_SPACE \in Nat \ {0}
      BY <1>1, Sizes
    <3> QED
      BY <3>1, ModSum, Zenon
  <2> QED
    BY <2>1 DEF Cursor, IInv, LowIsDelivered, SeqNum, U8
<1>3. Cursor(h) \in SeqNums /\ k \in Indexes
  BY <1>1, <1>2, U8Type, HashType, SMTT(30) DEF SeqNums
<1>4. ASSUME n # Unused
      PROVE  n = d
  <2>1. k \in Occupied(window)
    BY <1>3, <1>4 DEF Occupied
  <2>2. lock = h /\ Drained = cnt[h]
    BY Sizes DEF IInv, LockHolder, Drained
  <2>3. n \in Nat
    BY <1>3, <1>4, Sizes, SMTT(30) DEF IInv, TypeOK, Windows, Packets
  <2>4. delivered + cnt[h] <= n /\ n < delivered + MAX_WINDOW_SIZE /\ hash(U8(n)) = k
    BY <2>1, <2>2, SMTT(30) DEF IInv, NodesHoldWindow, SeqNum
  <2>5. n - d < MAX_BUFFER_SIZE /\ d - n < MAX_BUFFER_SIZE /\ n \in Int
    BY <1>1, <2>3, <2>4, Sizes
  <2>6. hash(U8(n)) = hash(U8(d))
    BY <1>2, <2>4, SMTT(30)
  <2> QED
    BY <1>1, <2>5, <2>6, NoCollision
<1> QED
  BY <1>1, <1>2, <1>3, <1>4

-----------------------------------------------------------------------------
(* Draining one node. *)

\* The packet the drain of h is about to take out, or to look for.
Due(h) == delivered + cnt[h]

\* Does the drain go on after this node?
More(h) == /\ sequences(window.window_low, U8(Due(h) + 1))
           /\ cnt[h] + 1 < MAX_WINDOW_SIZE
           /\ Due(h) # LastPacket

\* What DrainOne does, in terms of the packet that is due.
Drains(h) ==
  LET d == Due(h)
      k == hash(U8(d))
  IN  /\ d \in Packets /\ k \in Indexes /\ window.nodes[k] = d
      /\ cnt[h] + 1 \in 1..MAX_WINDOW_SIZE
      /\ lock = h
      /\ window' \in Windows
      /\ window'.window_low = window.window_low
      /\ window'.nodes = [window.nodes EXCEPT ![k] = Unused]
      /\ cnt' = [cnt EXCEPT ![h] = cnt[h] + 1]
      /\ remove' = [remove EXCEPT ![h] = (d = LastPacket)]
      /\ file_buffer' = [file_buffer EXCEPT
           ![h] = IF d # LastPacket THEN Append(file_buffer[h], d) ELSE file_buffer[h]]
      /\ Cursor(h)' = U8(d + 1)
      /\ pc' = [pc EXCEPT ![h] = IF More(h) THEN "drain" ELSE "write"]
      /\ UNCHANGED <<todo, sending, lock, output>>

\* DrainOne takes the packet that is due out of its node.
LEMMA DrainOneFacts ==
  ASSUME IInv, NEW h \in Handlers, DrainOne(h)
  PROVE  Drains(h)
<1> DEFINE d == Due(h)
           k == hash(U8(d))
           c == cnt[h] + 1
<1>1. pc[h] = "drain" /\ lock = h
  BY SMTT(30) DEF IInv, DrainOne, LockHolder
<1>2. /\ delivered \in Nat /\ cnt[h] \in Nat /\ cnt[h] < MAX_WINDOW_SIZE
      /\ window \in Windows /\ cnt \in [Handlers -> 0..MAX_WINDOW_SIZE]
      /\ remove \in [Handlers -> BOOLEAN]
  BY SMTT(30), <1>1, Sizes DEF IInv, TypeOK, DrainState, DrainOf
<1>3. Cursor(h) = U8(d) /\ k \in Indexes /\ window.nodes[k] = d /\ U8(d) \in SeqNums
  <2>1. window.nodes[hash(Cursor(h))] # Unused
    BY DEF DrainOne, is_used
  <2> QED
    BY <1>1, <2>1, DrainCursor DEF Due
<1>4. d \in Nat /\ d \in Packets
  <2>1. window.nodes[k] # Unused
    BY <1>3 DEF DrainOne, is_used
  <2> QED
    BY <1>2, <1>3, <2>1 DEF Windows, Due
<1> HIDE DEF d, k
<1>5. c \in 1..MAX_WINDOW_SIZE /\ cnt' = [cnt EXCEPT ![h] = c] /\ cnt'[h] = c
  BY <1>2, Sizes DEF DrainOne
<1>6. /\ window' = get(window, U8(d))
      /\ remove' = [remove EXCEPT ![h] = (d = LastPacket)]
      /\ file_buffer' = [file_buffer EXCEPT
           ![h] = IF d # LastPacket THEN Append(file_buffer[h], d) ELSE file_buffer[h]]
  BY <1>3 DEF DrainOne, HasPayload, k
<1>7. /\ window' \in Windows
      /\ window'.window_low = window.window_low
      /\ window'.nodes = [window.nodes EXCEPT ![k] = Unused]
  <2>1. get(window, U8(d)) \in Windows
    BY <1>2, <1>3, GetType
  <2> QED
    BY <1>2, <1>6, <2>1, SMTT(30) DEF get, Windows, k
<1>8. Cursor(h)' = U8(d + 1)
  <2>1. ((delivered % SEQ_SPACE) + c) % SEQ_SPACE = (delivered + c) % SEQ_SPACE
    <3>1. delivered \in Int /\ c \in Int /\ SEQ_SPACE \in Nat \ {0}
      BY <1>2, Sizes
    <3> QED
      BY <3>1, ModSum, Zenon
  <2>2. delivered + c = d + 1
    BY <1>2 DEF d, Due
  <2>3. window.window_low = U8(delivered)
    BY DEF IInv, LowIsDelivered, SeqNum
  <2> QED
    BY <1>5, <1>7, <2>1, <2>2, <2>3 DEF Cursor, U8
<1>9. pc' = [pc EXCEPT ![h] = IF More(h) THEN "drain" ELSE "write"]
  <2>1. remove'[h] = (d = LastPacket)
    BY <1>2, <1>6
  <2> QED
    BY <1>5, <1>8, <2>1, Zenon DEF DrainOne, More, d
<1>10. UNCHANGED <<todo, sending, lock, output>>
  BY DEF DrainOne
<1> QED
  BY <1>1, <1>3, <1>4, <1>5, <1>6, <1>7, <1>8, <1>9, <1>10 DEF Drains, d, k

\* The state after draining one node has its type.
LEMMA DrainOneType ==
  ASSUME TypeOK, NEW h \in Handlers, Drains(h)
  PROVE  TypeOK'
<1>1. Due(h) \in Packets /\ window' \in Windows
  BY Zenon DEF Drains
<1>2. file_buffer' \in [Handlers -> Seq(Packets)]
  <2>1. file_buffer \in [Handlers -> Seq(Packets)]
    BY Zenon DEF TypeOK
  <2>2. Append(file_buffer[h], Due(h)) \in Seq(Packets)
    BY <1>1, <2>1, SeqAppend
  <2>3. file_buffer' = [file_buffer EXCEPT ![h] =
          IF Due(h) # LastPacket THEN Append(file_buffer[h], Due(h)) ELSE file_buffer[h]]
    BY Zenon DEF Drains
  <2> QED
    BY <2>1, <2>2, <2>3
<1>3. remove' \in [Handlers -> BOOLEAN]
  <2>1. remove \in [Handlers -> BOOLEAN]
    BY Zenon DEF TypeOK
  <2>2. remove' = [remove EXCEPT ![h] = (Due(h) = LastPacket)]
    BY Zenon DEF Drains
  <2> QED
    BY <2>1, <2>2
<1>4. cnt' \in [Handlers -> 0..MAX_WINDOW_SIZE]
  <2>1. cnt \in [Handlers -> 0..MAX_WINDOW_SIZE]
    BY Zenon DEF TypeOK
  <2>2. cnt[h] + 1 \in 1..MAX_WINDOW_SIZE /\ cnt' = [cnt EXCEPT ![h] = cnt[h] + 1]
    BY Zenon DEF Drains
  <2> QED
    BY <2>1, <2>2, Sizes
<1>5. pc' \in [Handlers -> {"pop", "lock", "loop", "drain", "write", "send", "exit"}]
  <2>1. pc \in [Handlers -> {"pop", "lock", "loop", "drain", "write", "send", "exit"}]
    BY Zenon DEF TypeOK
  <2>2. pc' = [pc EXCEPT ![h] = IF More(h) THEN "drain" ELSE "write"]
    BY Zenon DEF Drains
  <2> QED
    BY <2>1, <2>2
<1>6. UNCHANGED <<todo, replies, len_to_send, lock, active, file, pos, delivered, faults>>
  BY DEF Drains, sending, output
<1> QED
  BY <1>1, <1>2, <1>3, <1>4, <1>5, <1>6, ZenonT(30) DEF TypeOK

\* The numbers involved in draining one node.
LEMMA DrainOneCounts ==
  ASSUME IInv, NEW h \in Handlers, Drains(h)
  PROVE  /\ lock = h /\ lock' = lock /\ delivered' = delivered /\ delivered \in Nat
         /\ cnt[h] \in Nat /\ cnt'[h] = cnt[h] + 1
         /\ Due(h) = delivered + cnt[h] /\ Due(h) \in Packets /\ Due(h) <= LastPacket
         /\ cnt \in [Handlers -> 0..MAX_WINDOW_SIZE]
<1>1. delivered \in Nat /\ cnt \in [Handlers -> 0..MAX_WINDOW_SIZE]
  BY Zenon DEF IInv, TypeOK
<1>2. /\ lock = h /\ lock' = lock /\ delivered' = delivered /\ Due(h) \in Packets
      /\ cnt' = [cnt EXCEPT ![h] = cnt[h] + 1]
  BY Zenon DEF Drains, output
<1>3. cnt[h] \in Nat /\ cnt'[h] = cnt[h] + 1
  BY <1>1, <1>2, Sizes
<1>4. Due(h) <= LastPacket
  BY <1>2, Sizes DEF Packets
<1> QED
  BY <1>1, <1>2, <1>3, <1>4, Zenon DEF Due

\* The remaining nodes hold later packets of the window.
LEMMA DrainOneNodes ==
  ASSUME IInv, NEW h \in Handlers, Drains(h)
  PROVE  NodesHoldWindow'
<1> DEFINE d == Due(h)
           k == hash(U8(d))
<1>1. /\ k \in Indexes /\ window \in Windows /\ window' \in Windows
      /\ window'.nodes = [window.nodes EXCEPT ![k] = Unused]
  <2>1. window \in Windows
    BY Zenon DEF IInv, TypeOK
  <2> QED
    BY <2>1, Zenon DEF Drains
<1>2. /\ Drained = cnt[h] /\ Drained' = cnt[h] + 1 /\ delivered' = delivered
      /\ delivered \in Nat /\ cnt[h] \in Nat
  <2>1. /\ lock = h /\ lock' = lock /\ delivered' = delivered /\ delivered \in Nat
        /\ cnt[h] \in Nat /\ cnt'[h] = cnt[h] + 1
    BY DrainOneCounts
  <2> QED
    BY <2>1, Sizes, SMTT(30) DEF Drained
<1> SUFFICES ASSUME NEW i \in Occupied(window)'
             PROVE  /\ d + 1 <= window'.nodes[i]
                    /\ window'.nodes[i] < delivered + MAX_WINDOW_SIZE
                    /\ hash(SeqNum(window'.nodes[i])) = i
  BY <1>2 DEF NodesHoldWindow, Due
<1> DEFINE n == window.nodes[i]
<1>3. i # k /\ i \in Indexes /\ i \in Occupied(window) /\ window'.nodes[i] = n
  BY <1>1, SMTT(30) DEF Occupied, Windows
<1>4. d <= n /\ n < delivered + MAX_WINDOW_SIZE /\ hash(U8(n)) = i
  BY <1>2, <1>3, SMTT(30) DEF IInv, NodesHoldWindow, SeqNum, Due
<1>5. n # d
  BY <1>3, <1>4
<1>6. n \in Nat /\ d \in Nat
  BY <1>1, <1>2, <1>3, Sizes DEF Occupied, Windows, Packets, Due
<1> HIDE DEF n, d, k
<1> QED
  BY <1>3, <1>4, <1>5, <1>6, SMTT(30) DEF SeqNum

\* The payload that is due is appended to what the drain has collected.
LEMMA DrainOneChunk ==
  ASSUME IInv, NEW h \in Handlers, Drains(h)
  PROVE  Chunk'
<1> DEFINE d == Due(h)
           c == cnt[h]
           buf == file_buffer[h]
           size(m) == min(delivered + m, LastPacket) - min(delivered, LastPacket)
<1>1. /\ delivered \in Nat /\ c \in Nat /\ d = delivered + c /\ d <= LastPacket
      /\ d \in Packets /\ delivered' = delivered
      /\ cnt \in [Handlers -> 0..MAX_WINDOW_SIZE]
      /\ file_buffer \in [Handlers -> Seq(Packets)]
  <2>1. file_buffer \in [Handlers -> Seq(Packets)]
    BY Zenon DEF IInv, TypeOK
  <2> QED
    BY <2>1, DrainOneCounts, Zenon
<1>2. /\ cnt' = [cnt EXCEPT ![h] = c + 1]
      /\ file_buffer' = [file_buffer EXCEPT
           ![h] = IF d # LastPacket THEN Append(buf, d) ELSE buf]
  BY DEF Drains
<1>3. /\ size(c) = c
      /\ d = LastPacket => size(c + 1) = c
      /\ d # LastPacket => size(c + 1) = c + 1
  BY <1>1, Sizes DEF min
<1>4. Len(buf) = size(c) /\ \A i \in 1..Len(buf) : buf[i] = delivered + i - 1
  BY DEF IInv, Chunk
<1>5. ASSUME NEW g \in Handlers \ {h}
      PROVE  file_buffer'[g] = file_buffer[g] /\ cnt'[g] = cnt[g]
  BY <1>1, <1>2
<1>6. cnt'[h] = c + 1 /\ buf \in Seq(Packets)
  BY <1>1, <1>2
<1>7. /\ Len(file_buffer'[h]) = size(c + 1)
      /\ \A i \in 1..Len(file_buffer'[h]) : file_buffer'[h][i] = delivered + i - 1
  <2>1. CASE d = LastPacket
    <3>1. file_buffer'[h] = buf
      BY <1>1, <1>2, <2>1
    <3> HIDE DEF size, d, c, buf
    <3> QED
      BY <1>3, <1>4, <2>1, <3>1
  <2>2. CASE d # LastPacket
    <3>1. file_buffer'[h] = Append(buf, d)
      BY <1>1, <1>2, <2>2, SMTT(30)
    <3> HIDE DEF size, d, c, buf
    <3>2. /\ Len(file_buffer'[h]) = c + 1
          /\ \A i \in 1..c : file_buffer'[h][i] = buf[i]
          /\ file_buffer'[h][c + 1] = d
      BY <1>1, <1>3, <1>4, <1>6, <3>1, SeqAppend
    <3>3. ASSUME NEW i \in 1..(c + 1)
          PROVE  file_buffer'[h][i] = delivered + i - 1
      <4>1. CASE i = c + 1
        BY <1>1, <3>2, <4>1
      <4>2. CASE i \in 1..c
        BY <1>3, <1>4, <3>2, <4>2, SMTT(30)
      <4> QED
        BY <1>1, <4>1, <4>2
    <3> QED
      BY <1>3, <2>2, <3>2, <3>3
  <2> QED
    BY <2>1, <2>2
<1>8. \A g \in Handlers \ {h} :
        /\ Len(file_buffer[g]) = min(delivered + cnt[g], LastPacket) - min(delivered, LastPacket)
        /\ \A i \in 1..Len(file_buffer[g]) : file_buffer[g][i] = delivered + i - 1
  BY SMTT(30) DEF IInv, Chunk
<1> SUFFICES ASSUME NEW g \in Handlers
             PROVE  /\ Len(file_buffer'[g]) =
                         min(delivered + cnt'[g], LastPacket) - min(delivered, LastPacket)
                    /\ \A i \in 1..Len(file_buffer'[g]) :
                         file_buffer'[g][i] = delivered + i - 1
  BY <1>1 DEF Chunk
<1>9. CASE g = h
  BY <1>6, <1>7, <1>9
<1>10. CASE g # h
  BY <1>5, <1>8, <1>10
<1> QED
  BY <1>9, <1>10, SMTT(30)

\* When the drain stops, the node of the packet due next is unused.
LEMMA DrainOneStops ==
  ASSUME IInv, NEW h \in Handlers, Drains(h), NodesHoldWindow', ~More(h)
  PROVE  window'.nodes[hash(U8(Due(h) + 1))] = Unused
<1> DEFINE e == Due(h) + 1
           i == hash(U8(e))
           n == window'.nodes[i]
<1>1. /\ delivered \in Nat /\ cnt[h] \in Nat /\ delivered' = delivered
      /\ lock' # NoThread /\ Drained' = cnt[h] + 1 /\ window' \in Windows
      /\ e = delivered + cnt[h] + 1
  <2>1. /\ lock = h /\ lock' = lock /\ delivered' = delivered /\ delivered \in Nat
        /\ cnt[h] \in Nat /\ cnt'[h] = cnt[h] + 1
    BY DrainOneCounts
  <2>2. window' \in Windows
    BY Zenon DEF Drains
  <2> QED
    BY <2>1, <2>2, Sizes, SMTT(30) DEF Drained, Due
<1>2. e \in Int /\ i \in Indexes
  <2>1. e \in Int
    BY <1>1
  <2> QED
    BY <2>1, U8Type, HashType DEF SeqNums
<1>3. SUFFICES ASSUME n # Unused PROVE FALSE
  BY SMTT(30)
<1>4. n \in Nat /\ n <= LastPacket
  BY <1>1, <1>2, <1>3, Sizes, SMTT(30) DEF Windows, Packets
<1>5. delivered + (cnt[h] + 1) <= n /\ n < delivered + MAX_WINDOW_SIZE /\ hash(U8(n)) = i
  <2>1. i \in Occupied(window)'
    BY <1>2, <1>3 DEF Occupied
  <2> QED
    BY <1>1, <2>1 DEF NodesHoldWindow, SeqNum
<1> HIDE DEF n, e
<1>6. n - e < MAX_BUFFER_SIZE /\ e - n < MAX_BUFFER_SIZE /\ n \in Int
  BY <1>1, <1>4, <1>5, Sizes
<1>7. n = e
  BY <1>2, <1>5, <1>6, NoCollision, Zenon
<1>8. cnt[h] + 1 < MAX_WINDOW_SIZE /\ Due(h) # LastPacket
  BY <1>1, <1>4, <1>5, <1>7, Sizes DEF e, Due
<1>9. sequences(U8(delivered), U8(e))
  <2>1. /\ delivered \in Int /\ MaxAge \in Nat /\ MaxLead \in Nat
        /\ MAX_WINDOW_SIZE <= MaxLead /\ MaxAge + MaxLead <= SEQ_SPACE
        /\ delivered <= e /\ e < delivered + MAX_WINDOW_SIZE
        /\ delivered - MaxAge <= e /\ e < delivered + MaxLead
    BY <1>1, <1>5, <1>7, <1>4, Sizes
  <2> QED
    BY <1>2, <2>1, WindowTest, Zenon
<1>10. window.window_low = U8(delivered)
  BY DEF IInv, LowIsDelivered, SeqNum
<1> QED
  BY <1>8, <1>9, <1>10, SMTT(30) DEF More, e

\* The counters of the drain after one more node.
LEMMA DrainOneState ==
  ASSUME IInv, NEW h \in Handlers, Drains(h), NodesHoldWindow'
  PROVE  DrainState'
<1> DEFINE d == Due(h)
           c == cnt[h] + 1
<1>1. /\ delivered \in Nat /\ cnt[h] \in Nat /\ d = delivered + cnt[h] /\ d <= LastPacket
      /\ delivered' = delivered /\ lock = h /\ DOMAIN pc = Handlers
      /\ pc = [g \in Handlers |-> pc[g]]
      /\ cnt \in [Handlers -> 0..MAX_WINDOW_SIZE] /\ remove \in [Handlers -> BOOLEAN]
  <2>1. /\ pc \in [Handlers -> {"pop", "lock", "loop", "drain", "write", "send", "exit"}]
        /\ remove \in [Handlers -> BOOLEAN]
    BY Zenon DEF IInv, TypeOK
  <2>2. DOMAIN pc = Handlers /\ pc = [g \in Handlers |-> pc[g]]
    BY <2>1, Zenon
  <2> QED
    BY <2>1, <2>2, DrainOneCounts, Zenon
<1>2. /\ cnt'[h] = c /\ remove'[h] = (d = LastPacket)
      /\ pc'[h] = IF More(h) THEN "drain" ELSE "write"
      /\ Cursor(h)' = U8(d + 1)
  <2>1. /\ remove' = [remove EXCEPT ![h] = (d = LastPacket)]
        /\ pc' = [pc EXCEPT ![h] = IF More(h) THEN "drain" ELSE "write"]
        /\ cnt' = [cnt EXCEPT ![h] = c]
        /\ Cursor(h)' = U8(d + 1)
    BY Zenon DEF Drains
  <2> HIDE DEF d, c
  <2> QED
    BY <1>1, <2>1
<1>3. ASSUME NEW g \in Handlers \ {h}
      PROVE  pc'[g] \notin {"drain", "write"} /\ cnt'[g] = 0
  <2>1. pc[g] \notin {"drain", "write"}
    BY <1>1 DEF IInv, LockHolder
  <2>2. cnt[g] = 0
    BY <2>1 DEF IInv, DrainState, DrainOf
  <2>3. /\ pc' = [pc EXCEPT ![h] = IF More(h) THEN "drain" ELSE "write"]
        /\ cnt' = [cnt EXCEPT ![h] = c]
    BY Zenon DEF Drains
  <2> HIDE DEF c
  <2> QED
    BY <1>1, <2>1, <2>2, <2>3
<1>4. /\ delivered + c <= LastPacket + 1
      /\ (d = LastPacket) <=> (delivered + c = LastPacket + 1)
      /\ d # LastPacket => delivered + c <= LastPacket
  BY <1>1, Sizes
<1>5. More(h) => c < MAX_WINDOW_SIZE /\ d # LastPacket
  BY SMTT(30) DEF More
<1>6. ~More(h) => window'.nodes[hash(Cursor(h)')] = Unused
  BY <1>2, DrainOneStops
<1> HIDE DEF d, c
<1> SUFFICES ASSUME NEW g \in Handlers
             PROVE  DrainOf(g)'
  BY Zenon DEF DrainState
<1>7. CASE g = h
  <2>1. /\ cnt'[h] = c /\ remove'[h] = (d = LastPacket) /\ delivered' = delivered
        /\ pc'[h] = "drain" => c < MAX_WINDOW_SIZE /\ d # LastPacket
        /\ pc'[h] = "write" => window'.nodes[hash(Cursor(h)')] = Unused
        /\ pc'[h] \in {"drain", "write"}
    BY <1>1, <1>2, <1>5, <1>6, SMTT(30)
  <2> QED
    BY <1>4, <1>7, <2>1, Zenon DEF DrainOf
<1>8. CASE g # h
  BY <1>3, <1>8 DEF DrainOf
<1> QED
  BY <1>7, <1>8, SMTT(30)

\* Draining one node takes the next packet of the file out of the window.
LEMMA DrainOneInv ==
  ASSUME IInv, NEW h \in Handlers, DrainOne(h)
  PROVE  IInv'
<1>1. Drains(h)
  BY DrainOneFacts
<1>2. TypeOK' /\ NodesHoldWindow' /\ Chunk'
  BY <1>1, DrainOneType, DrainOneNodes, DrainOneChunk DEF IInv
<1>3. DrainState'
  BY <1>1, <1>2, DrainOneState, SMTT(30)
<1>4. lock = h /\ UNCHANGED <<lock, delivered, active, file, pos, faults>>
      /\ window'.window_low = window.window_low
  BY <1>1 DEF Drains, output
<1>5. LowIsDelivered' /\ Activity' /\ FileContent'
  BY <1>4 DEF IInv, LowIsDelivered, Activity, FileContent, InOrderFile
<1>6. NothingLeft'
  BY SMTT(30), <1>4, Sizes DEF NothingLeft
<1>7. LockHolder'
  BY <1>1, <1>4 DEF Drains, IInv, LockHolder, TypeOK
<1> QED
  BY <1>2, <1>3, <1>5, <1>6, <1>7 DEF IInv
=============================================================================

--------------------------- MODULE HandlerProofs ---------------------------
(***************************************************************************)
(* Theorems about Handler, for every number of handlers, every file, every *)
(* window size and every lifetime of the packets the assumptions allow.    *)
(***************************************************************************)
EXTENDS HandlerInvariant

-----------------------------------------------------------------------------
(* The release of the lock and the write. *)

\* After a release no handler is inside the critical section and none has
\* drained anything.
Released ==
  /\ lock' = NoThread
  /\ pc' \in [Handlers -> {"pop", "lock", "loop", "drain", "write", "send", "exit"}]
  /\ todo' \in [Handlers -> 0..MAX_WINDOW_SIZE]
  /\ cnt' \in [Handlers -> 0..MAX_WINDOW_SIZE]
  /\ remove' \in [Handlers -> BOOLEAN]
  /\ file_buffer' \in [Handlers -> Seq(Packets)]
  /\ \A g \in Handlers : cnt'[g] = 0 /\ file_buffer'[g] = <<>>
  /\ \A g \in Handlers : pc'[g] \notin {"loop", "drain", "write"}

\* Releasing the lock leaves the critical section empty.
LEMMA ReleaseFacts ==
  ASSUME IInv, NEW h \in Handlers, NEW v \in {"send", "pop"}, Release(h, v)
  PROVE  lock = h /\ Drained = cnt[h] /\ Released
<1>1. lock = h /\ Drained = cnt[h] /\ lock' = NoThread
  BY Sizes DEF IInv, LockHolder, Drained, Release
<1>2. /\ pc \in [Handlers -> {"pop", "lock", "loop", "drain", "write", "send", "exit"}]
      /\ todo \in [Handlers -> 0..MAX_WINDOW_SIZE]
      /\ cnt \in [Handlers -> 0..MAX_WINDOW_SIZE]
      /\ remove \in [Handlers -> BOOLEAN]
      /\ file_buffer \in [Handlers -> Seq(Packets)]
      /\ delivered \in Nat
  BY DEF IInv, TypeOK
<1>3. /\ pc' \in [Handlers -> {"pop", "lock", "loop", "drain", "write", "send", "exit"}]
      /\ todo' \in [Handlers -> 0..MAX_WINDOW_SIZE]
      /\ cnt' \in [Handlers -> 0..MAX_WINDOW_SIZE]
      /\ remove' \in [Handlers -> BOOLEAN]
  BY <1>2, Sizes DEF Release
<1>4. file_buffer' \in [Handlers -> Seq(Packets)]
  BY <1>2, SeqEmpty DEF Release
<1>5. pc'[h] \in {"send", "pop"} /\ cnt'[h] = 0 /\ file_buffer'[h] = <<>>
  BY <1>2 DEF Release
<1>6. ASSUME NEW g \in Handlers \ {h}
      PROVE  /\ pc'[g] \notin {"loop", "drain", "write"}
             /\ cnt'[g] = 0 /\ file_buffer'[g] = <<>>
  <2>1. pc'[g] = pc[g] /\ cnt'[g] = cnt[g] /\ file_buffer'[g] = file_buffer[g]
    BY <1>2 DEF Release
  <2>2. pc[g] \notin {"loop", "drain", "write"}
    BY <1>1, SMTT(30) DEF IInv, LockHolder
  <2>3. cnt[g] = 0
    BY <2>2 DEF IInv, DrainState, DrainOf
  <2>4. Len(file_buffer[g]) = min(delivered + 0, LastPacket) - min(delivered, LastPacket)
    BY <2>3 DEF IInv, Chunk
  <2>5. Len(file_buffer[g]) = 0
    BY <1>2, <2>4, Sizes DEF min
  <2>6. file_buffer[g] = <<>>
    BY <1>2, <2>5, SeqNothing
  <2> QED
    BY <2>1, <2>2, <2>3, <2>6
<1> QED
  BY <1>1, <1>3, <1>4, <1>5, <1>6 DEF Released

\* So nothing is left to say about drains and chunks.
LEMMA ReleasedInv ==
  ASSUME Released, delivered' \in Nat
  PROVE  LockHolder' /\ DrainState' /\ Chunk' /\ Drained' = 0
<1>1. LockHolder' /\ DrainState' /\ Drained' = 0
  BY Sizes DEF Released, LockHolder, DrainState, DrainOf, Drained
<1>2. \A d \in Nat : min(d + 0, LastPacket) - min(d, LastPacket) = 0
  BY Sizes DEF min
<1>3. Chunk'
  BY <1>2, SeqEmpty DEF Released, Chunk
<1> QED
  BY <1>1, <1>3, SMTT(30)

\* Releasing the lock when nothing was drained.
LEMMA NothingToWriteInv ==
  ASSUME IInv, NEW h \in Handlers, NothingToWrite(h)
  PROVE  IInv'
<1>1. Drained = 0 /\ Released /\ pc[h] = "write" /\ cnt[h] = 0
  BY ReleaseFacts, Zenon DEF NothingToWrite, Release
<1>2. UNCHANGED <<replies, len_to_send, window, active, file, pos, delivered, faults>>
  BY DEF NothingToWrite, sending, output
<1>3. delivered \in Nat /\ delivered' \in Nat
  BY <1>2 DEF IInv, TypeOK
<1>4. LockHolder' /\ DrainState' /\ Chunk' /\ Drained' = 0
  BY <1>1, <1>3, ReleasedInv, SMTT(30)
<1>5. TypeOK'
  BY <1>1, <1>2, SMTT(30) DEF IInv, TypeOK, Released
<1>6. LowIsDelivered' /\ Activity' /\ FileContent'
  BY <1>2 DEF IInv, LowIsDelivered, Activity, FileContent, InOrderFile
<1>7. NodesHoldWindow'
  BY <1>1, <1>2, <1>4 DEF IInv, NodesHoldWindow, Occupied
<1>8. NothingLeft'
  <2>1. delivered + 0 = delivered
    BY <1>3, SMTT(30)
  <2>2. Cursor(h) = U8(delivered)
    BY <1>1, <2>1, DrainCursor, Zenon
  <2>3. window.nodes[hash(Cursor(h))] = Unused
    BY <1>1 DEF IInv, DrainState, DrainOf
  <2> QED
    BY <1>2, <2>2, <2>3 DEF IInv, NothingLeft, LowIsDelivered, SeqNum
<1> QED
  BY <1>4, <1>5, <1>6, <1>7, <1>8 DEF IInv

\* fwrite yields a sequence of packets that reaches at least to the end of
\* what was written, and appends when the position is the end of the file.
LEMMA OverwriteFacts ==
  ASSUME NEW content \in Seq(Packets), NEW chunk \in Seq(Packets),
         NEW at \in Nat, at <= Len(content)
  PROVE  /\ Overwrite(content, at, chunk) \in Seq(Packets)
         /\ Len(Overwrite(content, at, chunk)) >= at + Len(chunk)
         /\ at = Len(content) => Overwrite(content, at, chunk) = content \o chunk
<1> DEFINE head == SubSeq(content, 1, at)
           from == at + Len(chunk) + 1
           rest == SubSeq(content, from, Len(content))
<1>1. /\ Len(content) \in Nat /\ Len(chunk) \in Nat /\ from \in Nat /\ 1 <= from
      /\ \A i \in 1..Len(content) : content[i] \in Packets
  BY SeqType
<1>2. head \in Seq(Packets) /\ Len(head) = at
  <2>1. at \in 0..Len(content)
    BY <1>1
  <2> QED
    BY <2>1, SeqPrefix
<1>3. /\ rest \in Seq(Packets) /\ Len(rest) \in Nat
      /\ from > Len(content) => rest = <<>>
  <2>1. from \in Nat \ {0}
    BY <1>1
  <2> HIDE DEF from
  <2>2. /\ rest \in Seq(Packets)
        /\ from > Len(content) => rest = <<>>
    BY <2>1, SeqSuffix
  <2> QED
    BY <2>2, SeqType
<1> HIDE DEF head, rest
<1>4. head \o chunk \in Seq(Packets) /\ Len(head \o chunk) = at + Len(chunk)
  BY <1>2, SeqConcat, Zenon
<1>5. /\ (head \o chunk) \o rest \in Seq(Packets)
      /\ Len((head \o chunk) \o rest) = at + Len(chunk) + Len(rest)
  <2> DEFINE front == head \o chunk
  <2>1. front \in Seq(Packets) /\ Len(front) = at + Len(chunk)
    BY <1>4
  <2> HIDE DEF front
  <2>2. front \in Seq(Packets) /\ rest \in Seq(Packets)
    BY <1>3, <2>1
  <2>3. front \o rest \in Seq(Packets) /\ Len(front \o rest) = Len(front) + Len(rest)
    BY <2>2, SeqConcat
  <2> QED
    BY <2>1, <2>3, Zenon DEF front
<1>6. Overwrite(content, at, chunk) = (head \o chunk) \o rest
  BY DEF Overwrite, head, rest
<1>7. ASSUME at = Len(content)
      PROVE  (head \o chunk) \o rest = content \o chunk
  <2>1. head = content
    BY <1>7, SeqWhole DEF head
  <2>2. rest = <<>>
    <3>1. from > Len(content)
      BY <1>1, <1>7
    <3> QED
      BY <1>3, <3>1
  <2> QED
    BY <1>4, <2>1, <2>2, SeqConcatEmpty
<1>8. Len((head \o chunk) \o rest) >= at + Len(chunk)
  <2>1. \A l \in Nat, r \in Nat : at + l + r >= at + l
    OBVIOUS
  <2> QED
    BY <1>1, <1>3, <1>5, <2>1
<1> QED
  BY <1>5, <1>6, <1>7, <1>8, SMTT(30)

\* What Commit does, in terms of the packets it delivers.
Delivers(h) ==
  /\ delivered \in Nat /\ cnt[h] \in Nat \ {0}
  /\ delivered' = delivered + cnt[h]
  /\ delivered <= LastPacket /\ delivered' <= LastPacket + 1
  /\ active' <=> delivered' # LastPacket + 1
  /\ window' \in Windows
  /\ window'.nodes = window.nodes
  /\ window'.window_low = U8(delivered')
  /\ window.nodes[hash(U8(delivered'))] = Unused

\* Commit advances the window to the packet that is due next.
LEMMA CommitFacts ==
  ASSUME IInv, NEW h \in Handlers, Commit(h), cnt[h] > 0
  PROVE  Delivers(h)
<1> DEFINE c == cnt[h]
<1>1. /\ delivered \in Nat /\ c \in Nat /\ c > 0 /\ delivered' = delivered + c
      /\ pc[h] = "write" /\ active' = (active /\ ~remove[h])
  BY Sizes, SMTT(30) DEF IInv, TypeOK, Commit, Release
<1>2. /\ delivered + c <= LastPacket + 1
      /\ remove[h] <=> (delivered + c = LastPacket + 1)
      /\ window.nodes[hash(Cursor(h))] = Unused
  BY <1>1, SMTT(30) DEF IInv, DrainState, DrainOf
<1>3. Cursor(h) = U8(delivered')
  BY <1>1, DrainCursor
<1>4. /\ window' \in Windows /\ window'.nodes = window.nodes
      /\ window'.window_low = Cursor(h)
  <2>1. /\ window \in Windows /\ window.length - c \in Int
        /\ window.window_low + c \in Int
    <3>1. window \in Windows /\ window.length \in Int /\ window.window_low \in Int
      BY Sizes DEF IInv, TypeOK, Windows, SeqNums
    <3> QED
      BY <1>1, <3>1, SMTT(30)
  <2>2. U8(window.length - c) \in SeqNums /\ U8(window.window_low + c) \in SeqNums
    BY <2>1, U8Type
  <2> QED
    BY <2>1, <2>2, Zenon DEF Windows, Cursor, Commit
<1> HIDE DEF c
<1>5. delivered <= LastPacket /\ active
  <2>1. delivered <= LastPacket
    BY <1>1, <1>2, Sizes
  <2> QED
    BY <2>1, SMTT(30) DEF IInv, Activity
<1>6. c \in Nat \ {0} /\ delivered' <= LastPacket + 1
  BY <1>1, <1>2
<1>7. active' <=> delivered' # LastPacket + 1
  BY <1>1, <1>2, <1>5, Zenon
<1> QED
  BY <1>1, <1>2, <1>3, <1>4, <1>5, <1>6, <1>7, Zenon DEF Delivers, c

\* The file and its position indicator after a write.
LEMMA CommitWrites ==
  ASSUME IInv, NEW h \in Handlers, Commit(h), cnt[h] > 0
  PROVE  /\ file' \in Seq(Packets) /\ pos' \in Nat /\ pos' <= Len(file')
         /\ pos' = pos + Len(file_buffer[h])
         /\ pos = Len(file) => file' = file \o file_buffer[h]
<1>1. /\ file_buffer[h] \in Seq(Packets) /\ Len(file_buffer[h]) \in Nat
      /\ file \in Seq(Packets) /\ pos \in Nat /\ pos <= Len(file)
  BY SeqType DEF IInv, TypeOK, FileContent
<1>2. /\ file' = Overwrite(file, pos, file_buffer[h])
      /\ pos' = pos + Len(file_buffer[h])
  BY DEF Commit
<1>3. /\ file' \in Seq(Packets) /\ Len(file') >= pos + Len(file_buffer[h])
      /\ pos = Len(file) => file' = file \o file_buffer[h]
  BY <1>1, <1>2, OverwriteFacts, Zenon
<1>4. Len(file') \in Nat
  BY <1>3, SeqType
<1>5. pos' \in Nat /\ pos' <= Len(file')
  BY <1>1, <1>2, <1>3, <1>4
<1> QED
  BY <1>2, <1>3, <1>5

\* A write at the end of the file extends the delivered prefix.
LEMMA CommitFile ==
  ASSUME IInv, NEW h \in Handlers, Commit(h), cnt[h] > 0
  PROVE  FileContent'
<1> DEFINE chunk == file_buffer[h]
           l == Len(file)
           m == Len(chunk)
<1>1. /\ file' \in Seq(Packets) /\ pos' \in Nat /\ pos' <= Len(file')
      /\ pos' = pos + m
      /\ pos = l => file' = file \o chunk
  BY CommitWrites, SMTT(30)
<1>2. delivered \in Nat /\ delivered' \in Nat /\ delivered <= LastPacket
      /\ cnt[h] \in Nat /\ delivered' = delivered + cnt[h]
  BY CommitFacts DEF Delivers
<1>3. faults' = faults
  BY DEF Commit
<1>4. ASSUME faults = 0
      PROVE  InOrderFile' /\ pos' = Len(file')
  <2>1. min(delivered, LastPacket) = delivered /\ min(delivered', LastPacket) \in Int
    BY <1>2, Sizes DEF min
  <2>2. pos = l /\ l = delivered /\ \A i \in 1..delivered : file[i] = i - 1
    BY <1>4, <2>1, SMTT(30) DEF IInv, FileContent, InOrderFile
  <2>3. /\ m = min(delivered', LastPacket) - delivered
        /\ \A i \in 1..m : chunk[i] = delivered + i - 1
    BY <1>2, <2>1 DEF IInv, Chunk
  <2>4. file \in Seq(Packets) /\ chunk \in Seq(Packets) /\ m \in Nat
    BY SeqType DEF IInv, TypeOK
  <2> HIDE DEF chunk
  <2>5. /\ Len(file') = l + m
        /\ \A i \in 1..(l + m) :
             file'[i] = IF i <= l THEN file[i] ELSE chunk[i - l]
    BY <1>1, <2>2, <2>4, SeqConcat, SMTT(30)
  <2> HIDE DEF l, m
  <2>6. Len(file') = min(delivered', LastPacket) /\ pos' = Len(file')
    BY <1>1, <1>2, <2>1, <2>2, <2>3, <2>4, <2>5
  <2>7. ASSUME NEW i \in 1..(l + m)
        PROVE  file'[i] = i - 1
    <3>1. CASE i <= l
      BY <1>2, <2>2, <2>4, <2>5, <3>1, SMTT(30)
    <3>2. CASE i > l
      <4>1. i - delivered \in 1..m
        BY <1>2, <2>2, <2>4, <3>2
      <4>2. file'[i] = chunk[i - delivered]
        BY <1>2, <2>2, <2>4, <2>5, <3>2
      <4>3. chunk[i - delivered] = delivered + (i - delivered) - 1
        BY <2>3, <4>1, SMTT(30)
      <4> QED
        BY <1>2, <4>2, <4>3
    <3> QED
      BY <1>2, <2>2, <2>4, <3>1, <3>2, SMTT(30)
  <2> QED
    BY <2>5, <2>6, <2>7 DEF InOrderFile
<1> QED
  BY <1>1, <1>3, <1>4 DEF FileContent

\* A release that keeps the nodes keeps them in the window, whether or not
\* the drained packets count as delivered.
LEMMA ReleasedNodes ==
  ASSUME IInv, NEW h \in Handlers, Drained = cnt[h], Drained' = 0,
         window'.nodes = window.nodes, delivered' \in {delivered, delivered + cnt[h]}
  PROVE  NodesHoldWindow'
<1>1. delivered \in Nat /\ cnt[h] \in Nat /\ window \in Windows
  BY Sizes, SMTT(30) DEF IInv, TypeOK
<1> SUFFICES ASSUME NEW i \in Occupied(window)
             PROVE  /\ delivered' + 0 <= window.nodes[i]
                    /\ window.nodes[i] < delivered' + MAX_WINDOW_SIZE
                    /\ hash(SeqNum(window.nodes[i])) = i
  BY SMTT(30) DEF NodesHoldWindow, Occupied
<1> DEFINE n == window.nodes[i]
           c == cnt[h]
<1>2. n \in Nat
  BY <1>1, Sizes, SMTT(30) DEF Occupied, Windows, Packets
<1>3. delivered + c <= n /\ n < delivered + MAX_WINDOW_SIZE /\ hash(SeqNum(n)) = i
  BY DEF IInv, NodesHoldWindow
<1> HIDE DEF n, c
<1>4. \A d \in {delivered, delivered + c} : d + 0 <= n /\ n < d + MAX_WINDOW_SIZE
  <2>1. c \in Nat
    BY <1>1 DEF c
  <2> QED
    BY <1>1, <1>2, <1>3, <2>1, Sizes
<1> QED
  BY <1>3, <1>4, SMTT(30) DEF n, c

\* A complete write preserves the invariant.
LEMMA CommitInv ==
  ASSUME IInv, NEW h \in Handlers, Commit(h), cnt[h] > 0
  PROVE  IInv'
<1>1. Drained = cnt[h] /\ Released
  BY ReleaseFacts DEF Commit
<1>2. Delivers(h)
  BY CommitFacts
<1>3. delivered' \in Nat
  BY <1>2 DEF Delivers
<1>4. LockHolder' /\ DrainState' /\ Chunk' /\ Drained' = 0
  BY <1>1, <1>3, ReleasedInv
<1>5. FileContent' /\ file' \in Seq(Packets) /\ pos' \in Nat
  BY CommitFile, CommitWrites, SMTT(30)
<1>6. TypeOK'
  <2>1. Ack(window', delivered') \in Replies
    BY <1>2, <1>3, AckType DEF Delivers
  <2>2. replies' \in [Handlers -> SUBSET Replies] /\ len_to_send' \in [Handlers -> Nat]
    <3>1. replies[h] \cup {Ack(window', delivered')} \in SUBSET Replies
      BY <2>1 DEF IInv, TypeOK
    <3> QED
      BY <3>1, SMTT(30) DEF IInv, TypeOK, Prepare, Commit
  <2>3. active' \in BOOLEAN /\ faults' \in 0..MaxWriteFaults
    BY DEF IInv, TypeOK, Commit
  <2> QED
    BY <1>1, <1>2, <1>3, <1>5, <2>2, <2>3, ZenonT(30) DEF TypeOK, Released, Delivers
<1>7. LowIsDelivered' /\ NothingLeft'
  BY <1>2, SMTT(30) DEF Delivers, LowIsDelivered, NothingLeft, SeqNum
<1>8. NodesHoldWindow'
  BY <1>1, <1>2, <1>4, ReleasedNodes DEF Delivers
<1>9. Activity'
  <2>1. delivered' \in Nat /\ delivered' <= LastPacket + 1
        /\ (active' <=> delivered' # LastPacket + 1)
    BY <1>2, <1>3 DEF Delivers
  <2> QED
    BY <2>1, Sizes, SMTT(30) DEF Activity
<1> QED
  BY <1>4, <1>5, <1>6, <1>7, <1>8, <1>9 DEF IInv

\* A short write leaves a sequence of packets and a position inside it.
LEMMA ShortWrite ==
  ASSUME IInv, NEW h \in Handlers, WriteFails(h), cnt[h] > 0
  PROVE  file' \in Seq(Packets) /\ pos' \in Nat /\ pos' <= Len(file')
<1> DEFINE chunk(r) == SubSeq(file_buffer[h], 1, r)
<1>1. PICK r \in 0..(Len(file_buffer[h]) - 1) :
        /\ file' = Overwrite(file, pos, chunk(r))
        /\ pos' = IF r = 0 THEN 0 ELSE pos + r
  BY DEF WriteFails
<1>2. /\ file_buffer[h] \in Seq(Packets) /\ Len(file_buffer[h]) \in Nat
      /\ pos \in Nat /\ pos <= Len(file) /\ file \in Seq(Packets)
  BY SeqType DEF IInv, TypeOK, FileContent
<1>3. r \in 0..Len(file_buffer[h])
  BY <1>2
<1>4. chunk(r) \in Seq(Packets) /\ Len(chunk(r)) = r
  BY <1>2, <1>3, SeqPrefix
<1> HIDE DEF chunk
<1>5. file' \in Seq(Packets) /\ Len(file') >= pos + r
  BY <1>1, <1>2, <1>4, OverwriteFacts
<1>6. Len(file') \in Nat
  BY <1>5, SeqType
<1> QED
  BY <1>1, <1>2, <1>5, <1>6

\* After draining something the node of window_low is unused.
LEMMA DrainedLow ==
  ASSUME IInv, NEW h \in Handlers, Drained = cnt[h], cnt[h] > 0
  PROVE  window.nodes[hash(U8(delivered))] = Unused
<1> DEFINE k == hash(U8(delivered))
           n == window.nodes[k]
           c == cnt[h]
<1>1. delivered \in Nat /\ delivered \in Int /\ c \in Nat /\ window \in Windows
  BY Sizes DEF IInv, TypeOK
<1>2. k \in Indexes
  BY <1>1, U8Type, HashType DEF SeqNums
<1>3. SUFFICES ASSUME n # Unused PROVE FALSE
  OBVIOUS
<1>4. k \in Occupied(window) /\ n \in Nat
  BY <1>1, <1>2, <1>3, Sizes, SMTT(30) DEF Occupied, Windows, Packets
<1>5. delivered + c <= n /\ n < delivered + MAX_WINDOW_SIZE /\ hash(U8(n)) = k
  BY <1>4 DEF IInv, NodesHoldWindow, SeqNum
<1>6. c > 0
  BY SMTT(30)
<1> HIDE DEF n, c
<1>7. n - delivered < MAX_BUFFER_SIZE /\ delivered - n < MAX_BUFFER_SIZE
      /\ n \in Int /\ n # delivered
  BY <1>1, <1>4, <1>5, <1>6, Sizes
<1> QED
  BY <1>1, <1>5, <1>7, NoCollision, Zenon

\* A short write leaves the window and the counters as they are.
LEMMA WriteFailsInv ==
  ASSUME IInv, NEW h \in Handlers, WriteFails(h), cnt[h] > 0
  PROVE  IInv'
<1>1. Drained = cnt[h] /\ Released /\ cnt[h] > 0
  BY ReleaseFacts DEF WriteFails
<1>2. /\ UNCHANGED <<window, active, delivered>>
      /\ faults' = faults + 1 /\ faults < MaxWriteFaults
  BY SMTT(30) DEF WriteFails
<1>3. delivered' \in Nat /\ faults' \in 1..MaxWriteFaults
  BY <1>2, Sizes DEF IInv, TypeOK
<1>4. LockHolder' /\ DrainState' /\ Chunk' /\ Drained' = 0
  BY <1>1, <1>3, ReleasedInv
<1>5. file' \in Seq(Packets) /\ pos' \in Nat /\ pos' <= Len(file')
  BY ShortWrite
<1>6. TypeOK'
  <2>1. replies' \in [Handlers -> SUBSET Replies] /\ len_to_send' \in [Handlers -> Nat]
    BY SMTT(30) DEF IInv, TypeOK, WriteFails
  <2>2. faults' \in 0..MaxWriteFaults
    BY <1>3, Sizes
  <2> QED
    BY <1>1, <1>2, <1>3, <1>5, <2>1, <2>2, ZenonT(30) DEF IInv, TypeOK, Released
<1>7. LowIsDelivered' /\ Activity'
  BY <1>2 DEF IInv, LowIsDelivered, Activity
<1>8. FileContent'
  BY <1>3, <1>5 DEF FileContent
<1>9. NodesHoldWindow'
  BY <1>1, <1>2, <1>4, ReleasedNodes, SMTT(30)
<1>10. NothingLeft'
  BY <1>1, <1>2, DrainedLow DEF IInv, NothingLeft, LowIsDelivered, SeqNum
<1> QED
  BY <1>4, <1>6, <1>7, <1>8, <1>9, <1>10, SMTT(30) DEF IInv

-----------------------------------------------------------------------------
\* IInv is inductive: one lemma per group of actions.
LEMMA NextInv == IInv /\ [Next]_vars => IInv'
<1> SUFFICES ASSUME IInv, [Next]_vars PROVE IInv'
  OBVIOUS
<1>1. CASE UNCHANGED vars
  <2>1. TypeOK'
    BY <1>1, SMTT(30) DEF vars, IInv, TypeOK
  <2>2. UNCHANGED <<cnt, remove, file_buffer, lock, window, output>> /\ UNCHANGED pc
    BY <1>1, SMTT(30) DEF vars, output
  <2> QED
    BY SMTT(30), <2>1, <2>2, FrameInv
<1>2. CASE Next
  <2>1. PICK h \in Handlers : Pop(h) \/ PopStop(h) \/ Step(h)
    BY <1>2 DEF Next
  <2>2. CASE Pop(h) \/ PopStop(h) \/ Send(h)
    BY <2>2, OutsideInv
  <2>3. CASE Lock(h)
    BY <2>3, LockInv
  <2>4. CASE \/ AckInvalid(h) \/ AckInactive(h) \/ IgnoreNonData(h)
             \/ \E n \in Deliverable :
                  NackTruncated(h, n) \/ AckOutOfWindow(h, n) \/ AckDuplicate(h, n)
    BY <2>4, RepliesInv
  <2>5. CASE \E n \in Deliverable : Store(h, n)
    BY <2>5, StoreInv
  <2>6. CASE StartDrain(h) \/ DrainEnd(h)
    BY <2>6, StartDrainInv, DrainEndInv
  <2>7. CASE DrainOne(h)
    BY <2>7, DrainOneInv
  <2>8. CASE NothingToWrite(h)
    BY <2>8, NothingToWriteInv
  <2>9. CASE Commit(h) /\ cnt[h] > 0
    BY <2>9, CommitInv
  <2>10. CASE WriteFails(h) /\ cnt[h] > 0
    BY <2>10, WriteFailsInv
  <2> QED
    BY <2>1, <2>2, <2>3, <2>4, <2>5, <2>6, <2>7, <2>8, <2>9, <2>10, SMTT(30)
    DEF Step, Local, Write, Arrive
<1> QED
  BY <1>1, <1>2

\* Every reachable state of hd_run_once satisfies the inductive invariant.
THEOREM Invariant == Spec => []IInv
BY InitInv, NextInv, PTL DEF Spec

-----------------------------------------------------------------------------
(* What the invariant says of the program. *)

\* Every variable of hd_run_once keeps its type: no counter leaves its
\* uint8_t, no drain takes more than MAX_WINDOW_SIZE nodes.
THEOREM TypeCorrect == Spec => []TypeOK
<1>1. IInv => TypeOK
  BY DEF IInv
<1> QED
  BY <1>1, Invariant, PTL

\* The buffer only ever holds packets of the current window, each in the node
\* its sequence number hashes to, even after short writes.
THEOREM WindowIntegrity == Spec => []NodesHoldWindow
<1>1. IInv => NodesHoldWindow
  BY DEF IInv
<1> QED
  BY <1>1, Invariant, PTL

\* Without short writes the file is written in order, each payload once, for
\* every interleaving of handlers and every reordering, loss or repetition by
\* the network within the lifetime of a packet.
THEOREM FileInOrder ==
  ASSUME MaxWriteFaults = 0
  PROVE  Spec => []InOrderFile
<1>1. IInv => InOrderFile
  BY SMTT(30) DEF IInv, TypeOK, FileContent
<1> QED
  BY <1>1, Invariant, PTL

\* fwrite is never called after fclose, and a client becomes inactive exactly
\* when its end-of-file packet has been delivered, whatever the uninitialised
\* `remove` holds.
THEOREM ClosedOnce == Spec => []ClosedAtTheEnd
<1>1. IInv => ClosedAtTheEnd
  <2> SUFFICES ASSUME IInv, NEW h \in Handlers, pc[h] = "write", cnt[h] > 0
               PROVE  active /\ (remove[h] <=> delivered + cnt[h] > LastPacket)
    BY SMTT(30) DEF IInv, Activity, ClosedAtTheEnd
  <2>1. /\ delivered + cnt[h] <= LastPacket + 1
        /\ remove[h] <=> delivered + cnt[h] = LastPacket + 1
        /\ delivered \in Nat /\ cnt[h] \in Nat
    <3>1. DrainOf(h)
      BY Zenon DEF IInv, DrainState
    <3>2. delivered \in Nat /\ cnt[h] \in Nat
      BY SMTT(30) DEF IInv, TypeOK
    <3> QED
      BY <3>1, <3>2, Zenon DEF DrainOf
  <2>2. delivered <= LastPacket /\ (remove[h] <=> delivered + cnt[h] > LastPacket)
    <3>1. \A d, n, last \in Nat : n > 0 /\ d + n <= last + 1 =>
            d <= last /\ (d + n = last + 1 <=> d + n > last)
      OBVIOUS
    <3>2. LastPacket \in Nat
      BY Sizes
    <3> QED
      BY <2>1, <3>1, <3>2, Zenon
  <2> QED
    BY <2>2 DEF IInv, Activity
<1> QED
  BY <1>1, Invariant, PTL
=============================================================================

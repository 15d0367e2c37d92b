------------------------------ MODULE Handler ------------------------------
(***************************************************************************)
(* hd_run_once of src/handler.c, run by several handler threads on the     *)
(* requests of one client.                                                 *)
(*                                                                         *)
(* The client's peer sends the packets 0, 1, ..., LastPacket of a file.    *)
(* Packet n carries the sequence number n modulo SEQ_SPACE; its payload is *)
(* represented by n itself, and LastPacket is the empty packet that marks  *)
(* the end of the file.  A request is a batch of at most MAX_WINDOW_SIZE   *)
(* raw packets; what the network puts in it is chosen when a packet is     *)
(* unpacked, among the packets in flight (Deliverable) or a packet that    *)
(* fails to unpack.                                                        *)
(*                                                                         *)
(* The code runs under the client's lock from Lock to the release at the   *)
(* end of the drain; the replies it prepared are sent after the release.   *)
(***************************************************************************)
EXTENDS Buffer, Sequences, FiniteSets

CONSTANTS
  Handlers,         \* the handler threads
  NoThread,         \* the owner of a free lock
  LastPacket,       \* number of the end-of-file packet
  max_window_size,  \* hd_cfg_t.max_window_size, option -w
  MaxAge,           \* a packet older than delivered - MaxAge is never received
  MaxLead,          \* nor one numbered delivered + MaxLead or more
  MaxBatch,         \* bound on the packets of a request
  MaxWriteFaults    \* bound on the number of short writes

ASSUME HandlerAssumption ==
  /\ NoThread \notin Handlers
  /\ LastPacket \in Nat
  /\ max_window_size \in 0..MAX_WINDOW_SIZE
  /\ MaxAge \in Nat
  /\ MaxLead \in Nat
  /\ MAX_WINDOW_SIZE <= MaxLead
  /\ MaxAge + MaxLead <= SEQ_SPACE
  /\ MaxBatch \in 0..MAX_WINDOW_SIZE
  /\ MaxWriteFaults \in Nat

VARIABLES
  pc,           \* control state of each handler
  todo,         \* packets of its request not yet looked at
  replies,      \* packets_to_send: the replies prepared so far
  len_to_send,  \* their number
  cnt,          \* nodes drained so far
  remove,       \* was the end of the file drained?
  file_buffer,  \* payloads drained so far
  lock,         \* owner of client->lock
  window,       \* client->window
  active,       \* client->active
  file,         \* content of client->out_file
  pos,          \* its position indicator
  delivered,    \* ghost: the unbounded number window_low stands for
  faults        \* ghost: number of short writes so far

sending == <<replies, len_to_send>>
output == <<active, file, pos, delivered, faults>>
vars == <<pc, todo, replies, len_to_send, cnt, remove, file_buffer, lock, window,
          active, file, pos, delivered, faults>>

Packets == 0..LastPacket

SeqNum(n) == U8(n)

\* Packets of the peer that may still reach the receiver.  The upper bound
\* is the peer's flow control, the lower one the lifetime of a packet.
Deliverable ==
  {n \in Packets : delivered - MaxAge <= n /\ n < delivered + MaxLead}

-----------------------------------------------------------------------------
(* Replies *)

min(a, b) == IF a > b THEN b ELSE a

\* pack() keeps the low bits of the window: header = ... | (window & 0x1F)
WindowField(x) == x % MAX_BUFFER_SIZE

\* upto and room are ghosts: how far the file was delivered, and how many of
\* the MAX_WINDOW_SIZE places were free when the reply was prepared.
Reply(type, seqnum, size, w, low) ==
  [type |-> type, seqnum |-> seqnum, window |-> WindowField(size),
   upto |-> low, room |-> MAX_WINDOW_SIZE - Cardinality(Occupied(w))]

\* Mutant: the places taken are forgotten.
AckWholeWindow(w, low) ==
  Reply("ACK", w.window_low, max_window_size, w, low)

Ack(w, low) ==
  Reply("ACK", w.window_low, min(max_window_size, MAX_WINDOW_SIZE - w.length),
        w, low)

\* The code subtracts window_low where every ACK subtracts length.
Nack(w, low, n) ==
  Reply("NACK", SeqNum(n), min(max_window_size, MAX_WINDOW_SIZE - w.window_low),
        w, low)

-----------------------------------------------------------------------------
Init ==
  /\ pc = [h \in Handlers |-> "pop"]
  /\ todo = [h \in Handlers |-> 0]
  /\ replies = [h \in Handlers |-> {}]
  /\ len_to_send = [h \in Handlers |-> 0]
  /\ cnt = [h \in Handlers |-> 0]
  /\ remove = [h \in Handlers |-> FALSE]
  /\ file_buffer = [h \in Handlers |-> <<>>]
  /\ lock = NoThread
  /\ window = initialize_buffer
  /\ active = TRUE
  /\ file = <<>>
  /\ pos = 0
  /\ delivered = 0
  /\ faults = 0

\* stream_pop returns a request of the client with num packets.
Pop(h) ==
  /\ pc[h] = "pop"
  /\ \E num \in 0..MaxBatch : todo' = [todo EXCEPT ![h] = num]
  /\ pc' = [pc EXCEPT ![h] = "lock"]
  /\ UNCHANGED <<sending, cnt, remove, file_buffer, lock, window, output>>

\* stream_pop returns a stop request: the thread ends.
PopStop(h) ==
  /\ pc[h] = "pop"
  /\ pc' = [pc EXCEPT ![h] = "exit"]
  /\ UNCHANGED <<todo, sending, cnt, remove, file_buffer, lock, window, output>>

Lock(h) ==
  /\ pc[h] = "lock"
  /\ lock = NoThread
  /\ lock' = h
  /\ pc' = [pc EXCEPT ![h] = "loop"]
  /\ UNCHANGED <<todo, sending, cnt, remove, file_buffer, window, output>>

-----------------------------------------------------------------------------
(* The loop over the packets of the request: one action per branch. *)

Unpack(h) ==
  /\ pc[h] = "loop"
  /\ todo[h] > 0
  /\ todo' = [todo EXCEPT ![h] = @ - 1]
  /\ UNCHANGED <<pc, cnt, remove, file_buffer, lock, output>>

\* packets_to_send[len_to_send++] = reply.  The replies go out in one
\* sendmmsg and nothing depends on their order.
Prepare(h, reply) ==
  /\ replies' = [replies EXCEPT ![h] = @ \cup {reply}]
  /\ len_to_send' = [len_to_send EXCEPT ![h] = @ + 1]

Respond(h, reply) == Prepare(h, reply) /\ UNCHANGED window

\* unpack() failed.
AckInvalid(h) ==
  /\ Unpack(h)
  /\ Respond(h, Ack(window, delivered))

\* A valid packet for a client whose file is complete.
AckInactive(h) ==
  /\ Unpack(h)
  /\ ~active
  /\ Respond(h, Ack(window, delivered))

\* A valid ACK or NACK for an active client.
IgnoreNonData(h) ==
  /\ Unpack(h)
  /\ active
  /\ UNCHANGED <<sending, window>>

NackTruncated(h, n) ==
  /\ Unpack(h)
  /\ active
  /\ Respond(h, Nack(window, delivered, n))

AckOutOfWindow(h, n) ==
  /\ Unpack(h)
  /\ active
  /\ ~sequences(window.window_low, SeqNum(n))
  /\ Respond(h, Ack(window, delivered))

AckDuplicate(h, n) ==
  /\ Unpack(h)
  /\ active
  /\ sequences(window.window_low, SeqNum(n))
  /\ is_used(window, SeqNum(n))
  /\ Respond(h, Ack(window, delivered))

Store(h, n) ==
  /\ Unpack(h)
  /\ active
  /\ sequences(window.window_low, SeqNum(n))
  /\ ~is_used(window, SeqNum(n))
  /\ window' = next(window, SeqNum(n), n)
  /\ UNCHANGED sending

-----------------------------------------------------------------------------
(* The drain: nodes are taken in order from window_low. *)

\* `remove` is declared without a value: it starts with any.
StartDrain(h) ==
  /\ pc[h] = "loop"
  /\ todo[h] = 0
  /\ pc' = [pc EXCEPT ![h] = "drain"]
  /\ \E garbage \in BOOLEAN : remove' = [remove EXCEPT ![h] = garbage]
  /\ UNCHANGED <<todo, sending, cnt, file_buffer, lock, window, output>>

\* The sequence number the drain looks at: i & 0xFF.
Cursor(h) == U8(window.window_low + cnt[h])

\* get() returns NULL.
DrainEnd(h) ==
  /\ pc[h] = "drain"
  /\ ~is_used(window, Cursor(h))
  /\ pc' = [pc EXCEPT ![h] = "write"]
  /\ UNCHANGED <<todo, sending, cnt, remove, file_buffer, lock, window, output>>

\* Mutant: the end of the file is not recognised.
HasPayloadAlways(n) == TRUE

HasPayload(n) == n # LastPacket

DrainOne(h) ==
  /\ pc[h] = "drain"
  /\ is_used(window, Cursor(h))
  /\ LET pak == window.nodes[hash(Cursor(h))]
     IN  /\ file_buffer' = [file_buffer EXCEPT
              ![h] = IF HasPayload(pak) THEN Append(@, pak) ELSE @]
         /\ remove' = [remove EXCEPT ![h] = ~HasPayload(pak)]
  /\ window' = get(window, Cursor(h))
  /\ cnt' = [cnt EXCEPT ![h] = @ + 1]
  /\ LET more == /\ sequences(window.window_low, Cursor(h)')
                 /\ cnt'[h] < MAX_WINDOW_SIZE
                 /\ ~remove'[h]
     IN  pc' = [pc EXCEPT ![h] = IF more THEN "drain" ELSE "write"]
  /\ UNCHANGED <<todo, sending, lock, output>>

-----------------------------------------------------------------------------
(* The write, the release of the lock and the answer. *)

\* The critical section ends; its local variables die.
Release(h, next_pc) ==
  /\ pc[h] = "write"
  /\ pc' = [pc EXCEPT ![h] = next_pc]
  /\ lock' = NoThread
  /\ cnt' = [cnt EXCEPT ![h] = 0]
  /\ remove' = [remove EXCEPT ![h] = FALSE]
  /\ file_buffer' = [file_buffer EXCEPT ![h] = <<>>]
  /\ UNCHANGED todo

NothingToWrite(h) ==
  /\ cnt[h] = 0
  /\ Release(h, "send")
  /\ UNCHANGED <<sending, window, output>>

\* fwrite() of a chunk at the position indicator.
Overwrite(content, at, chunk) ==
  SubSeq(content, 1, at) \o chunk
    \o SubSeq(content, at + Len(chunk) + 1, Len(content))

Commit(h) ==
  /\ Release(h, "send")
  /\ file' = Overwrite(file, pos, file_buffer[h])
  /\ pos' = pos + Len(file_buffer[h])
  /\ window' = [window EXCEPT !.length = U8(@ - cnt[h]),
                              !.window_low = U8(@ + cnt[h])]
  /\ delivered' = delivered + cnt[h]
  /\ active' = (active /\ ~remove[h])
  /\ Prepare(h, Ack(window', delivered'))
  /\ UNCHANGED faults

\* Mutant: the early return forgets pthread_mutex_unlock.
WriteFailsLocked(h) ==
  /\ pc[h] = "write"
  /\ faults < MaxWriteFaults
  /\ pc' = [pc EXCEPT ![h] = "pop"]
  /\ faults' = faults + 1
  /\ UNCHANGED <<todo, sending, cnt, remove, file_buffer, lock, window, active, file,
                 pos, delivered>>

\* fwrite() wrote only `result` items.  fseek(-result, SEEK_SET) goes to the
\* start of the file when result is 0 and fails otherwise.  No reply is sent.
WriteFails(h) ==
  /\ faults < MaxWriteFaults
  /\ Release(h, "pop")
  /\ \E result \in 0..(Len(file_buffer[h]) - 1) :
       /\ file' = Overwrite(file, pos, SubSeq(file_buffer[h], 1, result))
       /\ pos' = IF result = 0 THEN 0 ELSE pos + result
  /\ faults' = faults + 1
  /\ replies' = [replies EXCEPT ![h] = {}]
  /\ len_to_send' = [len_to_send EXCEPT ![h] = 0]
  /\ UNCHANGED <<window, active, delivered>>

\* What was drained is written, in full or not.
Write(h) == cnt[h] > 0 /\ (Commit(h) \/ WriteFails(h))

\* Mutant: len_to_send is not reset for the next request.
SendNoReset(h) ==
  /\ pc[h] = "send"
  /\ pc' = [pc EXCEPT ![h] = "pop"]
  /\ replies' = [replies EXCEPT ![h] = {}]
  /\ UNCHANGED <<todo, len_to_send, cnt, remove, file_buffer, lock, window, output>>

\* sendmmsg, after the release; the node goes back to the receiver.
Send(h) ==
  /\ pc[h] = "send"
  /\ pc' = [pc EXCEPT ![h] = "pop"]
  /\ replies' = [replies EXCEPT ![h] = {}]
  /\ len_to_send' = [len_to_send EXCEPT ![h] = 0]
  /\ UNCHANGED <<todo, cnt, remove, file_buffer, lock, window, output>>

-----------------------------------------------------------------------------
\* Packet n of the peer is unpacked, or one of the four tests stops it.
Arrive(h, n) ==
  NackTruncated(h, n) \/ AckOutOfWindow(h, n) \/ AckDuplicate(h, n) \/ Store(h, n)

\* The steps that neither receive a packet of the peer nor answer it.
Local(h) ==
  \/ Lock(h)
  \/ AckInvalid(h) \/ AckInactive(h) \/ IgnoreNonData(h)
  \/ StartDrain(h) \/ DrainEnd(h) \/ DrainOne(h)
  \/ NothingToWrite(h) \/ Write(h)

Step(h) == Local(h) \/ (\E n \in Deliverable : Arrive(h, n)) \/ Send(h)

Next == \E h \in Handlers : Pop(h) \/ PopStop(h) \/ Step(h)

Spec == Init /\ [][Next]_vars

-----------------------------------------------------------------------------
(* Properties *)

Rooms == {MAX_WINDOW_SIZE - Cardinality(S) : S \in SUBSET Indexes}

Replies == [type : {"ACK", "NACK"}, seqnum : SeqNums, window : Indexes,
            upto : Nat, room : Rooms]

Windows == [window_low : SeqNums, length : SeqNums,
            nodes : [Indexes -> Packets \cup {Unused}]]

\* Every variable keeps its C type; the counters stay within the arrays and
\* the uint8_t they are stored in.
TypeOK ==
  /\ pc \in [Handlers -> {"pop", "lock", "loop", "drain", "write", "send", "exit"}]
  /\ todo \in [Handlers -> 0..MAX_WINDOW_SIZE]
  /\ replies \in [Handlers -> SUBSET Replies]
  /\ len_to_send \in [Handlers -> Nat]
  /\ cnt \in [Handlers -> 0..MAX_WINDOW_SIZE]
  /\ remove \in [Handlers -> BOOLEAN]
  /\ file_buffer \in [Handlers -> Seq(Packets)]
  /\ lock \in Handlers \cup {NoThread}
  /\ window \in Windows
  /\ active \in BOOLEAN
  /\ file \in Seq(Packets)
  /\ pos \in Nat
  /\ delivered \in Nat
  /\ faults \in 0..MaxWriteFaults

\* Nodes the owner of the lock has taken out and not yet accounted for.
Drained == IF lock = NoThread THEN 0 ELSE cnt[lock]

\* The file is the peer's file as far as it was delivered: each payload once,
\* in order, whatever the network lost, repeated or reordered and whichever
\* handler processed it (the drain, fwrite and window_low of hd_run_once).
InOrderFile ==
  /\ Len(file) = min(delivered, LastPacket)
  /\ \A i \in 1..Len(file) : file[i] = i - 1

\* A buffered packet is one of the current window, in the only node its
\* sequence number hashes to: hash() has no collision within a window, and
\* sequences[][] admits no packet of an earlier turn of the 8-bit counter.
NodesHoldWindow ==
  \A i \in Occupied(window) :
    LET n == window.nodes[i]
    IN  /\ delivered + Drained <= n
        /\ n < delivered + MAX_WINDOW_SIZE
        /\ hash(SeqNum(n)) = i

\* buf_t.length is the number of nodes in use, from next() to the single
\* subtraction that follows a drain, as long as no write was short.
LengthIsOccupancy ==
  faults = 0 => window.length = Cardinality(Occupied(window)) + Drained

\* An ACK, however late its handler sends it after releasing the lock, names
\* a point up to which the file is written and asks for no more packets than
\* there were places in the buffer.
AckIsTruthful ==
  \A h \in Handlers : \A r \in replies[h] :
    r.type = "ACK" => /\ r.seqnum = SeqNum(r.upto)
                      /\ min(r.upto, LastPacket) <= Len(file)
                      /\ r.window <= r.room

\* fwrite is never called on a file that fclose has closed, and the client
\* becomes inactive exactly when the whole file has been delivered, whatever
\* value the uninitialised `remove` started with.
ClosedAtTheEnd ==
  /\ active <=> delivered <= LastPacket
  /\ \A h \in Handlers : pc[h] = "write" /\ cnt[h] > 0 =>
       /\ active
       /\ remove[h] <=> delivered + cnt[h] > LastPacket

\* packets_to_send has room for one reply per packet and the drain's ACK.
ReplyCapacity ==
  \A h \in Handlers : len_to_send[h] <= MAX_WINDOW_SIZE + 1
=============================================================================

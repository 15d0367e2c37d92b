------------------------------- MODULE Buffer -------------------------------
(***************************************************************************)
(* The receive window of one client: src/buffer.c and the `sequences`      *)
(* table of src/lookup.c.                                                  *)
(*                                                                         *)
(* A window is a record                                                    *)
(*   window_low  the next sequence number to deliver (uint8_t),            *)
(*   length      the number of elements buffered (uint8_t),                *)
(*   nodes       the MAX_BUFFER_SIZE nodes, each Unused or holding the     *)
(*               packet stored in it.  A node's stale value after          *)
(*               used := false is never read, so it is not kept.           *)
(***************************************************************************)
EXTENDS Integers

CONSTANTS
  SEQ_SPACE,         \* number of sequence numbers, 2^8: seqnum is a uint8_t
  MAX_BUFFER_SIZE,   \* nodes of a window, 32; also 2^(bits of the window field)
  MAX_WINDOW_SIZE,   \* largest window, 31
  Unused             \* what an unused node holds

ASSUME BufferAssumption ==
  /\ SEQ_SPACE \in Nat \ {0}
  /\ MAX_BUFFER_SIZE \in Nat \ {0}
  /\ MAX_WINDOW_SIZE \in Nat \ {0}
  /\ MAX_BUFFER_SIZE = MAX_WINDOW_SIZE + 1
  /\ \E k \in 1..SEQ_SPACE : SEQ_SPACE = k * MAX_BUFFER_SIZE
  /\ Unused \notin Nat

\* Mutant: a counter wider than its uint8_t.
U8Wide(x) == x

\* uint8_t arithmetic
U8(x) == x % SEQ_SPACE

SeqNums == 0..(SEQ_SPACE - 1)
Indexes == 0..(MAX_BUFFER_SIZE - 1)

\* Mutant: one node for each place of the window.
hashWindow(seqnum) == seqnum % MAX_WINDOW_SIZE

\* The node a sequence number lives in: its low five bits.
hash(seqnum) == seqnum % MAX_BUFFER_SIZE

\* Mutant: the window is one too large.
sequencesPlusOne(window_low, seqnum) == U8(seqnum - window_low) <= MAX_WINDOW_SIZE

\* The lookup table sequences[window_low][seqnum]: is seqnum one of the
\* MAX_WINDOW_SIZE sequence numbers that start at window_low?
sequences(window_low, seqnum) == U8(seqnum - window_low) < MAX_WINDOW_SIZE

initialize_buffer ==
  [window_low |-> 0, length |-> 0, nodes |-> [i \in Indexes |-> Unused]]

is_used(buffer, seqnum) == buffer.nodes[hash(seqnum)] # Unused

\* next() marks the node used and the caller stores the packet in it.
next(buffer, seqnum, packet) ==
  [buffer EXCEPT !.nodes[hash(seqnum)] = packet, !.length = U8(@ + 1)]

\* Mutant: get() called with inc = true accounts for the node at once.
getInc(buffer, seqnum) ==
  [buffer EXCEPT !.nodes[hash(seqnum)] = Unused, !.length = U8(@ - 1)]

\* get() with inc = false, the only way the handler calls it: the node is
\* released, length and window_low are left to the caller.
get(buffer, seqnum) == [buffer EXCEPT !.nodes[hash(seqnum)] = Unused]

\* The nodes in use.
Occupied(buffer) == {i \in Indexes : buffer.nodes[i] # Unused}
=============================================================================

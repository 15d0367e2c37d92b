----------------------------- MODULE PacketLink -----------------------------
(***************************************************************************)
(* Packets that reach unpack (src/packet.c) from a peer over the network,  *)
(* all into the same packet_t as in hd_run_once (src/handler.c).  A router *)
(* may truncate a DATA packet; the network may flip bits of a datagram or  *)
(* cut it short.                                                           *)
(***************************************************************************)
EXTENDS Packet

CONSTANTS
  Outgoing,   \* the packets the peer sends, with Encode
  Earlier,    \* the packets it sends first, which arrive unharmed
  Built,      \* packets made with set_payload, sent with pack
  Bursts,     \* patterns of flipped bits: sets of offsets from the first
  MaxPackets  \* bound on the packets of a behaviour

VARIABLES
  sent,    \* the packet the peer encoded last
  buffer,  \* the datagram on its way
  damaged, \* was it altered other than by a router?
  out,     \* the packet_t that unpack writes to
  errno,   \* the outcome of the last call, "NONE" while a datagram travels
  packets  \* the packets sent so far

vars == <<sent, buffer, damaged, out, errno, packets>>

-----------------------------------------------------------------------------
(* The peer: the packet format of the protocol *)

BigEndian(word) == [k \in 1..4 |-> ByteOf(word, 5 - k)]

EncodeHeader(p) ==
  <<Shl(BitsOf(p.type), 6) \cup BitsOf(p.window)>>
    \o (IF p.long_length
        THEN <<{7} \cup BitsOf(p.length \div 256), BitsOf(p.length % 256)>>
        ELSE <<BitsOf(p.length)>>)
    \o <<BitsOf(p.seqnum)>>
    \o BigEndian(p.timestamp)

Encode(p) ==
  LET header == EncodeHeader(p)
  IN  [header EXCEPT ![1] = @ \cup (IF p.truncated THEN {5} ELSE {})]
        \o BigEndian(crc32_bitwise(header, {}))
        \o (IF HasPayload(p)
            THEN Payload(p) \o BigEndian(crc32_bitwise(Payload(p), {}))
            ELSE <<>>)

-----------------------------------------------------------------------------

Init ==
  /\ sent = init_packet
  /\ buffer = <<>>
  /\ damaged = FALSE
  /\ out = init_packet
  /\ errno = "OK"
  /\ packets = 0

Start(packet, datagram) ==
  /\ errno # "NONE"
  /\ packets < MaxPackets
  /\ sent' = packet
  /\ buffer' = datagram
  /\ damaged' = FALSE
  /\ errno' = "NONE"
  /\ packets' = packets + 1
  /\ UNCHANGED out

Send ==
  \E p \in IF packets < MaxPackets - 1 THEN Earlier ELSE Outgoing :
    Start(p, Encode(p))

\* A peer built from this code, as the tests do.
SendBuilt == packets = MaxPackets - 1 /\ \E p \in Built : Start(p, pack(p, TRUE))

\* A router drops the payload and sets the bit that crc1 leaves out.
Truncate ==
  /\ errno = "NONE"
  /\ ~damaged
  /\ HasPayload(sent)
  /\ sent' = [sent EXCEPT !.truncated = TRUE]
  /\ buffer' = Encode(sent')
  /\ UNCHANGED <<damaged, out, errno, packets>>

Flip(bits) ==
  [i \in DOMAIN buffer |->
     Xor(buffer[i], {b \in 0..7 : 8 * (i - 1) + b \in bits})]

\* The truncated bit is not protected: it is bit 5 of the first byte.
Corrupt(at, burst) ==
  /\ errno = "NONE"
  /\ packets = MaxPackets
  /\ ~damaged
  /\ damaged' = TRUE
  /\ LET bits == {at + b : b \in burst}
     IN  /\ 5 \notin bits
         /\ \A b \in bits : b < 8 * Len(buffer)
         /\ buffer' = Flip(bits)
  /\ UNCHANGED <<sent, out, errno, packets>>

Cut(length) ==
  /\ errno = "NONE"
  /\ packets = MaxPackets
  /\ ~damaged
  /\ damaged' = TRUE
  /\ buffer' = SubSeq(buffer, 1, length)
  /\ UNCHANGED <<sent, out, errno, packets>>

Unpack ==
  /\ errno = "NONE"
  /\ LET result == unpack(buffer, out)
     IN  out' = result.out /\ errno' = result.errno
  /\ UNCHANGED <<sent, buffer, damaged, packets>>

Next ==
  \/ Send
  \/ SendBuilt
  \/ Truncate
  \/ \E at \in 0..(8 * Len(buffer) - 1), burst \in Bursts : Corrupt(at, burst)
  \/ \E length \in 0..(Len(buffer) - 1) : Cut(length)
  \/ Unpack

Spec == Init /\ [][Next]_vars

-----------------------------------------------------------------------------
(* Properties *)

\* Is p what the peer meant?  The payload counts where there is one.
Same(p, q) ==
  /\ \A field \in {"type", "truncated", "window", "length", "seqnum",
                   "long_length", "timestamp"} : p[field] = q[field]
  /\ HasPayload(q) => Payload(p) = Payload(q)

Arrived == errno # "NONE" /\ packets > 0 /\ ~damaged

\* A datagram that arrives as it was sent is decoded to the packet that was
\* sent, whatever earlier packets left in out: DATA in both forms of the
\* length, with a payload or truncated by a router, and ACK and NACK.
Delivered ==
  Arrived /\ sent.type # IGNORE => errno = "OK" /\ out \in Packets /\ Same(out, sent)

\* No datagram that the network altered, other than in the truncated bit,
\* is accepted: not with a bit of the lengths, the type or a checksum
\* flipped, not with its payload cut off, whatever out held before.
DamageRejected == damaged /\ errno # "NONE" => errno \in Errors

Repacked ==
  \A recompute_crc2 \in BOOLEAN : pack(out, recompute_crc2) = buffer

\* pack undoes unpack: a packet with a length of one byte that was accepted,
\* packed again, is the same datagram; whether crc2 is computed again or taken
\* from the packet.
ShortRepacked == Arrived /\ errno = "OK" /\ ~out.long_length => Repacked
=============================================================================

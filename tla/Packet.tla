------------------------------- MODULE Packet -------------------------------
(***************************************************************************)
(* The codec of src/packet.c.  A datagram is a sequence of bytes; the      *)
(* 32-bit fields of a packet are words (see Crc32), the others numbers.    *)
(* The machine is little-endian, so htonl, ntohl, htons and ntohs swap.    *)
(***************************************************************************)
EXTENDS Crc32

CONSTANT MAX_PAYLOAD_SIZE

ASSUME PayloadAssumption == MAX_PAYLOAD_SIZE \in 0..512

IGNORE == 0
DATA == 1
ACK == 2
NACK == 3

Packets ==
  [type : IGNORE..NACK, truncated : BOOLEAN, window : 0..31,
   long_length : BOOLEAN, length : 0..(2^15 - 1), seqnum : 0..255,
   timestamp : SUBSET (0..31), crc1 : SUBSET (0..31), crc2 : SUBSET (0..31),
   payload : [1..MAX_PAYLOAD_SIZE -> Byte]]

\* The errors of unpack, FAILED_TO_COPY and PAYLOAD_TOO_LONG left out: memcpy
\* returns its target, and the length is checked before it is used.
Errors ==
  {"PACKET_TOO_SHORT", "PACKET_TOO_LONG", "PACKET_INCORRECT_LENGTH",
   "TYPE_IS_WRONG", "NON_DATA_TRUNCATED", "CRC_VALIDATION_FAILED",
   "PAYLOAD_VALIDATION_FAILED"}

BitsOf(n) == {b \in 0..15 : (n \div 2^b) % 2 = 1}

ValueOf(bits) ==
  LET value[b \in 0..16] ==
        IF b = 0 THEN 0
        ELSE value[b - 1] + (IF b - 1 \in bits THEN 2^(b - 1) ELSE 0)
  IN  value[16]

\* htonl and ntohl
Swap(word) == {8 * (3 - (i \div 8)) + (i % 8) : i \in word}

\* A word written to and read from four bytes, least significant first.
ToBuffer(word) == [k \in 1..4 |-> ByteOf(word, k)]

U32_FROM_BUFFER(buffer, at) == UNION {Shl(buffer[at + k], 8 * k) : k \in 0..3}

CRC32H(data) == crc32_8bytes(data, {})

CRC32P(data) == crc32_16bytes(data, {})

-----------------------------------------------------------------------------
(* Building a packet *)

init_packet ==
  [type |-> IGNORE, truncated |-> FALSE, window |-> 0, long_length |-> FALSE,
   length |-> 0, seqnum |-> 0, timestamp |-> {}, crc1 |-> {}, crc2 |-> {},
   payload |-> [i \in 1..MAX_PAYLOAD_SIZE |-> {}]]

\* The mask is 0x11111, not a binary one.
set_length(self, length) ==
  IF length > MAX_PAYLOAD_SIZE THEN self
  ELSE [self EXCEPT !.long_length = @ \/ BitsOf(length) \cap {0, 4, 8, 12, 16}
                                           # BitsOf(length),
                    !.length = length]

set_payload(self, payload) ==
  IF Len(payload) > MAX_PAYLOAD_SIZE THEN self
  ELSE [set_length(self, Len(payload)) EXCEPT
          !.payload = [i \in 1..MAX_PAYLOAD_SIZE |->
                         IF i <= Len(payload) THEN payload[i] ELSE {}]]

Payload(packet) == SubSeq(packet.payload, 1, packet.length)

HasPayload(packet) ==
  packet.type = DATA /\ ~packet.truncated /\ packet.length # 0

-----------------------------------------------------------------------------
(* pack *)

\* The length: one byte, or two of which the first has L set.  len is
\* htons(length), its high byte shifted by 7 and not by 8.
LengthField(in) ==
  IF in.long_length
  THEN LET len == Swap(Shl(BitsOf(in.length), 16))
       IN  <<{7} \cup (len \cap (0..6)), Shr(len, 7) \cap (0..7)>>
  ELSE <<BitsOf(in.length) \cap (0..6)>>

\* A plausible slip: the truncated bit is set before crc1 is computed.
HeaderWithFlag(in) ==
  <<Shl(BitsOf(in.type), 6) \cup (BitsOf(in.window) \cap (0..4))
      \cup (IF in.truncated THEN {5} ELSE {})>>
    \o LengthField(in) \o <<BitsOf(in.seqnum)>> \o ToBuffer(Swap(in.timestamp))

\* The first 7 or 8 bytes, the truncated bit clear.
Header(in) ==
  <<Shl(BitsOf(in.type), 6) \cup (BitsOf(in.window) \cap (0..4))>>
    \o LengthField(in) \o <<BitsOf(in.seqnum)>> \o ToBuffer(Swap(in.timestamp))

\* The truncated bit is set after the checksum was computed without it.
pack(in, recompute_crc2) ==
  LET header == Header(in)
      crc1 == Swap(CRC32H(header))
      crc2 == Swap(IF recompute_crc2 THEN CRC32P(Payload(in)) ELSE in.crc2)
  IN  [header EXCEPT ![1] = @ \cup (IF in.truncated THEN {5} ELSE {})]
        \o ToBuffer(crc1)
        \o (IF HasPayload(in) THEN Payload(in) \o ToBuffer(crc2) ELSE <<>>)

-----------------------------------------------------------------------------
(* unpack *)

\* 1 if the datagram reaches a size byte with L set.
IsLong(packet) == IF Len(packet) >= 3 /\ 7 \in packet[2] THEN 1 ELSE 0

WindowField(header) == ValueOf(header \cap (0..4))

\* The header fields: out is assigned as far as the datagram reaches.
ReadHeader(packet, out) ==
  LET n == Len(packet)
      l == IsLong(packet)
      typed == [out EXCEPT
        !.type = ValueOf(Shr(packet[1], 6)),
        !.truncated = 5 \in packet[1],
        !.window = WindowField(packet[1])]
      sized == [typed EXCEPT
        !.long_length = l = 1,
        !.length = IF l = 1
                   THEN 256 * ValueOf(packet[2] \cap (0..6)) + ValueOf(packet[3])
                   ELSE ValueOf(packet[2] \cap (0..6))]
      numbered == [sized EXCEPT !.seqnum = ValueOf(packet[3 + l])]
      timed == [numbered EXCEPT
        !.timestamp = Swap(U32_FROM_BUFFER(packet, 4 + l))]
      checked == [timed EXCEPT !.crc1 = Swap(U32_FROM_BUFFER(packet, 8 + l))]
  IN  IF n < 2 THEN out
      ELSE IF n < 3 + l THEN typed
      ELSE IF n < 4 + l THEN sized
      ELSE IF n < 8 + l THEN numbered
      ELSE IF n < 11 + l THEN timed
      ELSE checked

\* A plausible slip: the payload follows a header of 11 bytes, always.
ReadPayloadAt11(packet, out) ==
  [out EXCEPT
     !.payload = [i \in 1..MAX_PAYLOAD_SIZE |->
                    IF i <= out.length THEN packet[11 + i] ELSE @[i]],
     !.crc2 = Swap(U32_FROM_BUFFER(packet, 12 + out.length))]

\* memcpy of the payload over the old one, then its checksum.
ReadPayload(packet, out) ==
  LET at == 11 + IsLong(packet)
  IN  [out EXCEPT
        !.payload = [i \in 1..MAX_PAYLOAD_SIZE |->
                       IF i <= out.length THEN packet[at + i] ELSE @[i]],
        !.crc2 = Swap(U32_FROM_BUFFER(packet, at + out.length + 1))]

\* The checksum is taken with the truncated bit cleared in the buffer itself.
HeaderIntact(packet, out) ==
  CRC32H([SubSeq(packet, 1, 7 + IsLong(packet)) EXCEPT ![1] = @ \ {5}])
    = out.crc1

\* A plausible slip: the payload is not checked.
PayloadTrusted(out) == TRUE

\* Neither a payload nor crc2 is read for an ACK or a NACK: with a length
\* above 0, those of an earlier packet in out are compared.
PayloadIntact(out) ==
  out.length > 0 /\ ~out.truncated => CRC32P(Payload(out)) = out.crc2

\* What a call leaves in out, and errno, or "OK".
unpack(packet, out) ==
  LET header == ReadHeader(packet, out)
      rest == Len(packet) - 11 - IsLong(packet)
      whole == ReadPayload(packet, header)
      left == rest - (IF HasPayload(header) THEN header.length + 4 ELSE 0)
      last == IF HasPayload(header) THEN whole ELSE header
      Result(packet_out, errno) == [out |-> packet_out, errno |-> errno]
  IN  IF rest < 0 THEN Result(header, "PACKET_TOO_SHORT")
      ELSE IF ~HeaderIntact(packet, header)
        THEN Result(header, "CRC_VALIDATION_FAILED")
      ELSE IF rest = 0 /\ HasPayload(header)
        THEN Result(header, "PACKET_TOO_SHORT")
      ELSE IF header.length > MAX_PAYLOAD_SIZE
        THEN Result(header, "PACKET_INCORRECT_LENGTH")
      ELSE IF left < 0 THEN Result(header, "PACKET_TOO_SHORT")
      ELSE IF left > 0 THEN Result(last, "PACKET_TOO_LONG")
      ELSE IF last.type = IGNORE THEN Result(last, "TYPE_IS_WRONG")
      ELSE IF last.type # DATA /\ last.truncated
        THEN Result(last, "NON_DATA_TRUNCATED")
      ELSE IF ~PayloadIntact(last)
        THEN Result(last, "PAYLOAD_VALIDATION_FAILED")
      ELSE Result(last, "OK")
=============================================================================

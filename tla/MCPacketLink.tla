---------------------------- MODULE MCPacketLink ----------------------------
(* Packets of every type with payloads of a few bytes. *)
EXTENDS PacketLink

CONSTANTS LongLengths, Lengths, BuiltLengths

\* n bytes that differ, and differ from those of another seed
Bytes(n, seed) == [i \in 1..n |-> BitsOf((seed + 41 * i) % 256)]

Template(type, long, length, seqnum, seed) ==
  [init_packet EXCEPT
     !.type = type, !.long_length = long, !.length = length,
     !.window = 21, !.seqnum = seqnum, !.timestamp = {0, 9, 18, 30},
     !.payload = [i \in 1..MAX_PAYLOAD_SIZE |->
                    IF i <= length THEN Bytes(length, seed)[i] ELSE {}]]

DataPackets ==
  {Template(DATA, long, n, 200, 77) : long \in LongLengths, n \in Lengths}

MCEarlier ==
  {Template(DATA, FALSE, n, 5, 130) : n \in {0, MAX_PAYLOAD_SIZE}}

MCOutgoing ==
  DataPackets \cup {Template(t, FALSE, 0, 7, 0) : t \in {ACK, NACK, IGNORE}}

MCBuilt ==
  {set_payload([init_packet EXCEPT !.type = DATA, !.seqnum = 255], Bytes(n, 9)) :
     n \in BuiltLengths}

MCBursts == {{0}, {0, 1}, {0, 5, 31}}
=============================================================================

\* A packet into a used packet_t, over a network that damages datagrams.
CONSTANTS
  MAX_PAYLOAD_SIZE = 4
  LongLengths = {TRUE, FALSE}
  Lengths = {0, 1, 4}
  BuiltLengths = {0, 1}
  Built <- MCBuilt
  Outgoing <- MCOutgoing
  Earlier <- MCEarlier
  Bursts <- MCBursts
  MaxPackets = 2
SPECIFICATION Spec
INVARIANTS Delivered DamageRejected ShortRepacked
CHECK_DEADLOCK FALSE

\* Tails of every kind: below 4, 8, 16 and 64 bytes, no round, one and two.
CONSTANTS
  Lengths = {3, 12, 33, 70, 133}
  Seeds = {37, 111}
  MaxCalls = 2
  Ahead = 5
SPECIFICATION Spec
INVARIANT CrcIsRemainder
CHECK_DEADLOCK FALSE

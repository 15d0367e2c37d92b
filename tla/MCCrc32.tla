------------------------------ MODULE MCCrc32 ------------------------------
(***************************************************************************)
(* A checksum computed piece by piece: each step appends a chunk to the    *)
(* data and extends the checksum over it by one of the algorithms, the     *)
(* result of the last call passed as previousCrc32.                        *)
(***************************************************************************)
EXTENDS Crc32

CONSTANTS
  Lengths,    \* of the chunks
  Seeds,      \* of the contents of the chunks
  MaxCalls,   \* bound on the chunks
  Ahead       \* prefetchAhead

VARIABLES data, crc, calls

vars == <<data, crc, calls>>

\* The bits of a number below 256.
Bits(n) == {b \in 0..7 : (n \div 2^b) % 2 = 1}

Chunks == {[i \in 1..n |-> Bits((seed * (i + n)) % 256)] :
             n \in Lengths, seed \in Seeds}

Extend(chunk, checksum) ==
  /\ calls < MaxCalls
  /\ calls' = calls + 1
  /\ data' = data \o chunk
  /\ crc' = checksum

Init == data = <<>> /\ crc = {} /\ calls = 0

Next ==
  \E chunk \in Chunks :
    \/ Extend(chunk, crc32_bitwise(chunk, crc))
    \/ Extend(chunk, crc32_halfbyte(chunk, crc))
    \/ Extend(chunk, crc32_1byte(chunk, crc))
    \/ Extend(chunk, crc32_1byte_tableless(chunk, crc))
    \/ Extend(chunk, crc32_1byte_tableless2(chunk, crc))
    \/ Extend(chunk, crc32_4bytes(chunk, crc))
    \/ Extend(chunk, crc32_8bytes(chunk, crc))
    \/ Extend(chunk, crc32_4x8bytes(chunk, crc))
    \/ Extend(chunk, crc32_16bytes_prefetch(chunk, crc, Ahead))
    \/ Extend(chunk, crc32_fast(chunk, crc))

Spec == Init /\ [][Next]_vars

-----------------------------------------------------------------------------
(* The reference: polynomials over the two-element field, as the sets of   *)
(* their exponents.                                                        *)

MaxLength == MaxCalls * (CHOOSE n \in Lengths : \A m \in Lengths : m <= n)

Generator == {32, 26, 23, 22, 16, 12, 11, 10, 8, 7, 5, 4, 2, 1, 0}

\* x^n modulo the generator, n below 64
SmallPower ==
  LET power[n \in 0..63] ==
        IF n < 32 THEN {n}
        ELSE LET p == {i + 1 : i \in power[n - 1]}
             IN  IF 32 \in p THEN Xor(p, Generator) ELSE p
  IN  [n \in 0..63 |-> power[n]]

\* The product of two remainders
Product(p, q) == XorAll([ij \in p \X q |-> SmallPower[ij[1] + ij[2]]])

\* x^(32 n) and x^n modulo the generator, for every power of a dividend
Power32 ==
  LET power[n \in 0..(MaxLength \div 4 + 1)] ==
        IF n = 0 THEN {0} ELSE Product(power[n - 1], SmallPower[32])
  IN  [n \in 0..(MaxLength \div 4 + 1) |-> power[n]]

Power ==
  [n \in 0..(8 * MaxLength + 31) |-> Product(Power32[n \div 32], {n % 32})]

\* The data as a polynomial, the first bit sent its highest power, times
\* x^32, with the first 32 bits complemented.
Dividend ==
  LET bits == 8 * Len(data)
      message == {n \in 0..(bits - 1) :
                    LET t == bits - 1 - n
                    IN  t % 8 \in data[t \div 8 + 1]}
  IN  Xor({n + 32 : n \in message}, bits..(bits + 31))

\* Whichever algorithms checked the pieces, and wherever their slices,
\* rounds and tails end, the checksum is that of the whole data: the
\* complemented remainder of its division by the generator.
CrcIsRemainder ==
  LET remainder == XorAll([n \in Dividend |-> Power[n]])
  IN  crc = {b \in 0..31 : 31 - b \notin remainder}
=============================================================================

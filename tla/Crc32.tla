------------------------------- MODULE Crc32 -------------------------------
(***************************************************************************)
(* The checksums of lib/Crc32.cpp.  A word is the set of the positions of  *)
(* its bits that are 1, bit 0 the least significant one; a byte is a word  *)
(* with no bit above 7.  The data of a call is a sequence of bytes.        *)
(***************************************************************************)
EXTENDS Integers, Sequences, FiniteSets

Byte == SUBSET (0..7)

Xor(a, b) == (a \ b) \cup (b \ a)
Not(a) == (0..31) \ a
Shr(a, n) == {i - n : i \in {j \in a : j >= n}}
Shl(a, n) == {i + n : i \in {j \in a : j + n <= 31}}

\* The exclusive or of a family of words.
XorAll(words) ==
  {b \in 0..31 : Cardinality({k \in DOMAIN words : b \in words[k]}) % 2 = 1}

\* Byte k of a word in memory, of a little-endian machine, k from 1.
ByteOf(crc, k) == Shr(crc, 8 * (k - 1)) \cap (0..7)

\* The loop every algorithm ends with: Step once per byte, between the
\* complements of the register at its two ends.
Register(Step(_, _), data, crc) ==
  LET from[i \in 1..(Len(data) + 1), c \in SUBSET (0..31)] ==
        IF i > Len(data) THEN c ELSE from[i + 1, Step(c, data[i])]
  IN  from[1, crc]

Bytewise(Step(_, _), data, previousCrc32) ==
  Not(Register(Step, data, Not(previousCrc32)))

-----------------------------------------------------------------------------
(* One bit, half a byte or a byte at a time *)

\* 0xEDB88320
Polynomial == {5, 8, 9, 15, 19, 20, 21, 23, 24, 26, 27, 29, 30, 31}

ShiftBit(crc) == Xor(Shr(crc, 1), IF 0 \in crc THEN Polynomial ELSE {})

BitwiseStep(crc, byte) ==
  LET bit[j \in 0..8] ==
        IF j = 0 THEN Xor(crc, byte) ELSE ShiftBit(bit[j - 1])
  IN  bit[8]

crc32_bitwise(data, previousCrc32) ==
  Bytewise(BitwiseStep, data, previousCrc32)

\* The columns of the table, by the loops of the comment above it.
Column(i) ==
  LET slice[s \in 0..15] ==
        IF s = 0 THEN BitwiseStep({}, i)
        ELSE LET last == slice[s - 1]
             IN  Xor(Shr(last, 8), BitwiseStep({}, last \cap (0..7)))
  IN  [s \in 0..15 |-> slice[s]]

Columns == [i \in Byte |-> Column(i)]

Crc32Lookup == [s \in 0..15 |-> [i \in Byte |-> Columns[i][s]]]

\* crc32Lookup[0][16 * i]
Crc32Lookup16(i) == Crc32Lookup[0][Shl(i, 4)]

HalfByteStep(crc, byte) ==
  LET low  == Xor(Crc32Lookup16(Xor(crc, byte) \cap (0..3)), Shr(crc, 4))
      high == Xor(low, Shr(byte, 4)) \cap (0..3)
  IN  Xor(Crc32Lookup16(high), Shr(low, 4))

crc32_halfbyte(data, previousCrc32) ==
  Bytewise(HalfByteStep, data, previousCrc32)

ByteStep(crc, byte) ==
  Xor(Shr(crc, 8), Crc32Lookup[0][Xor(ByteOf(crc, 1), byte)])

crc32_1byte(data, previousCrc32) == Bytewise(ByteStep, data, previousCrc32)

-----------------------------------------------------------------------------
(* Without a table *)

\* low * (the sum of the powers): the shifted bytes do not overlap.
Times(low, powers) == UNION {Shl(low, n) : n \in powers}

TablelessStep(crc, byte) ==
  LET s   == Xor(ByteOf(crc, 1), byte)
      low == Xor(s, Shl(s, 6)) \cap (0..7)
      a   == Times(low, {23, 14, 2})
  IN  XorAll(<<Shr(crc, 8), Times(low, {24, 16, 8}), a, Shr(a, 1),
               Times(low, {20, 12}), Shl(low, 19), Shl(low, 17), Shr(low, 2)>>)

crc32_1byte_tableless(data, previousCrc32) ==
  Bytewise(TablelessStep, data, previousCrc32)

\* A bit of the register, spread by the signed shift, masks a word.
Mask(crc, b, word) == IF b \in crc THEN word ELSE {}

Tableless2Step(crc, byte) ==
  LET x == Xor(crc, byte)
      P(n) == Shr(Polynomial, n)
  IN  XorAll(<<Shr(x, 8),
               Mask(x, 0, Xor(P(7), P(1))), Mask(x, 1, Xor(P(6), P(0))),
               Mask(x, 2, P(5)), Mask(x, 3, P(4)), Mask(x, 4, P(3)),
               Mask(x, 5, P(2)), Mask(x, 6, P(1)), Mask(x, 7, P(0))>>)

crc32_1byte_tableless2(data, previousCrc32) ==
  Bytewise(Tableless2Step, data, previousCrc32)

-----------------------------------------------------------------------------
(* Slicing: n bytes, n a multiple of 4, per exclusive or of n entries *)

\* A plausible slip: the slices in the order of the bytes.
SlicingStepForward(crc, block) ==
  LET n == Len(block)
  IN  XorAll([k \in 1..n |->
        Crc32Lookup[k - 1][IF k <= 4 THEN Xor(ByteOf(crc, k), block[k])
                           ELSE block[k]]])

SlicingStep(crc, block) ==
  LET n == Len(block)
  IN  XorAll([k \in 1..n |->
        Crc32Lookup[n - k][IF k <= 4 THEN Xor(ByteOf(crc, k), block[k])
                           ELSE block[k]]])

\* Rounds of Unroll blocks of n bytes as long as a round, and the bytes to
\* prefetch, are left; then the bytes left, one at a time.
Slicing(n, Unroll, prefetchAhead, data, previousCrc32) ==
  LET BytesAtOnce == n * Unroll
      rounds == IF Len(data) < BytesAtOnce + prefetchAhead THEN 0
                ELSE (Len(data) - prefetchAhead) \div BytesAtOnce
      blocks == [i \in 1..(rounds * Unroll) |->
                   SubSeq(data, n * (i - 1) + 1, n * i)]
      currentChar == SubSeq(data, BytesAtOnce * rounds + 1, Len(data))
  IN  Not(Register(ByteStep, currentChar,
            Register(SlicingStep, blocks, Not(previousCrc32))))

crc32_4bytes(data, previousCrc32) == Slicing(4, 1, 0, data, previousCrc32)

crc32_8bytes(data, previousCrc32) == Slicing(8, 1, 0, data, previousCrc32)

crc32_4x8bytes(data, previousCrc32) == Slicing(8, 4, 0, data, previousCrc32)

crc32_16bytes(data, previousCrc32) == Slicing(16, 4, 0, data, previousCrc32)

crc32_16bytes_prefetch(data, previousCrc32, prefetchAhead) ==
  Slicing(16, 4, prefetchAhead, data, previousCrc32)

crc32_fast(data, previousCrc32) == crc32_16bytes(data, previousCrc32)
=============================================================================

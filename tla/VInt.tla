-------------------------------- MODULE VInt --------------------------------
(***************************************************************************)
(* Variable-length integers (VIntCoding of lib/utils.js): signed ones, for *)
(* the parts of a duration, and unsigned ones, for the sizes of the        *)
(* elements of a vector.  The width of a byte is a parameter and a word    *)
(* has as many bytes as a byte has bits, as 8 bytes of 8 bits in the code, *)
(* so that narrow bytes reach every size and every first byte.             *)
(***************************************************************************)
EXTENDS Integers, Sequences, SequencesExt

CONSTANT ByteBits    \* bits of a byte, a power of two: 8 in the code

WordBits == ByteBits * ByteBits
ByteRange == 2^ByteBits

\* Digits of n in base 2: n.toString(2).length, but 0 for 0.
BitLength(n) == CHOOSE k \in 0..31 : n < 2^k /\ (k = 0 \/ n >= 2^(k - 1))

EncodeZigZag64(n) == IF n >= 0 THEN 2 * n ELSE -2 * n - 1
DecodeZigZag64(u) == IF u % 2 = 0 THEN u \div 2 ELSE -(u \div 2) - 1

\* A binary search: the halves of the word that are zero are shifted out.
NumberOfLeadingZeros(value) ==
  LET Halve(a, s) == IF a.x \div 2^(WordBits - s) = 0
                      THEN [n |-> a.n + s, x |-> a.x * 2^s]
                      ELSE a
      shifts == [i \in 1..(BitLength(WordBits) - 2) |-> WordBits \div 2^i]
      last == FoldLeft(Halve, [n |-> 1, x |-> value], shifts)
  IN IF value = 0 THEN WordBits ELSE last.n - last.x \div 2^(WordBits - 1)

\* (639 - 9 * magnitude) >> 6, with 639 = 64 * 10 - 1.
ComputeUnsignedVIntSize(value) ==
  LET odd == IF value % 2 = 0 THEN value + 1 ELSE value
      magnitude == NumberOfLeadingZeros(odd)
  IN (WordBits * (ByteBits + 2) - 1 - magnitude * (ByteBits + 1)) \div WordBits

\* (fault) The length in the first byte replaces the bits of the value in it.
SetExtraBytes_Assigned(first, extra) == ByteRange - 2^(ByteBits - extra)

\* buffer[0] |= ~(0xff >> extra)
SetExtraBytes(first, extra) ==
  (ByteRange - 2^(ByteBits - extra)) + (first % 2^(ByteBits - extra))

\* The bytes from the last to the first, into a buffer that is used again.
EncodeVInt(value, size, buffer) ==
  LET Digit(i) == (value \div ByteRange^(size - i)) % ByteRange
      filled == [i \in 1..Len(buffer) |-> IF i <= size THEN Digit(i) ELSE buffer[i]]
  IN [filled EXCEPT ![1] = SetExtraBytes(@, size - 1)]

\* writeVInt() and writeUnsignedVInt(): the buffer and the bytes written.
WriteVInt(n, buffer) ==
  LET value == EncodeZigZag64(n)
      size == ComputeUnsignedVIntSize(value)
  IN [size |-> size,
      buffer |-> IF size = 1 THEN [buffer EXCEPT ![1] = value]
                 ELSE EncodeVInt(value, size, buffer)]

\* readVInt() at an offset: the value and the offset after it.
ReadVInt(input, offset) ==
  LET first == input[offset + 1]
      size == ByteBits - BitLength(ByteRange - 1 - first)
      Next(a, b) == ByteRange * a + b
      value == IF first < ByteRange \div 2 THEN first
               ELSE FoldLeft(Next, first % 2^(ByteBits - size),
                             SubSeq(input, offset + 2, offset + 1 + size))
  IN [value |-> DecodeZigZag64(value),
      offset |-> offset + 1 + (IF first < ByteRange \div 2 THEN 0 ELSE size)]

\* The bytes of uvintPack(), gathered last byte first; a size is below 2^31.
UvintPack(val) ==
  LET Loop[a \in [v : Nat, extra : Nat, bits : Int, rv : Seq(Nat)]] ==
        IF a.bits > ByteBits - (IF a.extra + 1 < ByteBits THEN a.extra + 1 ELSE ByteBits)
          THEN Loop[[v |-> a.v \div ByteRange, extra |-> a.extra + 1,
                     bits |-> a.bits - ByteBits, rv |-> <<a.v % ByteRange>> \o a.rv]]
          ELSE a
      end == Loop[[v |-> val, extra |-> 0, bits |-> BitLength(val), rv |-> <<>>]]
  IN IF val < ByteRange \div 2 THEN <<val>>
     ELSE <<SetExtraBytes(end.v, end.extra)>> \o end.rv

\* uvintUnpack(): the length in digits of "0" is 1, so that a first byte of
\* ones announces one byte too few.
UvintUnpack(bytes) ==
  LET first == bytes[1]
      zeros == BitLength(ByteRange - 1 - first)
      extra == ByteBits - (IF zeros = 0 THEN 1 ELSE zeros)
      Next(a, b) == ByteRange * a + b
  IN IF first < ByteRange \div 2 THEN [size |-> first, read |-> 1]
     ELSE [size |-> FoldLeft(Next, first % 2^(ByteBits - extra), SubSeq(bytes, 2, extra + 1)),
           read |-> extra + 1]

=============================================================================

------------------------------ MODULE Integer ------------------------------
(***************************************************************************)
(* Integers of any size (lib/types/integer.js): words of two halves, least *)
(* significant first, and a sign that stands for all the words above.      *)
(* Division estimates a quotient with numbers of limited precision and     *)
(* corrects it.  The widths are parameters: 32 bits and 53 in the code.    *)
(***************************************************************************)
EXTENDS Numbers, Sequences, SequencesExt

CONSTANTS
  Half,         \* bits of half a word: 16 in the code
  Operands,     \* the integers an operation is applied to
  Limit,        \* bound: magnitudes below it are operated on
  MaxOps        \* bound: operations in a row

VARIABLES
  obj,    \* the Integer
  val,    \* (history) the integer it stands for
  ops     \* (history) operations so far

integerVars == <<obj, val, ops>>

W == 2 * Half
Byte == Half \div 2

Word(n) == ((n + 2^(W - 1)) % 2^W) - 2^(W - 1)      \* n | 0
U(w) == w % 2^W                                     \* w >>> 0
Lo(w) == U(w) % 2^Half
Hi(w) == U(w) \div 2^Half
MaxLen(a, b) == IF Len(a.bits) > Len(b.bits) THEN Len(a.bits) ELSE Len(b.bits)

\* The constructor drops the words at the top that the sign stands for.
Top(words, sign) ==
  CHOOSE i \in 0..Len(words) : /\ i = 0 \/ words[i] # sign
                               /\ \A j \in (i + 1)..Len(words) : words[j] = sign
Trimmed(words, sign) == [bits |-> SubSeq(words, 1, Top(words, sign)), sign |-> sign]
New(bits, sign) == Trimmed([i \in DOMAIN bits |-> Word(bits[i])], sign)

Norm(n) == IF n < 0 THEN -n ELSE n
Zero == New(<<0>>, 0)
One == New(<<1>>, 0)

\* getBits(), counted from 0.
GetBits(o, i) == IF i < 0 THEN 0 ELSE IF i < Len(o.bits) THEN o.bits[i + 1] ELSE o.sign
FromBits(bits) == New(bits, IF Last(bits) < 0 THEN -1 ELSE 0)
IsZero(o) == o.sign = 0 /\ o.bits = <<>>
IsNegative(o) == o.sign = -1
ToInt(o) == GetBits(o, 0)

Not(o) == New([i \in DOMAIN o.bits |-> -o.bits[i] - 1], -o.sign - 1)

C0(x, y, carry) == carry + Lo(x) + Lo(y)
C1(x, y, carry) == C0(x, y, carry) \div 2^Half + Hi(x) + Hi(y)
CarryOf(x, y, carry) == C1(x, y, carry) \div 2^Half
SumOf(x, y, carry) ==
  Word((C1(x, y, carry) % 2^Half) * 2^Half + (C0(x, y, carry) % 2^Half))

\* (fault) The carry between the halves is lost.
Add_NoCarry(a, b) ==
  FromBits([i \in 1..(MaxLen(a, b) + 1) |->
    Word(((Hi(GetBits(a, i - 1)) + Hi(GetBits(b, i - 1))) % 2^Half) * 2^Half
         + ((Lo(GetBits(a, i - 1)) + Lo(GetBits(b, i - 1))) % 2^Half))])

\* add(): half by half, with the carry of the words below.
AddWords(len, a, b) ==
  LET Carry[i \in 0..len] ==
        IF i = 0 THEN 0 ELSE CarryOf(GetBits(a, i - 1), GetBits(b, i - 1), Carry[i - 1])
  IN FromBits([i \in 1..(len + 1) |->
                 SumOf(GetBits(a, i - 1), GetBits(b, i - 1), Carry[i - 1])])
Add(a, b) ==
  IF Len(a.bits) > Len(b.bits) THEN AddWords(Len(a.bits), a, b) ELSE AddWords(Len(b.bits), a, b)

Negate(o) == Add(Not(o), One)
NegateIf(c, o) == IF c THEN Negate(o) ELSE o
Abs(o) == NegateIf(IsNegative(o), o)
Subtract(a, b) == Add(a, Negate(b))
SignOf(diff) == IF IsNegative(diff) THEN -1 ELSE IF IsZero(diff) THEN 0 ELSE 1
Compare(a, b) == SignOf(Subtract(a, b))

\* fromNumber() and toNumber().
Magnitude(n) == New([i \in 1..((BitLen(n) + W - 1) \div W) |-> n \div 2^(W * (i - 1))], 0)
FromNumber(n) == NegateIf(n < 0, Magnitude(Norm(n)))

SumWords(bits) ==
  FoldLeft(LAMBDA sum, i : RoundTo(sum + U(bits[i]) * 2^(W * (i - 1))), 0, [i \in DOMAIN bits |-> i])
ToNumber(o) == (IF IsNegative(o) THEN -1 ELSE 1) * SumWords(Abs(o).bits)

\* #carry16(): what does not fit a half moves one half up.
Carry16(arr, i) ==
  [arr EXCEPT ![i] = arr[i] % 2^Half, ![i + 1] = @ + arr[i] \div 2^Half]

Plus16(arr, i, x) == Carry16([arr EXCEPT ![i] = @ + x], i)

\* The products of the halves of two words, added from the half at on.
PlusProducts(arr, x, y, at) ==
  Plus16(Plus16(Plus16(Plus16(arr, at, Lo(x) * Lo(y)), at + 1, Hi(x) * Lo(y)),
                at + 1, Lo(x) * Hi(y)), at + 2, Hi(x) * Hi(y))
Combined(halves, n) ==
  New([i \in 1..(2 * n) |-> IF i > n THEN 0 ELSE halves[2 * i] * 2^Half + halves[2 * i - 1]], 0)
MultiplyWords(a, b) ==
  LET n == Len(b.bits)
      Arr[k \in 0..(Len(a.bits) * n)] ==
        IF k = 0 THEN [i \in 1..(2 * (Len(a.bits) + n)) |-> 0]
        ELSE PlusProducts(Arr[k - 1], GetBits(a, (k - 1) \div n), GetBits(b, (k - 1) % n),
                          2 * ((k - 1) \div n) + 2 * ((k - 1) % n) + 1)
  IN Combined(Arr[Len(a.bits) * n], Len(a.bits) + n)

\* multiply(), of magnitudes: small factors as numbers, others word by word.
MultiplyAbs(a, b) ==
  IF \A o \in {a, b} : Compare(o, Magnitude(2^(3 * Byte))) < 0
    THEN Magnitude(RoundTo(SumWords(a.bits) * SumWords(b.bits)))
    ELSE MultiplyWords(a, b)

\* What multiply() calls on itself leaves the signs behind.
Multiply(a, b) ==
  IF IsZero(a) \/ IsZero(b) THEN Zero
  ELSE NegateIf(IsNegative(a) # IsNegative(b), MultiplyAbs(Abs(a), Abs(b)))

\* The quotient of two numbers, rounded, and then cut to an integer.
Approx(x, y) ==
  LET q == BitLen(x \div y)
      e == IF q < Precision THEN 2^(Precision - q) ELSE 1
      a == RoundTo(Quotient(x * e, y)) \div e
  IN IF a < 1 THEN 1 ELSE a

\* (fault) An estimate is taken as it is.
Lower_Trusting(approx, delta, rem, b) == approx

\* The correction of an estimate: lower it while its product is too large.
TooLarge(product, rem) == IsNegative(product) \/ Compare(product, rem) > 0
RECURSIVE Lower(_, _, _, _)
Lower(approx, delta, rem, b) ==
  IF approx > 0 /\ TooLarge(Multiply(FromNumber(approx), b), rem)
    THEN Lower(RoundTo(approx - delta), delta, rem, b) ELSE approx

\* divide(): rem and b are not negative in its loop.
Delta(log2) == IF log2 <= Precision - 5 THEN 1 ELSE 2^(log2 - (Precision - 5))
Estimate(approx, rem, b) == Lower(approx, Delta(BitLen(approx - 1)), rem, b)

RECURSIVE DivideLoop(_, _, _)
DivideStep(res, rem, b, approx) ==
  IF approx = 0 THEN DivideLoop(Add(res, One), rem, b)
  ELSE DivideLoop(Add(res, FromNumber(approx)), Subtract(rem, Multiply(FromNumber(approx), b)), b)
DivideLoop(res, rem, b) ==
  IF Compare(rem, b) < 0 THEN res
  ELSE DivideStep(res, rem, b, Estimate(Approx(ToNumber(rem), ToNumber(b)), rem, b))

Divide(a, b) ==
  IF IsZero(a) THEN Zero
  ELSE NegateIf(IsNegative(a) # IsNegative(b), DivideLoop(Zero, Abs(a), Abs(b)))

Modulo(a, b) == Subtract(a, Multiply(Divide(a, b), b))

\* and(), or(), xor() on the bits of words.
BitAt(n, k) == (n \div 2^k) % 2
OfBits(op, x, y) ==
  CASE op = "and" -> x * y
    [] op = "or"  -> x + y - x * y
    [] op = "xor" -> (x + y) % 2
OfWords(op, x, y, w) ==
  FoldLeft(LAMBDA sum, k : sum + OfBits(op, BitAt(x, k), BitAt(y, k))
                                 * (IF k = w - 1 THEN -(2^k) ELSE 2^k),
           0, [k \in 1..w |-> k - 1])
ByWord(op, a, b) ==
  New([i \in 1..MaxLen(a, b) |-> OfWords(op, GetBits(a, i - 1), GetBits(b, i - 1), W)],
      OfWords(op, a.sign, b.sign, W))

ShiftLeft(o, n) ==
  LET words == n \div W
      bits == n % W
      At(i) == IF bits = 0 THEN GetBits(o, i - words)
               ELSE Word(GetBits(o, i - words) * 2^bits) + U(GetBits(o, i - words - 1)) \div 2^(W - bits)
  IN New([i \in 1..(Len(o.bits) + words + (IF bits > 0 THEN 1 ELSE 0)) |-> At(i - 1)], o.sign)

ShiftRight(o, n) ==
  LET words == n \div W
      bits == n % W
      At(i) == IF bits = 0 THEN GetBits(o, i + words)
               ELSE U(GetBits(o, i + words)) \div 2^bits + GetBits(o, i + words + 1) * 2^(W - bits)
      len == Len(o.bits) - words
  IN New([i \in 1..(IF len < 0 THEN 0 ELSE len) |-> At(i - 1)], o.sign)

\* shorten(): the lowest n bits, as a signed number.
Shorten(o, n) ==
  LET last == (n - 1) \div W
      width == ((n - 1) % W) + 1
      v == U(GetBits(o, last)) % 2^width
      negative == v >= 2^(width - 1)
  IN New([i \in 1..(last + 1) |-> IF i <= last THEN GetBits(o, i - 1)
                                  ELSE IF negative THEN v - 2^width ELSE v],
         IF negative THEN -1 ELSE 0)

\* toBuffer(): the bytes of the top word that carry something and the sign,
\* then the other words, the highest first.
BytesOf(u, n) == [i \in 1..n |-> (u \div 2^(Byte * (n - i))) % 2^Byte]
ToBuffer(o) ==
  LET n == Len(o.bits)
      u == U(IF o.sign = -1 THEN -o.bits[n] - 1 ELSE o.bits[n])
      size == CHOOSE k \in 1..4 : u < 2^(Byte * k) /\ (k = 1 \/ u >= 2^(Byte * (k - 1)))
      bytes == BytesOf(u, size)
      high == IF Head(bytes) >= 2^(Byte - 1) THEN <<0>> \o bytes ELSE bytes
  IN IF n = 0 THEN <<o.sign % 2^Byte>>
     ELSE [i \in DOMAIN high |-> IF o.sign = -1 THEN 2^Byte - 1 - high[i] ELSE high[i]]
          \o FlattenSeq([i \in 1..(n - 1) |-> BytesOf(U(o.bits[n - i]), 4)])

\* fromBuffer(): words from the end; the bytes left over are the top word.
FromBuffer(buf) ==
  LET sign == IF Head(buf) >= 2^(Byte - 1) THEN -1 ELSE 0
      At(i) == LET end == Len(buf) - 4 * i
                   first == IF end < 4 THEN 1 ELSE end - 3
                   Plus(v, j) == v * 2^Byte + (IF end < 4 /\ sign = -1 THEN 2^Byte - 1 - buf[j] ELSE buf[j])
                   v == FoldLeft(Plus, 0, [j \in 1..(end - first + 1) |-> first + j - 1])
               IN IF end < 4 /\ sign = -1 THEN -v - 1 ELSE v
  IN New([i \in 1..((Len(buf) + 3) \div 4) |-> At(i - 1)], sign)

\* Text in base 2: a sign and digits, the highest first.  toString() makes six
\* digits at a time, fromString() reads eight.
Digits(n) == IF n = 0 THEN <<0>> ELSE [i \in 1..BitLen(n) |-> BitAt(n, BitLen(n) - i)]
Padded(digits, n) == [i \in 1..(n - Len(digits)) |-> 0] \o digits

RECURSIVE Chunks(_), Read(_, _)
Chunk(rem, remDiv) == Digits(ToInt(Subtract(rem, Multiply(remDiv, Magnitude(2^6)))))
ChunksFrom(rem, remDiv) ==
  IF IsZero(remDiv) THEN Chunk(rem, remDiv) ELSE Chunks(remDiv) \o Padded(Chunk(rem, remDiv), 6)
Chunks(rem) == ChunksFrom(rem, Divide(rem, Magnitude(2^6)))

IntegerToString(o) ==
  [minus |-> IsNegative(o), digits |-> IF IsZero(o) THEN <<0>> ELSE Chunks(Abs(o))]

Read(digits, result) ==
  LET size == IF Len(digits) < 8 THEN Len(digits) ELSE 8
      value == FoldLeft(LAMBDA v, d : 2 * v + d, 0, SubSeq(digits, 1, size))
  IN IF digits = <<>> THEN result
     ELSE Read(SubSeq(digits, size + 1, Len(digits)),
               Add(Multiply(result, Magnitude(2^size)), Magnitude(value)))

IntegerFromString(text) == NegateIf(text.minus, Read(text.digits, Zero))
-----------------------------------------------------------------------------
IntegerInit ==
  /\ val \in Operands
  /\ obj = FromNumber(val)
  /\ ops = 0

Becomes(o, v) ==
  /\ ops < MaxOps
  /\ v > -Limit /\ v < Limit
  /\ obj' = o
  /\ val' = v
  /\ ops' = ops + 1

\* (reference) The integer quotient, cut towards zero.
Cut(x, y) == LET q == Norm(x) \div Norm(y) IN IF (x < 0) = (y < 0) THEN q ELSE -q

DoAdd(n) == Becomes(Add(obj, FromNumber(n)), val + n)
DoSubtract(n) == Becomes(Subtract(obj, FromNumber(n)), val - n)
DoMultiply(n) ==
  /\ Norm(val) <= (Limit \div (IF n = 0 THEN 1 ELSE Norm(n)))
  /\ Becomes(Multiply(obj, FromNumber(n)), val * n)
DoDivide(n) == n # 0 /\ Becomes(Divide(obj, FromNumber(n)), Cut(val, n))
DoModulo(n) == n # 0 /\ Becomes(Modulo(obj, FromNumber(n)), val - n * Cut(val, n))
DoBitwise(n) ==
  \E op \in {"and", "or", "xor"} :
    Becomes(ByWord(op, obj, FromNumber(n)), OfWords(op, val, n, 3 * W))
DoUnary ==
  \/ Becomes(Not(obj), -val - 1)
  \/ Becomes(Negate(obj), -val)
  \/ Becomes(Abs(obj), Norm(val))
DoShift(k) ==
  \/ Norm(val) < 2^W /\ Becomes(ShiftLeft(obj, k), val * 2^k)
  \/ Becomes(ShiftRight(obj, k), val \div 2^k)
  \/ k > 0 /\ Becomes(Shorten(obj, k),
                      LET low == val % 2^k IN IF low < 2^(k - 1) THEN low ELSE low - 2^k)

IntegerNext ==
  \/ \E n \in Operands : \/ DoAdd(n) \/ DoSubtract(n) \/ DoMultiply(n)
                         \/ DoDivide(n) \/ DoModulo(n) \/ DoBitwise(n)
  \/ DoUnary
  \/ \E k \in {0, 1, Half, W - 1, W, W + 1} : DoShift(k)
-----------------------------------------------------------------------------
(* Whatever operations led to it, an Integer is the one representation of  *)
(* the value that arithmetic on integers gives, although division works    *)
(* from estimates; and its bytes and its text are read back as itself, so  *)
(* a varint a row holds goes back to the server unchanged.                 *)
(* (lib/types/integer.js:119-245, 283-315, 465-716)                        *)
Value(o) ==
  FoldLeft(LAMBDA sum, i : sum + U(o.bits[i]) * 2^(W * (i - 1)),
           IF o.sign = -1 THEN -(2^(W * Len(o.bits))) ELSE 0, [i \in 1..Len(o.bits) |-> i])

IntegerIsExact ==
  /\ obj = FromNumber(val)
  /\ Value(obj) = val
  /\ FromBuffer(ToBuffer(obj)) = obj
  /\ \A text \in {IntegerToString(obj)} :
       text = [minus |-> val < 0, digits |-> Digits(Norm(val))] /\ IntegerFromString(text) = obj
  /\ \A n \in Operands : Compare(obj, FromNumber(n)) = (IF val < n THEN -1 ELSE IF val = n THEN 0 ELSE 1)
=============================================================================

---------------------------- MODULE BigDecimal -----------------------------
(***************************************************************************)
(* Decimals of any size (lib/types/big-decimal.ts): an Integer, taken here *)
(* for the integer it stands for (module Integer), and a scale.            *)
(***************************************************************************)
EXTENDS Numbers, Sequences, SequencesExt

CONSTANT Unscaled, Scales   \* the integers and the scales decimals are made of

VARIABLES
  input,   \* two decimals
  made     \* <<their sum, their difference>>, once computed

decimalVars == <<input, made>>

Decimal(unscaled, scale) == [intVal |-> unscaled, scale |-> scale]

\* (fault) The decimals are not brought to one scale.
Times_Unscaled(a, scale) == a.intVal

\* add() and subtract(): the one of the smaller scale is brought to the other.
\* Math.pow() is a number: Integer.fromNumber() takes what is left of the power.
Times(a, scale) == a.intVal * RoundTo(10^(scale - a.scale))

Combine(a, sign, b) ==
  CASE a.scale = b.scale -> Decimal(a.intVal + sign * b.intVal, a.scale)
    [] a.scale < b.scale -> Decimal(Times(a, b.scale) + sign * b.intVal, b.scale)
    [] OTHER -> Decimal(a.intVal + sign * Times(b, a.scale), a.scale)
Compare(a, b) == LET diff == Combine(a, -1, b).intVal
                 IN IF diff < 0 THEN -1 ELSE IF diff = 0 THEN 0 ELSE 1

\* Text: a sign, the digits in front of the point and those after it.
DigitsOf(n) ==
  LET width == CHOOSE k \in 1..10 : n < 10^k /\ (k = 1 \/ n >= 10^(k - 1))
  IN [i \in 1..width |-> (n \div 10^(width - i)) % 10]
Zeros(n) == [i \in 1..n |-> 0]

DecimalToString(d) ==
  LET digits == DigitsOf(IF d.intVal < 0 THEN -d.intVal ELSE d.intVal)
      padded == IF Len(digits) <= d.scale THEN Zeros(d.scale - Len(digits) + 1) \o digits ELSE digits
      at == Len(padded) - d.scale
  IN [minus |-> d.intVal < 0, point |-> d.scale # 0,
      whole |-> SubSeq(padded, 1, IF at < Len(padded) THEN at ELSE Len(padded)),
      fraction |-> SubSeq(padded, at + 1, Len(padded))]

DecimalFromString(text) ==
  LET n == FoldLeft(LAMBDA v, d : 10 * v + d, 0, text.whole \o text.fraction)
  IN Decimal(IF text.minus THEN -n ELSE n, IF text.point THEN Len(text.fraction) ELSE 0)
-----------------------------------------------------------------------------
DecimalInit ==
  /\ input \in [a : [intVal : Unscaled, scale : Scales], b : [intVal : Unscaled, scale : Scales]]
  /\ made = <<>>

Compute ==
  /\ made = <<>>
  /\ made' = <<Combine(input.a, 1, input.b), Combine(input.a, -1, input.b)>>
  /\ UNCHANGED input

Size(n) == IF n < 0 THEN -n ELSE n

(* Sums, differences and comparisons of decimals are those of the rational *)
(* numbers they stand for, as long as 10 to the power of the difference of *)
(* their scales is a number: up to 22 digits in the code.  Beyond that     *)
(* the one of the smaller scale is off by at most the part of it that a    *)
(* number cannot tell apart, and the comparison, which equals() is made    *)
(* of, is not claimed.  A result whose scale is not negative is read back  *)
(* from its text with its scale, trailing zeros included.                  *)
(* (lib/types/big-decimal.ts:68-80, 118-193, 215-238)                      *)
DecimalExact ==
  LET a == input.a
      b == input.b
      top == CHOOSE s \in Scales : \A t \in Scales : t <= s
      Worth(d) == d.intVal * 10^(top - d.scale)
      exact == 5^Size(a.scale - b.scale) < 2^Precision
      slack == IF exact THEN 0
               ELSE Size(Worth(IF a.scale < b.scale THEN a ELSE b)) \div 2^Precision
  IN made # <<>> =>
       /\ Size(Worth(made[1]) - (Worth(a) + Worth(b))) <= slack
       /\ Size(Worth(made[2]) - (Worth(a) - Worth(b))) <= slack
       /\ exact => (Compare(a, b) = -1 <=> Worth(a) < Worth(b))
       /\ \A d \in ToSet(made) : d.scale >= 0 => DecimalFromString(DecimalToString(d)) = d
=============================================================================

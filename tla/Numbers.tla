------------------------------ MODULE Numbers ------------------------------
(***************************************************************************)
(* JavaScript numbers that are not negative and have no fraction: they     *)
(* hold Precision bits, and what needs more of them is rounded to the      *)
(* nearest number, ties to even.                                           *)
(***************************************************************************)
EXTENDS Integers

CONSTANT Precision    \* bits of a number: 53 in the code

BitLen(n) == CHOOSE k \in 0..31 : n < 2^k /\ (k = 0 \/ n >= 2^(k - 1))

Quotient(a, b) == LET r == 2 * (a % b)
                  IN a \div b + (IF r > b \/ (r = b /\ (a \div b) % 2 = 1) THEN 1 ELSE 0)
KeepBits(n, e) == IF e <= 0 THEN n ELSE Quotient(n, 2^e) * 2^e
RoundTo(n) == KeepBits(n, BitLen(n) - Precision)
=============================================================================

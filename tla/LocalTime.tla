----------------------------- MODULE LocalTime -----------------------------
(***************************************************************************)
(* Times of the day (lib/types/local-time.ts): a count of nanoseconds,     *)
(* printed as hours, minutes, seconds and a fraction without its trailing  *)
(* zeros.  The sizes of the units are parameters: 24, 60, 60, 1000 and 10  *)
(* to the power 6 in the code; a nanosecond here is the last digit.        *)
(***************************************************************************)
EXTENDS Integers, Sequences, SequencesExt

CONSTANTS
  Hours, Minutes, Seconds,    \* in a day, an hour, a minute
  MilliDigits, NanoDigits,    \* digits of a millisecond, and below it
  Texts,                      \* texts: sequences of at most four numbers, and a fraction
  Instants                    \* milliseconds of JavaScript Dates, in the local zone

VARIABLES
  input,   \* how the time is made
  made     \* <<the count of nanoseconds, or that making it failed>>, once tried

localTimeVars == <<input, made>>

nanoSecInMillis == 10^NanoDigits
nanoSecInSec == 10^(MilliDigits + NanoDigits)
millisInSec == 10^MilliDigits
millisInMin == Seconds * millisInSec
millisInHour == Minutes * millisInMin
millisInDay == Hours * millisInHour
maxNanos == millisInDay * nanoSecInMillis - 1

Throws == [failed |-> TRUE, value |-> 0]
New(total) == IF total < 0 \/ total > maxNanos THEN Throws ELSE [failed |-> FALSE, value |-> total]
FromMilliseconds(millis, nanos) == New(millis * nanoSecInMillis + nanos)

\* The sign of % follows the dividend.
Rem(a, b) == IF a < 0 THEN -((-a) % b) ELSE a % b
FromDate(instant) == FromMilliseconds(Rem(instant, millisInDay), 0)

Number(digits) == FoldLeft(LAMBDA n, d : 10 * n + d, 0, digits)

\* (fault) A fraction counts nanoseconds instead of decimals of a second.
Fraction_Short(digits) == Number(digits)

\* The decimals, filled up with zeros to nanoseconds.
Fraction(digits) == Number(digits \o [i \in 1..(MilliDigits + NanoDigits - Len(digits)) |-> 0])

\* fromString(): a missing minute is not a number, which fails later.
FromString(text) ==
  LET n == Len(text.parts)
      second == IF n = 3 THEN text.parts[3] ELSE 0
  IN IF \/ n > 3 \/ n < 2
        \/ text.parts[1] \notin 0..(Hours - 1)
        \/ text.parts[2] \notin 0..(Minutes - 1)
        \/ second \notin 0..(Seconds - 1)
        \/ n = 3 /\ Len(text.fraction) > MilliDigits + NanoDigits
       THEN Throws
       ELSE FromMilliseconds(text.parts[1] * millisInHour + text.parts[2] * millisInMin
                               + second * millisInSec,
                             IF n = 3 THEN Fraction(text.fraction) ELSE 0)

\* #getParts(): the seconds are split only where they reach a minute.
GetParts(time) ==
  LET secs == time.value \div nanoSecInSec
      minutes == IF secs >= Seconds THEN secs \div Seconds ELSE 0
  IN <<IF minutes >= Minutes THEN minutes \div Minutes ELSE 0,
       IF minutes >= Minutes THEN minutes % Minutes ELSE minutes,
       IF secs >= Seconds THEN secs % Seconds ELSE secs,
       time.value - secs * nanoSecInSec>>

\* formatTime(): trailing zeros of the fraction go, its first digit stays.
FormatTime(parts) ==
  LET width == MilliDigits + NanoDigits
      digits == [i \in 1..width |-> (parts[4] \div 10^(width - i)) % 10]
      kept == {i \in 1..width : i = 1 \/ digits[i] # 0}
  IN [parts |-> SubSeq(parts, 1, 3),
      fraction |-> IF parts[4] = 0 THEN <<>>
                   ELSE SubSeq(digits, 1, CHOOSE i \in kept : \A j \in kept : j <= i)]
-----------------------------------------------------------------------------
LocalTimeInit ==
  /\ \/ \E text \in Texts : input = [by |-> "text", text |-> text]
     \/ \E instant \in Instants : input = [by |-> "date", at |-> instant]
  /\ made = <<>>

Make ==
  /\ made = <<>>
  /\ made' = <<IF input.by = "text" THEN FromString(input.text) ELSE FromDate(input.at)>>
  /\ UNCHANGED input

(* A text makes a time exactly when every part of it lies in its unit and  *)
(* the fraction is no finer than a nanosecond; what it makes prints as a   *)
(* text of the same parts and the same fraction, which is read back as the *)
(* same time.  A JavaScript Date makes its time of day or nothing, and     *)
(* always its time of day from 1970 on.  fromDate() "uses the provided     *)
(* local time" (local-time.ts:175) of any Date; before 1970 the code keeps *)
(* a remainder below zero and refuses it, unless it is midnight, so no     *)
(* time is claimed there.                                                  *)
(* (lib/types/local-time.ts:34-64, 117-188, 281-348)                       *)
LocalTimeExact ==
  \A time \in ToSet(made) :
    /\ ~time.failed => FromString(FormatTime(GetParts(time))) = time
    /\ input.by = "text" =>
         LET p == input.text.parts
             f == input.text.fraction
         IN /\ ~time.failed <=> /\ Len(p) \in {2, 3}
                                /\ p[1] \in 0..(Hours - 1) /\ p[2] \in 0..(Minutes - 1)
                                /\ Len(p) = 3 => p[3] \in 0..(Seconds - 1) /\ Len(f) <= MilliDigits + NanoDigits
            /\ ~time.failed =>
                 LET q == GetParts(time)
                 IN /\ SubSeq(q, 1, 2) = SubSeq(p, 1, 2)
                    /\ q[3] = (IF Len(p) = 3 THEN p[3] ELSE 0)
                    /\ Len(p) = 3 => q[4] * 10^Len(f) = Number(f) * nanoSecInSec
    /\ input.by = "date" =>
         /\ ~time.failed => time.value = (input.at % millisInDay) * nanoSecInMillis
         /\ input.at >= 0 => ~time.failed
=============================================================================

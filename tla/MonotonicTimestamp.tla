------------------------- MODULE MonotonicTimestamp -------------------------
(***************************************************************************)
(* MonotonicTimestampGenerator (src/lib/policies/timestamp-generation.js): *)
(* microsecond timestamps from a millisecond clock that may stand still,   *)
(* jump ahead or go back between two calls of next().                      *)
(***************************************************************************)
EXTENDS Naturals, Integers, Sequences

CONSTANTS
  PerMilli,          \* microseconds in a millisecond: 1000 in the code
  Dates,             \* what the clock may read, in milliseconds
  WarningThreshold,
  MinLogInterval,
  MaxCalls           \* bound: calls of next()

ASSUME TimestampAssumption ==
  /\ PerMilli \in Nat \ {0}
  /\ Dates \subseteq Nat
  /\ WarningThreshold \in Nat \ {0}
  /\ MinLogInterval \in Int
  /\ MaxCalls \in Nat

VARIABLES
  micros, lastDate, lastLogDate,   \* the fields of the generator
  clock,             \* history: what the last call read from the clock
  latest,            \* history: the latest date read so far
  calls,             \* history: the number of calls
  warnings,          \* history: when the warnings were logged
  timestamp          \* what the last call returned

vars == <<micros, lastDate, lastLogDate, clock, latest, calls, warnings, timestamp>>

TypeOK ==
  /\ micros \in -1..(PerMilli - 1)
  /\ lastDate \in Nat
  /\ lastLogDate \in Nat
  /\ clock \in Nat
  /\ latest \in Nat
  /\ calls \in Nat
  /\ warnings \in Seq(Nat)
  /\ timestamp \in Int

Init ==
  /\ micros = -1
  /\ lastDate = 0
  /\ lastLogDate = 0
  /\ clock = 0
  /\ latest = 0
  /\ calls = 0
  /\ warnings = <<>>
  /\ timestamp = -1

\* #generateMicroseconds, of the new values of the fields.  The Number and the
\* Long branch compute the same value; neither overflows.
GenerateMicroseconds == lastDate' * PerMilli + micros'

\* A call of next() during which the clock reads date.
Reads(date) ==
  /\ calls < MaxCalls
  /\ calls' = calls + 1
  /\ clock' = date
  /\ latest' = IF date > latest THEN date ELSE latest

\* The clock went on since the last timestamp.
NextLater(date) ==
  /\ Reads(date)
  /\ date > lastDate
  /\ micros' = 0
  /\ lastDate' = date
  /\ timestamp' = GenerateMicroseconds
  /\ UNCHANGED <<lastLogDate, warnings>>

\* (fault) the microseconds wrap around within the millisecond.
Increment_Wraps ==
  /\ micros' = IF micros + 1 = PerMilli THEN 0 ELSE micros + 1
  /\ lastDate' = lastDate

\* (fault) every call moves the date.
Increment_Runs ==
  /\ micros' = micros
  /\ lastDate' = lastDate + 1

\* The microseconds are incremented; when they are used up the date moves one
\* millisecond ahead.
Increment ==
  IF micros + 1 = PerMilli
  THEN micros' = 0 /\ lastDate' = lastDate + 1
  ELSE micros' = micros + 1 /\ lastDate' = lastDate

\* How far the clock is behind the date in use, and one millisecond more when
\* that date is moved ahead.
Drifted(date) ==
  (IF date < lastDate THEN lastDate - date ELSE 0)
  + (IF micros + 1 = PerMilli THEN 1 ELSE 0)

\* (fault) the interval since the last warning is taken from the date in use.
Warns_AnyDate(date, logDate) ==
  /\ Drifted(date) >= WarningThreshold
  /\ MinLogInterval > 0
  /\ lastLogDate + MinLogInterval <= lastDate

Warns(date, logDate) ==
  /\ Drifted(date) >= WarningThreshold
  /\ MinLogInterval > 0
  /\ lastLogDate + MinLogInterval <= logDate

\* The clock stood still or went back.  The log reads the clock again.
NextSame(date, logDate) ==
  /\ Reads(date)
  /\ date <= lastDate
  /\ Increment
  /\ timestamp' = GenerateMicroseconds
  /\ IF Warns(date, logDate)
     THEN lastLogDate' = logDate /\ warnings' = Append(warnings, logDate)
     ELSE UNCHANGED <<lastLogDate, warnings>>

Next ==
  \/ \E date \in Dates : NextLater(date)
  \/ \E date, logDate \in Dates : NextSame(date, logDate)

Spec == Init /\ [][Next]_vars

-----------------------------------------------------------------------------

\* "Guarantees monotonically increasing timestamps": every call returns a
\* timestamp greater than all before it, whatever the clock does.
StrictlyIncreasing == [][calls' # calls => timestamp' > timestamp]_vars

\* A timestamp is never behind the clock, and is ahead of the latest date the
\* clock ever showed by no more microseconds than there were calls: the
\* generator does not run away from a clock that goes back.
DriftBounded ==
  calls > 0 =>
    /\ timestamp >= clock * PerMilli
    /\ timestamp < latest * PerMilli + calls

\* "In case of multiple log events, it determines the time separation between
\* log events": any two warnings are MinLogInterval apart, also when the clock
\* went back between them and the drift it causes lasts for many calls, and
\* there is none when they are disabled.
WarningsApart ==
  /\ \A i, j \in DOMAIN warnings :
       i < j => warnings[j] >= warnings[i] + MinLogInterval
  /\ MinLogInterval <= 0 => warnings = <<>>

=============================================================================

----------------------------- MODULE TimeUuid ------------------------------
(***************************************************************************)
(* Version 1 UUIDs (lib/types/time-uuid.js) and generateTimestamp()        *)
(* (lib/types/index.js): the time in milliseconds, and a count of ticks    *)
(* that tells apart what is made in one millisecond.  The counters are     *)
(* shared by all of a process.                                             *)
(***************************************************************************)
EXTENDS Integers, Sequences, FiniteSets

CONSTANTS
  TicksInMs,          \* ticks of a millisecond: 10000 in the code
  MicrosInMs,         \* microseconds of a millisecond: 1000 in the code
  UnixToGregorian,    \* milliseconds from the epoch of UUIDs to 1970
  LowRange, MidRange, HighRange,   \* sizes of the time fields: 2^32, 2^16 and 2^12 in the code
  MaxTime,            \* bound: the clock
  MaxMade             \* bound: UUIDs and timestamps made

\* The times the clock shows fit the fields of a UUID: in the code, up to the
\* year 5236.
ASSUME TimeUuidAssumption ==
  /\ TicksInMs \in Nat \ {0} /\ MicrosInMs \in Nat \ {0}
  /\ LowRange \in Nat \ {0} /\ MidRange \in Nat \ {0} /\ HighRange \in Nat \ {0}
  /\ UnixToGregorian \in Nat /\ MaxTime \in Nat /\ MaxMade \in Nat
  /\ (MaxTime + UnixToGregorian + 1) * TicksInMs <= LowRange * (MidRange * HighRange)

VARIABLES
  now,                   \* the clock, in milliseconds; it may be set back
  ticks,                 \* _ticks
  ticksForCurrentTime,   \* _ticksForCurrentTime
  lastTimestamp,         \* _lastTimestamp
  timestampTicks,        \* _timestampTicks
  uuids,                 \* (history) the time fields of the UUIDs made by now(), in order
  stamps                 \* (history) the timestamps generated, in order

timeUuidVars == <<now, ticks, ticksForCurrentTime, lastTimestamp, timestampTicks, uuids, stamps>>

\* writeTime(), and the fields of a UUID read back by getDatePrecision().
WriteTime(time, tick) ==
  LET val == (time + UnixToGregorian) * TicksInMs + tick
      timeHigh == val \div LowRange
  IN <<val % LowRange, timeHigh % MidRange, (timeHigh \div MidRange) % HighRange>>
GetDatePrecision(fields) ==
  LET val == fields[1] + LowRange * (fields[2] + MidRange * fields[3])
  IN [date |-> val \div TicksInMs - UnixToGregorian, ticks |-> val % TicksInMs]

\* getTicks(): ticks that are missing or too large come from a counter.
NextTicks == IF ticks + 1 >= TicksInMs THEN 0 ELSE ticks + 1

\* (fault) The count begins again one tick early.
Restart_Early(time) == ticksForCurrentTime + 1 >= TicksInMs - 1 \/ time > lastTimestamp

\* The count of a millisecond begins again.
Restart(time) == ticksForCurrentTime + 1 > TicksInMs \/ time > lastTimestamp
-----------------------------------------------------------------------------
TimeUuidInit ==
  /\ now \in 1..MaxTime
  /\ ticks = 0 /\ ticksForCurrentTime = 0 /\ lastTimestamp = 0 /\ timestampTicks = 0
  /\ uuids = <<>> /\ stamps = <<>>

\* TimeUuid.now(), through getTimeWithTicks().
MakeNow ==
  /\ Len(uuids) + Len(stamps) < MaxMade
  /\ LET count == IF Restart(now) THEN 0 ELSE ticksForCurrentTime + 1
     IN /\ ticksForCurrentTime' = count
        /\ lastTimestamp' = IF Restart(now) THEN now ELSE lastTimestamp
        /\ ticks' = IF count >= TicksInMs THEN NextTicks ELSE ticks
        /\ uuids' = Append(uuids, [at |-> now,
             fields |-> WriteTime(now, IF count >= TicksInMs THEN NextTicks ELSE count)])
  /\ UNCHANGED <<now, timestampTicks, stamps>>

\* TimeUuid.fromDate() without ticks takes one of the counter.
MakeFromDate ==
  /\ ticks' = NextTicks
  /\ UNCHANGED <<now, ticksForCurrentTime, lastTimestamp, timestampTicks, uuids, stamps>>

\* generateTimestamp() without microseconds.
GenerateTimestamp ==
  /\ Len(uuids) + Len(stamps) < MaxMade
  /\ LET micros == IF timestampTicks > MicrosInMs - 1 THEN 0 ELSE timestampTicks
     IN /\ stamps' = Append(stamps, now * MicrosInMs + micros)
        /\ timestampTicks' = micros + 1
  /\ UNCHANGED <<now, ticks, ticksForCurrentTime, lastTimestamp, uuids>>

SetClock ==
  /\ now' \in 1..MaxTime
  /\ UNCHANGED <<ticks, ticksForCurrentTime, lastTimestamp, timestampTicks, uuids, stamps>>

TimeUuidNext == MakeNow \/ MakeFromDate \/ GenerateTimestamp \/ SetClock

TimeUuidSpec == TimeUuidInit /\ [][TimeUuidNext]_timeUuidVars
-----------------------------------------------------------------------------
\* The clock was not set back while the first j UUIDs were made, and no
\* millisecond saw more of them than it has ticks.
InOrder(us, j) == \A k \in 2..j : us[k - 1].at <= us[k].at
MadeAt(us, j, time) == {i \in 1..j : us[i].at = time}
WithinLimit(us, j) == \A k \in 1..j : Cardinality(MadeAt(us, j, us[k].at)) <= TicksInMs

\* The order of UUIDs by their time fields.
Earlier(u, w) ==
  LET a == GetDatePrecision(u.fields)
      b == GetDatePrecision(w.fields)
  IN \/ a.date < b.date
     \/ a.date = b.date /\ a.ticks < b.ticks

(* As long as the clock is not set back and no millisecond sees more of    *)
(* them than it has ticks, each UUID that now() makes is later than all    *)
(* before it, whatever else draws on the counters, so that for one node    *)
(* and clock identifier no two are equal; and each holds the time it was   *)
(* made at, always.  Timestamps differ from the ones of the calls before,  *)
(* up to a millisecond's worth of them.                                    *)
(* (lib/types/time-uuid.js:215-231, 276-285, 333-366, lib/types/           *)
(* index.js:506-527)                                                       *)
TimeUuidsIncrease ==
  /\ \A j \in DOMAIN uuids :
       /\ GetDatePrecision(uuids[j].fields).date = uuids[j].at
       /\ InOrder(uuids, j) /\ WithinLimit(uuids, j) =>
            \A i \in 1..(j - 1) : Earlier(uuids[i], uuids[j])
  /\ \A i, j \in DOMAIN stamps : i < j /\ j - i < MicrosInMs => stamps[i] # stamps[j]
=============================================================================

---------------------------- MODULE Reconnection ----------------------------
(***************************************************************************)
(* ExponentialReconnectionPolicy (src/lib/policies/reconnection.js): the   *)
(* delays that newSchedule() yields.  The random jitter is any percentage  *)
(* of the range the code allows.                                           *)
(***************************************************************************)
EXTENDS Integers

CONSTANTS
  BaseDelay, MaxDelay,
  MaxExponent,       \* from this index on the delay is MaxDelay: 64 in the code
  Percents           \* bound: the values of the jitter that are tried

ASSUME ReconnectionAssumption ==
  /\ BaseDelay \in Nat \ {0} /\ MaxDelay \in Nat /\ BaseDelay <= MaxDelay
  /\ MaxExponent \in Nat
  /\ Percents \subseteq 0..30

VARIABLES
  startWithNoDelay,  \* of the policy: never changed
  index,             \* of the generator, no further than MaxExponent
  value,             \* the delay of the last attempt before the jitter
  delay              \* and after it: what the schedule yielded; -1 at first

scheduleVars == <<startWithNoDelay, index, value, delay>>

ScheduleTypeOK ==
  /\ startWithNoDelay \in BOOLEAN
  /\ index \in -1..MaxExponent
  /\ value \in 0..MaxDelay
  /\ delay \in Int

ScheduleInit ==
  /\ startWithNoDelay \in BOOLEAN
  /\ index = IF startWithNoDelay THEN -1 ELSE 0
  /\ value = 0
  /\ delay = -1

Min2(x, y) == IF x < y THEN x ELSE y

\* Math.pow(2, index).
PowerOfTwo[i \in 0..MaxExponent] == IF i = 0 THEN 1 ELSE 2 * PowerOfTwo[i - 1]

\* The delay of an attempt, before the jitter.
Exponential(i) ==
  IF i >= MaxExponent THEN MaxDelay
  ELSE IF i = -1 THEN 0 ELSE Min2(PowerOfTwo[i] * BaseDelay, MaxDelay)

\* (fault) the first delay is treated like all others.
JitterRange_NoBase(v) ==
  IF v = MaxDelay THEN [min |-> 85, range |-> 15] ELSE [min |-> 85, range |-> 30]

\* _addJitter: the percentages it draws from.
JitterRange(v) ==
  IF ~startWithNoDelay /\ v = BaseDelay THEN [min |-> 100, range |-> 15]
  ELSE IF v = MaxDelay THEN [min |-> 85, range |-> 15]
  ELSE [min |-> 85, range |-> 30]

\* One value of the generator.
Yield(p) ==
  /\ LET v == Exponential(index) IN
     /\ p <= JitterRange(v).range
     /\ value' = v
     /\ delay' = (v * (JitterRange(v).min + p)) \div 100
  /\ index' = Min2(index + 1, MaxExponent)
  /\ UNCHANGED startWithNoDelay

ScheduleNext == \E p \in Percents : Yield(p)

ScheduleSpec == ScheduleInit /\ [][ScheduleNext]_scheduleVars

-----------------------------------------------------------------------------

\* "The jitter will never cause the delay to be less than the base delay, or
\* more than the max delay" (doc of ExponentialReconnectionPolicy).
DelayWithinBounds ==
  delay # -1 /\ value # 0 => BaseDelay <= delay /\ delay <= MaxDelay

\* The attempts whose jitter is drawn below the base: the one of the base delay
\* after an attempt without delay, and those at a maximum under twice the base.
MayBeShort ==
  value < 2 * BaseDelay /\ (startWithNoDelay \/ value # BaseDelay)

\* The attempts whose jitter is drawn above the maximum: the last before the
\* maximum is reached, and the first one when the base is the maximum.
MayBeLong ==
  /\ 115 * value > 100 * MaxDelay
  /\ value # MaxDelay \/ (~startWithNoDelay /\ BaseDelay = MaxDelay)

\* The jitter changes a delay by 15 percent at most, and never leads out of the
\* documented bounds, except for the attempts that _addJitter does not tell from
\* the others.
JitterKept ==
  /\ ScheduleTypeOK
  /\ delay # -1 =>
       /\ 100 * (delay + 1) > 85 * value
       /\ 100 * delay <= 115 * value
       /\ value # 0 /\ delay < BaseDelay => MayBeShort
       /\ delay > MaxDelay => MayBeLong

\* Whatever the jitter, every attempt keeps the bounds it can keep, and attempts
\* are never made at a growing pace: but for the jitter, each delay is longer
\* than the one before until it is the maximum, and then stays so.
ScheduleSound ==
  [][/\ JitterKept'
     /\ value' > value \/ value' = MaxDelay \/ delay = -1]_scheduleVars

=============================================================================

----------------------------- MODULE TimeProofs -----------------------------
(***************************************************************************)
(* The parts that count time, for every clock: the timestamps of           *)
(* MonotonicTimestampGenerator, the delays of                              *)
(* ExponentialReconnectionPolicy, and the UUIDs and timestamps of          *)
(* lib/types.  The three share arithmetic and no state.                    *)
(***************************************************************************)
EXTENDS MonotonicTimestamp, Reconnection, TimeUuid,
        FiniteSetTheorems, WellFoundedInduction, TLAPS

-----------------------------------------------------------------------------
(* The timestamps of MonotonicTimestampGenerator                           *)

\* Multiplication by the length of a millisecond is monotonic, strictly so by
\* a whole millisecond.
LEMMA Millis ==
  ASSUME NEW a \in Nat, NEW b \in Nat
  PROVE  /\ a <= b => a * PerMilli <= b * PerMilli
         /\ a < b => a * PerMilli + PerMilli <= b * PerMilli
         /\ (a + 1) * PerMilli = a * PerMilli + PerMilli
         /\ a * PerMilli \in Nat
<1> PerMilli \in Nat
  BY TimestampAssumption
<1>1. (a + 1) * PerMilli = a * PerMilli + PerMilli /\ a * PerMilli \in Nat
  OBVIOUS
<1>2. ASSUME NEW d \in Nat, b = a + d PROVE b * PerMilli = a * PerMilli + d * PerMilli
  BY <1>2
<1>3. a <= b => a * PerMilli <= b * PerMilli
  <2> SUFFICES ASSUME a <= b PROVE a * PerMilli <= b * PerMilli
    OBVIOUS
  <2>1. b - a \in Nat /\ b = a + (b - a) /\ (b - a) * PerMilli \in Nat
    OBVIOUS
  <2> QED BY <1>2, <2>1
<1>4. a < b => a * PerMilli + PerMilli <= b * PerMilli
  <2> SUFFICES ASSUME a < b PROVE (a + 1) * PerMilli <= b * PerMilli
    BY <1>1
  <2>1. b - (a + 1) \in Nat /\ b = (a + 1) + (b - (a + 1)) /\ (b - (a + 1)) * PerMilli \in Nat
    OBVIOUS
  <2>2. b * PerMilli = (a + 1) * PerMilli + (b - (a + 1)) * PerMilli
    BY <2>1
  <2> QED BY <2>1, <2>2
<1> QED BY <1>1, <1>3, <1>4

(***************************************************************************)
(* The invariant: the last timestamp is what the fields say, the date in   *)
(* use is not behind any the clock showed, and each call added one         *)
(* microsecond at most to what the clock justifies.                        *)
(***************************************************************************)
TInv ==
  /\ TypeOK
  /\ timestamp = lastDate * PerMilli + micros
  /\ calls > 0 => micros >= 0
  /\ clock <= lastDate /\ latest <= lastDate
  /\ timestamp < latest * PerMilli + calls

\* A new generator has returned nothing.
LEMMA TInvInit == Init => TInv
BY TimestampAssumption DEF Init, TInv, TypeOK

\* next() when the clock went on.
LEMMA LaterStep ==
  ASSUME TInv, NEW date \in Dates, NextLater(date)
  PROVE  TInv' /\ timestamp' > timestamp /\ UNCHANGED <<lastLogDate, warnings>>
<1> date \in Nat /\ PerMilli \in Nat \ {0}
  BY TimestampAssumption
<1> USE DEF TInv, TypeOK
<1>1. /\ micros' = 0 /\ lastDate' = date /\ timestamp' = date * PerMilli
      /\ clock' = date /\ latest' = date /\ calls' = calls + 1 /\ lastDate < date
      /\ lastLogDate' = lastLogDate /\ warnings' = warnings
  <2>1. date * PerMilli \in Nat
    BY Millis
  <2> QED BY <2>1 DEF NextLater, Reads, GenerateMicroseconds
<1>2. lastDate * PerMilli + PerMilli <= date * PerMilli /\ date * PerMilli \in Nat
      /\ lastDate * PerMilli \in Nat
  BY <1>1, Millis
<1>3. timestamp' > timestamp
  BY <1>1, <1>2
<1>4. TypeOK'
  BY <1>1, <1>2
<1> QED BY <1>1, <1>2, <1>3, <1>4

\* next() when the clock stood still or went back.
LEMMA SameStep ==
  ASSUME TInv, NEW date \in Dates, NEW logDate \in Dates, NextSame(date, logDate)
  PROVE  TInv' /\ timestamp' = timestamp + 1
<1> date \in Nat /\ logDate \in Nat /\ PerMilli \in Nat \ {0}
  BY TimestampAssumption
<1> USE DEF TInv, TypeOK
<1>1. /\ clock' = date /\ latest' = IF date > latest THEN date ELSE latest
      /\ calls' = calls + 1 /\ date <= lastDate
      /\ timestamp' = lastDate' * PerMilli + micros'
      /\ lastLogDate' \in {logDate, lastLogDate}
      /\ warnings' \in {Append(warnings, logDate), warnings}
  BY DEF NextSame, Reads, GenerateMicroseconds
<1>2. /\ lastDate' \in Nat /\ micros' \in 0..(PerMilli - 1) /\ lastDate' >= lastDate
      /\ lastDate' * PerMilli + micros' = lastDate * PerMilli + micros + 1
  <2>1. lastDate * PerMilli \in Nat /\ (lastDate + 1) * PerMilli = lastDate * PerMilli + PerMilli
    BY Millis
  <2>2. CASE micros + 1 = PerMilli
    BY <2>1, <2>2 DEF NextSame, Increment
  <2>3. CASE micros + 1 # PerMilli
    BY <2>1, <2>3 DEF NextSame, Increment
  <2> QED BY <2>2, <2>3
<1>3. timestamp' = timestamp + 1
  BY <1>1, <1>2
<1>4. latest' \in Nat /\ latest <= latest' /\ latest' <= lastDate'
  BY <1>1, <1>2
<1>5. timestamp' < latest' * PerMilli + calls'
  <2>1. latest * PerMilli <= latest' * PerMilli /\ latest * PerMilli \in Nat /\ latest' * PerMilli \in Nat
    BY <1>4, Millis
  <2> QED BY <1>1, <1>3, <2>1
<1>6. TypeOK'
  <2>1. lastDate' * PerMilli \in Nat
    BY <1>2, Millis
  <2>2. warnings' \in Seq(Nat)
    <3>1. warnings \in Seq(Nat) /\ Append(warnings, logDate) \in Seq(Nat)
      OBVIOUS
    <3> QED BY <1>1, <3>1
  <2> QED BY <1>1, <1>2, <1>4, <2>1, <2>2
<1>7. TInv'
  <2>1. calls' > 0 => micros' >= 0
    BY <1>2
  <2>2. clock' <= lastDate'
    BY <1>1, <1>2
  <2> HIDE DEF TInv, TypeOK
  <2> QED BY <1>1, <1>4, <1>5, <1>6, <2>1, <2>2 DEF TInv
<1> QED BY <1>3, <1>7

\* Every call of next() keeps the invariant.
LEMMA TInvStep == TInv /\ [Next]_vars => TInv'
<1> SUFFICES ASSUME TInv, [Next]_vars PROVE TInv'
  OBVIOUS
<1>1. CASE Next
  BY <1>1, LaterStep, SameStep DEF Next
<1>2. CASE UNCHANGED vars
  BY <1>2 DEF vars, TInv, TypeOK
<1> QED BY <1>1, <1>2

\* For every clock: the invariant relating the last timestamp to the fields
\* of the generator, the clock and the number of calls.
THEOREM TimestampInvariant == Spec => []TInv
BY TInvInit, TInvStep, PTL DEF Spec

\* For every clock: each call of next() returns a greater timestamp.
THEOREM Monotonic == Spec => StrictlyIncreasing
<1>1. TInv /\ [Next]_vars => [calls' # calls => timestamp' > timestamp]_vars
  <2> SUFFICES ASSUME TInv, Next PROVE timestamp' > timestamp
    BY DEF vars
  <2>1. timestamp \in Int
    BY DEF TInv, TypeOK
  <2> QED BY <2>1, LaterStep, SameStep DEF Next
<1> QED BY <1>1, TimestampInvariant, PTL DEF Spec, StrictlyIncreasing

\* For every clock: timestamps are not behind it, and ahead of the latest date
\* by fewer microseconds than there were calls.
THEOREM BoundedDrift == Spec => []DriftBounded
<1>1. TInv => DriftBounded
  <2> SUFFICES ASSUME TInv, calls > 0
               PROVE  timestamp >= clock * PerMilli /\ timestamp < latest * PerMilli + calls
    BY DEF DriftBounded
  <2>1. clock * PerMilli <= lastDate * PerMilli /\ clock * PerMilli \in Nat
        /\ lastDate * PerMilli \in Nat
    BY Millis DEF TInv, TypeOK
  <2> QED BY <2>1 DEF TInv, TypeOK
<1> QED BY <1>1, TimestampInvariant, PTL

\* The interval is kept because no warning is later than lastLogDate, whatever
\* the clock does in between.
WarnInv ==
  /\ WarningsApart
  /\ \A i \in DOMAIN warnings : warnings[i] <= lastLogDate

\* A call that logs a warning, or none.
LEMMA WarnStep ==
  ASSUME TypeOK, WarnInv, NEW date \in Dates, NEW logDate \in Dates, NextSame(date, logDate)
  PROVE  WarnInv'
<1> logDate \in Nat /\ MinLogInterval \in Int /\ lastLogDate \in Nat /\ warnings \in Seq(Nat)
  BY TimestampAssumption DEF TypeOK
<1>1. CASE Warns(date, logDate)
  <2>1. lastLogDate' = logDate /\ warnings' = Append(warnings, logDate)
    BY <1>1 DEF NextSame
  <2>2. MinLogInterval > 0 /\ lastLogDate + MinLogInterval <= logDate
    BY <1>1 DEF Warns
  <2>3. /\ DOMAIN warnings' = 1..(Len(warnings) + 1) /\ Len(warnings) \in Nat
        /\ DOMAIN warnings = 1..Len(warnings)
        /\ \A i \in 1..Len(warnings) : warnings'[i] = warnings[i] /\ warnings[i] \in Nat
        /\ warnings'[Len(warnings) + 1] = logDate
    BY <2>1
  <2>4. \A i \in 1..Len(warnings) : warnings[i] <= lastLogDate
    BY <2>3 DEF WarnInv
  <2>5. ASSUME NEW i \in DOMAIN warnings', NEW j \in DOMAIN warnings', i < j
        PROVE  warnings'[j] >= warnings'[i] + MinLogInterval
    <3>1. i \in 1..Len(warnings)
      BY <2>3, <2>5
    <3>2. CASE j = Len(warnings) + 1
      BY <2>2, <2>3, <2>4, <3>1, <3>2
    <3>3. CASE j \in 1..Len(warnings)
      BY <2>3, <2>5, <3>1, <3>3 DEF WarnInv, WarningsApart
    <3> QED BY <2>3, <3>2, <3>3
  <2>6. \A i \in DOMAIN warnings' : warnings'[i] <= lastLogDate'
    BY <2>1, <2>2, <2>3, <2>4
  <2> QED BY <2>2, <2>5, <2>6 DEF WarnInv, WarningsApart
<1>2. CASE ~Warns(date, logDate)
  BY <1>2 DEF NextSame, WarnInv, WarningsApart
<1> QED BY <1>1, <1>2

\* For every clock: the warnings are as far apart as the doc of the constructor
\* says, and there are none when they are disabled.
THEOREM WarningsSeparated == Spec => []WarningsApart
<1>1. Init => WarnInv
  BY DEF Init, WarnInv, WarningsApart
<1>2. TInv /\ WarnInv /\ [Next]_vars => WarnInv'
  <2> SUFFICES ASSUME TInv, WarnInv, [Next]_vars PROVE WarnInv'
    OBVIOUS
  <2>1. ASSUME NEW date \in Dates, NextLater(date) PROVE WarnInv'
    BY <2>1, LaterStep DEF WarnInv, WarningsApart
  <2>2. ASSUME NEW date \in Dates, NEW logDate \in Dates, NextSame(date, logDate) PROVE WarnInv'
    BY <2>2, WarnStep DEF TInv
  <2>3. CASE UNCHANGED vars
    BY <2>3 DEF vars, WarnInv, WarningsApart
  <2> QED BY <2>1, <2>2, <2>3 DEF Next
<1>3. WarnInv => WarningsApart
  BY DEF WarnInv
<1> QED BY <1>1, <1>2, <1>3, TimestampInvariant, PTL DEF Spec

-----------------------------------------------------------------------------
(* The delays between two attempts to reconnect                            *)

\* Induction over the natural numbers, for a set T instead of a formula.
LEMMA Induction ==
    ASSUME NEW T, 0 \in T, \A n \in Nat : n \in T => n + 1 \in T
    PROVE  \A n \in Nat : n \in T
<1> DEFINE U == Nat \ T
           R == OpToRel(<, Nat)
<1>1. SUFFICES ASSUME U # {} PROVE FALSE
  OBVIOUS
<1>2. \E x \in U : \A y \in U : ~(<<y, x>> \in R)
  <2> HIDE DEF R
  <2>1. IsWellFoundedOn(R, Nat)
    BY NatLessThanWellFounded DEF R
  <2>2. U \subseteq Nat
    OBVIOUS
  <2> HIDE DEF U
  <2> QED BY <1>1, <2>1, <2>2, WFMin
<1>3. PICK x \in U : \A y \in U : ~(<<y, x>> \in R)
  BY <1>2
<1>4. \A y \in U : ~(y < x)
  BY <1>3 DEF OpToRel
<1>5. x # 0 /\ x - 1 \in Nat
  OBVIOUS
<1> QED BY <1>4, <1>5

\* The powers of two of the code: they exist, and each is twice the one before.
LEMMA Powers ==
  /\ \A i \in 0..MaxExponent : PowerOfTwo[i] \in Nat \ {0}
  /\ \A i \in 1..MaxExponent : PowerOfTwo[i] = 2 * PowerOfTwo[i - 1]
  /\ PowerOfTwo[0] = 1
<1> DEFINE Defined(m, f) == f = [i \in 0..m |-> IF i = 0 THEN 1 ELSE 2 * f[i - 1]]
           T == {m \in Nat : \E f : Defined(m, f)}
           F == PowerOfTwo
           G == [i \in 0..MaxExponent |-> IF i = 0 THEN 1 ELSE 2 * F[i - 1]]
<1>1. 0 \in T
  <2>1. Defined(0, [i \in 0..0 |-> 1])
    OBVIOUS
  <2> QED BY <2>1, Zenon
<1>2. ASSUME NEW m \in Nat, m \in T PROVE m + 1 \in T
  <2>1. PICK f : Defined(m, f)
    BY <1>2
  <2> DEFINE g == [i \in 0..(m + 1) |-> IF i = m + 1 THEN 2 * f[m] ELSE f[i]]
  <2>2. \A i \in 0..m : g[i] = f[i]
    OBVIOUS
  <2>3. ASSUME NEW i \in 0..(m + 1) PROVE g[i] = IF i = 0 THEN 1 ELSE 2 * g[i - 1]
    <3>1. CASE i = m + 1
      <4>1. i # 0 /\ i - 1 \in 0..m /\ i - 1 = m
        BY <3>1
      <4>2. g[i - 1] = f[m]
        BY <2>2, <4>1
      <4> QED BY <3>1, <4>1, <4>2
    <3>2. CASE i \in 0..m
      <4>1. i = 0 \/ i - 1 \in 0..m
        BY <3>2
      <4>2. g[i] = f[i]
        BY <3>2
      <4>3. f[i] = IF i = 0 THEN 1 ELSE 2 * f[i - 1]
        BY <2>1, <3>2, Zenon
      <4> QED BY <4>1, <4>2, <4>3, <2>2
    <3> QED BY <3>1, <3>2
  <2>4. Defined(m + 1, g)
    <3> DEFINE h == [i \in 0..(m + 1) |-> IF i = 0 THEN 1 ELSE 2 * g[i - 1]]
    <3>1. \A i \in 0..(m + 1) : g[i] = h[i]
      BY <2>3
    <3>2. g = h
      BY <3>1
    <3> QED BY <3>2
  <2> HIDE DEF g, Defined
  <2>5. \E h : Defined(m + 1, h)
    BY <2>4
  <2> QED BY <2>5
<1>3. MaxExponent \in Nat /\ MaxExponent \in T
  <2>1. MaxExponent \in Nat
    BY ReconnectionAssumption
  <2> HIDE DEF T
  <2> QED BY <1>1, <1>2, <2>1, Induction
<1>4. F = G
  BY <1>3, Zenon DEF PowerOfTwo
<1>5. ASSUME NEW i \in 0..MaxExponent PROVE F[i] = IF i = 0 THEN 1 ELSE 2 * F[i - 1]
  <2> HIDE DEF F
  <2>1. G[i] = IF i = 0 THEN 1 ELSE 2 * F[i - 1]
    OBVIOUS
  <2> HIDE DEF G
  <2> QED BY <1>4, <2>1, Zenon
<1> HIDE DEF F
<1> DEFINE U == {n \in Nat : n <= MaxExponent => F[n] \in Nat \ {0}}
<1>6. 0 \in U
  BY <1>3, <1>5
<1>7. ASSUME NEW n \in Nat, n \in U PROVE n + 1 \in U
  <2> SUFFICES ASSUME n + 1 <= MaxExponent PROVE F[n + 1] \in Nat \ {0}
    OBVIOUS
  <2>1. n <= MaxExponent /\ n + 1 \in 0..MaxExponent /\ n + 1 # 0 /\ n + 1 - 1 = n
    BY <1>3
  <2>2. F[n + 1] = 2 * F[n]
    BY <1>5, <2>1
  <2> QED BY <1>7, <2>1, <2>2
<1>8. \A n \in Nat : n \in U
  <2> HIDE DEF U
  <2> QED BY <1>6, <1>7, Induction
<1>9. \A i \in 0..MaxExponent : F[i] \in Nat \ {0}
  BY <1>3, <1>8
<1>10. \A i \in 1..MaxExponent : F[i] = 2 * F[i - 1]
  BY <1>3, <1>5
<1>11. F[0] = 1
  BY <1>3, <1>5
<1> QED BY <1>9, <1>10, <1>11 DEF F

\* A larger share of a delay is no shorter.
LEMMA Shares ==
  ASSUME NEW v \in Nat, NEW a \in Nat, NEW b \in Nat, a <= b
  PROVE  v * a \in Nat /\ v * b \in Nat /\ v * a <= v * b
<1>1. ASSUME NEW d \in Nat, b = a + d PROVE v * b = v * a + v * d /\ v * d \in Nat /\ v * a \in Nat
  BY <1>1
<1>2. b - a \in Nat /\ b = a + (b - a)
  OBVIOUS
<1> QED BY <1>1, <1>2

\* Before the jitter, a delay is none, or at least the base and at most the maximum.
LEMMA Delays ==
  ASSUME NEW i \in -1..MaxExponent
  PROVE  /\ Exponential(i) \in 0..MaxDelay
         /\ i = -1 => Exponential(i) = 0
         /\ i >= 0 => Exponential(i) >= BaseDelay
<1>1. BaseDelay \in Nat \ {0} /\ MaxDelay \in Nat /\ BaseDelay <= MaxDelay /\ MaxExponent \in Nat
  BY ReconnectionAssumption
<1>2. CASE i >= MaxExponent \/ i = -1
  BY <1>1, <1>2 DEF Exponential
<1>3. CASE ~(i >= MaxExponent \/ i = -1)
  <2>1. i \in 0..MaxExponent /\ PowerOfTwo[i] \in Nat \ {0}
    BY <1>1, <1>3, Powers
  <2> DEFINE x == PowerOfTwo[i]
             y == BaseDelay * x
  <2>2. x \in Nat /\ 1 <= x
    BY <2>1
  <2> HIDE DEF x
  <2>3. BaseDelay * 1 <= BaseDelay * x /\ BaseDelay * x \in Nat /\ x * BaseDelay = BaseDelay * x
    BY <1>1, <2>2, Shares
  <2>4. BaseDelay <= y /\ y \in Nat
    BY <1>1, <2>3
  <2>5. Exponential(i) = Min2(y, MaxDelay)
    BY <1>3, <2>3 DEF Exponential, x
  <2> HIDE DEF y
  <2> QED BY <1>1, <1>3, <2>4, <2>5 DEF Min2
<1> QED BY <1>2, <1>3

\* Each delay is longer than the one before until it is the maximum.
LEMMA DelaysGrow ==
  ASSUME NEW i \in 0..MaxExponent
  PROVE  Exponential(i) > Exponential(i - 1) \/ Exponential(i) = MaxDelay
<1>1. BaseDelay \in Nat \ {0} /\ MaxDelay \in Nat /\ BaseDelay <= MaxDelay /\ MaxExponent \in Nat
  BY ReconnectionAssumption
<1>2. CASE i >= MaxExponent
  BY <1>2 DEF Exponential
<1>3. CASE i = 0
  <2>1. i - 1 = -1 /\ i - 1 \in -1..MaxExponent
    BY <1>1, <1>3
  <2>2. Exponential(i - 1) = 0
    BY <2>1, Delays
  <2>3. Exponential(i) >= BaseDelay /\ Exponential(i) \in Nat
    BY <1>1, <1>3, Delays
  <2> QED BY <1>1, <2>2, <2>3
<1>4. CASE i # 0 /\ ~(i >= MaxExponent)
  <2> DEFINE x == PowerOfTwo[i - 1]
             y == x * BaseDelay
  <2>1. i \in 1..MaxExponent /\ i - 1 \in 0..MaxExponent /\ ~(i - 1 >= MaxExponent) /\ i - 1 # -1 /\ i # -1
    BY <1>1, <1>4
  <2>2. x \in Nat \ {0} /\ PowerOfTwo[i] = 2 * x
    BY <2>1, Powers
  <2>3. Exponential(i - 1) = Min2(y, MaxDelay) /\ Exponential(i) = Min2((2 * x) * BaseDelay, MaxDelay)
    BY <1>4, <2>1, <2>2 DEF Exponential
  <2> HIDE DEF x
  <2>4. y \in Nat /\ (2 * x) * BaseDelay = y + y
    BY <1>1, <2>2
  <2>5. y >= 1
    <3>1. x * 1 <= x * BaseDelay
      BY <1>1, <2>2, Shares
    <3> QED BY <2>2, <2>4, <3>1
  <2> HIDE DEF y
  <2> QED BY <1>1, <2>3, <2>4, <2>5 DEF Min2
<1> QED BY <1>2, <1>3, <1>4

\* What the jitter leaves of a delay.
LEMMA Jitter ==
  ASSUME NEW v \in 0..MaxDelay, NEW p \in Percents, p <= JitterRange(v).range, NEW d,
         d = (v * (JitterRange(v).min + p)) \div 100
  PROVE  /\ d \in Nat
         /\ 100 * (d + 1) > 85 * v
         /\ 100 * d <= 115 * v
         /\ ~startWithNoDelay /\ v = BaseDelay => d >= BaseDelay
         /\ v = MaxDelay /\ (startWithNoDelay \/ v # BaseDelay) => d <= MaxDelay
<1>1. MaxDelay \in Nat /\ v \in Nat /\ p \in Nat /\ v <= MaxDelay
  BY ReconnectionAssumption
<1> DEFINE a == JitterRange(v).min + p
           m == v * a
<1>2. a \in Nat /\ 85 <= a /\ a <= 115 /\ (~startWithNoDelay /\ v = BaseDelay => 100 <= a)
      /\ (v = MaxDelay /\ (startWithNoDelay \/ v # BaseDelay) => a <= 100)
  BY <1>1 DEF JitterRange
<1> HIDE DEF a
<1>3. v * 85 <= m /\ m <= v * 115 /\ m \in Nat
  BY <1>1, <1>2, Shares
<1>4. 100 <= a => v * 100 <= m
  BY <1>1, <1>2, Shares
<1>5. d = m \div 100
  BY DEF a
<1> HIDE DEF m
<1>6. d \in Nat /\ 100 * d <= m /\ m < 100 * (d + 1)
  BY <1>3, <1>5
<1>7. 100 * (d + 1) > 85 * v
  BY <1>1, <1>3, <1>6
<1>8. 100 * d <= 115 * v
  BY <1>1, <1>3, <1>6
<1>9. ASSUME ~startWithNoDelay, v = BaseDelay PROVE d >= BaseDelay
  <2>1. v * 100 <= m
    BY <1>2, <1>4, <1>9
  <2>2. ASSUME NEW x \in Nat, NEW y \in Nat, x * 100 <= m, m < 100 * (y + 1) PROVE y >= x
    BY <1>3, <2>2
  <2>3. d >= v
    BY <1>1, <1>6, <2>1, <2>2
  <2> QED BY <1>9, <2>3
<1>10. ASSUME v = MaxDelay, startWithNoDelay \/ v # BaseDelay PROVE d <= MaxDelay
  <2>1. a <= 100 /\ 100 \in Nat
    BY <1>2, <1>10
  <2>2. m <= v * 100
    BY <1>1, <1>2, <2>1, Shares DEF m
  <2>3. ASSUME NEW x \in Nat, NEW y \in Nat, m <= x * 100, 100 * y <= m PROVE y <= x
    BY <1>3, <2>3
  <2>4. d <= v
    BY <1>1, <1>6, <2>2, <2>3
  <2> QED BY <1>10, <2>4
<1> QED BY <1>6, <1>7, <1>8, <1>9, <1>10

(***************************************************************************)
(* Where the generator is: after an attempt the index is the one after the *)
(* attempt's, until it is the last, which it stays.                        *)
(***************************************************************************)
ScheduleInv ==
  /\ ScheduleTypeOK
  /\ delay # -1 => index >= 0 /\ (index < MaxExponent => value = Exponential(index - 1))

\* One more value of the generator.
LEMMA YieldStep ==
  ASSUME ScheduleInv, NEW p \in Percents, Yield(p)
  PROVE  /\ ScheduleInv' /\ JitterKept'
         /\ value' > value \/ value' = MaxDelay \/ delay = -1
<1> DEFINE v == Exponential(index)
<1>1. BaseDelay \in Nat \ {0} /\ MaxDelay \in Nat /\ BaseDelay <= MaxDelay /\ MaxExponent \in Nat
  BY ReconnectionAssumption
<1>2. /\ p <= JitterRange(v).range /\ value' = v
      /\ delay' = (v * (JitterRange(v).min + p)) \div 100
      /\ index' = Min2(index + 1, MaxExponent) /\ startWithNoDelay' = startWithNoDelay
  BY DEF Yield
<1>3. index \in -1..MaxExponent /\ startWithNoDelay \in BOOLEAN
  BY DEF ScheduleInv, ScheduleTypeOK
<1>4. v \in 0..MaxDelay /\ (index = -1 => v = 0) /\ (index >= 0 => v >= BaseDelay)
  BY <1>3, Delays
<1> HIDE DEF v
<1>5. /\ delay' \in Nat /\ 100 * (delay' + 1) > 85 * v /\ 100 * delay' <= 115 * v
      /\ ~startWithNoDelay /\ v = BaseDelay => delay' >= BaseDelay
      /\ v = MaxDelay /\ (startWithNoDelay \/ v # BaseDelay) => delay' <= MaxDelay
  BY <1>2, <1>4, Jitter
<1>6. index' \in 0..MaxExponent /\ (index' < MaxExponent => index' - 1 = index)
  BY <1>1, <1>2, <1>3 DEF Min2
<1>7. ScheduleTypeOK'
  BY <1>2, <1>3, <1>4, <1>5, <1>6 DEF ScheduleTypeOK
<1>8. ScheduleInv'
  <2>1. index' < MaxExponent => value' = Exponential(index' - 1)
    BY <1>2, <1>6 DEF v
  <2>2. (delay # -1 => index >= 0 /\ (index < MaxExponent => value = Exponential(index - 1)))'
    BY <1>6, <2>1 DEF Exponential
  <2> QED BY <1>7, <2>2 DEF ScheduleInv
<1>9. JitterKept'
  <2>1. ASSUME NEW x \in Nat, NEW y \in Nat, NEW z \in Nat, 100 * (x + 1) > 85 * y, 2 * z <= y, z # 0
        PROVE  x >= z
    BY <2>1
  <2>2. v \in Nat /\ BaseDelay \in Nat /\ BaseDelay # 0 /\ MaxDelay \in Nat /\ delay' \in Nat
    BY <1>1, <1>4, <1>5
  <2>3. ASSUME v # 0, delay' < BaseDelay
        PROVE  v < 2 * BaseDelay /\ (startWithNoDelay \/ v # BaseDelay)
    <3>1. ~(2 * BaseDelay <= v)
      <4> SUFFICES ASSUME 2 * BaseDelay <= v PROVE delay' >= BaseDelay
        BY <2>2, <2>3
      <4>1. 100 * (delay' + 1) > 85 * v
        BY <1>5
      <4> QED BY <2>1, <2>2, <4>1
    <3>2. ~(~startWithNoDelay /\ v = BaseDelay)
      BY <1>5, <2>2, <2>3
    <3> QED BY <2>2, <3>1, <3>2
  <2>4. ASSUME delay' > MaxDelay
        PROVE  /\ 115 * v > 100 * MaxDelay
               /\ v # MaxDelay \/ (~startWithNoDelay /\ BaseDelay = MaxDelay)
    <3>0. ASSUME NEW x \in Nat, NEW y \in Nat, NEW z \in Nat, 100 * x <= 115 * y, x > z
          PROVE  115 * y > 100 * z
      BY <3>0
    <3>1. 115 * v > 100 * MaxDelay
      BY <1>5, <2>2, <2>4, <3>0
    <3>2. ~(v = MaxDelay /\ (startWithNoDelay \/ v # BaseDelay))
      BY <1>5, <2>2, <2>4
    <3> QED BY <3>1, <3>2
  <2>5. (value # 0 /\ delay < BaseDelay => MayBeShort)' /\ (delay > MaxDelay => MayBeLong)'
    BY <1>2, <2>3, <2>4 DEF MayBeShort, MayBeLong
  <2> QED BY <1>2, <1>5, <1>7, <2>5 DEF JitterKept
<1>10. value' > value \/ value' = MaxDelay \/ delay = -1
  <2> SUFFICES ASSUME delay # -1 PROVE value' > value \/ value' = MaxDelay
    OBVIOUS
  <2>1. index >= 0 /\ (index < MaxExponent => value = Exponential(index - 1))
    BY DEF ScheduleInv
  <2>2. CASE index < MaxExponent
    <3>1. index \in 0..MaxExponent
      BY <1>1, <1>3, <2>1
    <3> QED BY <1>2, <2>1, <2>2, <3>1, DelaysGrow DEF v
  <2>3. CASE ~(index < MaxExponent)
    <3>1. index >= MaxExponent
      BY <1>1, <1>3, <2>3
    <3> QED BY <1>2, <3>1 DEF v, Exponential
  <2> QED BY <2>2, <2>3
<1> QED BY <1>8, <1>9, <1>10

(***************************************************************************)
(* For every base delay, maximum and jitter: each delay that newSchedule() *)
(* yields is within 15 percent of the pure one, is below the base or above *)
(* the maximum only for the attempts that MayBeShort and MayBeLong name,   *)
(* and but for the jitter the delays grow to the maximum and stay there.   *)
(***************************************************************************)
THEOREM ReconnectionDelays == ScheduleSpec => ScheduleSound
<1>1. ScheduleInit => ScheduleInv
  BY ReconnectionAssumption DEF ScheduleInit, ScheduleInv, ScheduleTypeOK
<1>2. ScheduleInv /\ [ScheduleNext]_scheduleVars => ScheduleInv'
  <2> SUFFICES ASSUME ScheduleInv, [ScheduleNext]_scheduleVars PROVE ScheduleInv'
    OBVIOUS
  <2>1. CASE ScheduleNext
    BY <2>1, YieldStep DEF ScheduleNext
  <2>2. CASE UNCHANGED scheduleVars
    BY <2>2 DEF scheduleVars, ScheduleInv, ScheduleTypeOK, Exponential
  <2> QED BY <2>1, <2>2
<1>3. ScheduleInv /\ [ScheduleNext]_scheduleVars =>
        [/\ JitterKept'
         /\ value' > value \/ value' = MaxDelay \/ delay = -1]_scheduleVars
  BY YieldStep DEF ScheduleNext
<1> QED BY <1>1, <1>2, <1>3, PTL DEF ScheduleSpec, ScheduleSound

-----------------------------------------------------------------------------
(* Version 1 UUIDs and the timestamps of queries                           *)

\* A number is a quotient times the divisor and a rest in one way only.
LEMMA OneQuotient ==
  ASSUME NEW n \in Nat \ {0}, NEW a \in Nat, NEW b \in Nat, NEW r \in 0..(n - 1), NEW s \in 0..(n - 1),
         a * n + r = b * n + s
  PROVE  a = b /\ r = s
<1>1. ASSUME NEW x \in Nat, NEW y \in Nat, NEW p \in 0..(n - 1), NEW q \in 0..(n - 1),
             x * n + p = y * n + q, x < y
      PROVE  FALSE
  <2>1. n * (x + 1) <= n * y /\ n * y \in Nat
    BY <1>1, Shares
  <2>2. n * (x + 1) = x * n + n /\ n * y = y * n /\ x * n \in Nat
    OBVIOUS
  <2> QED BY <1>1, <2>1, <2>2
<1>2. a = b
  BY <1>1
<1>3. a * n \in Nat
  OBVIOUS
<1> QED BY <1>2, <1>3

\* The quotient and the rest of a division.
LEMMA Division ==
  ASSUME NEW x \in Nat, NEW n \in Nat \ {0}
  PROVE  /\ x \div n \in Nat /\ x % n \in 0..(n - 1)
         /\ x = (x \div n) * n + (x % n)
OBVIOUS

\* The quotient and the rest of a sum of a multiple and a rest.
LEMMA DivisionOf ==
  ASSUME NEW n \in Nat \ {0}, NEW a \in Nat, NEW r \in 0..(n - 1)
  PROVE  /\ a * n + r \in Nat
         /\ (a * n + r) \div n = a
         /\ (a * n + r) % n = r
<1> DEFINE x == a * n + r
<1>1. x \in Nat
  OBVIOUS
<1> HIDE DEF x
<1>2. x \div n \in Nat /\ x % n \in 0..(n - 1) /\ x = (x \div n) * n + (x % n)
  BY <1>1, Division
<1> DEFINE q == x \div n
           t == x % n
<1> HIDE DEF q, t
<1>3. q \in Nat /\ t \in 0..(n - 1) /\ a * n + r = q * n + t
  BY <1>2 DEF q, t, x
<1>4. a = q /\ r = t
  BY <1>3, OneQuotient
<1> QED BY <1>1, <1>4 DEF q, t, x

\* A number below a product has a quotient below the other factor.
LEMMA QuotientBelow ==
  ASSUME NEW n \in Nat \ {0}, NEW m \in Nat, NEW x \in Nat, x < n * m
  PROVE  x \div n < m
<1> DEFINE q == x \div n
           t == x % n
<1>1. q \in Nat /\ t \in 0..(n - 1) /\ x = q * n + t
  BY Division
<1> HIDE DEF q, t
<1>2. ASSUME m <= q PROVE FALSE
  <2>1. n * m <= n * q /\ n * m \in Nat /\ n * q = q * n
    BY <1>1, <1>2, Shares
  <2> QED BY <1>1, <2>1
<1>3. q < m
  BY <1>1, <1>2
<1> QED BY <1>3 DEF q

\* getDatePrecision() reads back what writeTime() wrote.
LEMMA TimeReadBack ==
  ASSUME NEW time \in 0..MaxTime, NEW tick \in 0..(TicksInMs - 1)
  PROVE  GetDatePrecision(WriteTime(time, tick)) = [date |-> time, ticks |-> tick]
<1>1. /\ TicksInMs \in Nat \ {0} /\ LowRange \in Nat \ {0} /\ MidRange \in Nat \ {0} /\ HighRange \in Nat \ {0}
      /\ UnixToGregorian \in Nat /\ MaxTime \in Nat
      /\ (MaxTime + UnixToGregorian + 1) * TicksInMs <= LowRange * (MidRange * HighRange)
  BY TimeUuidAssumption
<1> DEFINE u == time + UnixToGregorian
           val == u * TicksInMs + tick
           f1 == val % LowRange
           high == val \div LowRange
           f2 == high % MidRange
           f3 == high \div MidRange
<1>2. u \in Nat /\ u + 1 <= MaxTime + UnixToGregorian + 1 /\ MaxTime + UnixToGregorian + 1 \in Nat
  BY <1>1
<1>3. val \in Nat /\ val \div TicksInMs = u /\ val % TicksInMs = tick
  BY <1>1, <1>2, DivisionOf
<1>4. val < LowRange * (MidRange * HighRange)
  <2>1. TicksInMs * (u + 1) <= TicksInMs * (MaxTime + UnixToGregorian + 1)
    BY <1>1, <1>2, Shares
  <2> DEFINE a == MaxTime + UnixToGregorian + 1
             c == LowRange * (MidRange * HighRange)
  <2>2. a \in Nat /\ c \in Nat /\ a * TicksInMs <= c /\ TicksInMs * (u + 1) <= TicksInMs * a
    <3>1. MidRange * HighRange \in Nat
      BY <1>1
    <3>2. c \in Nat
      BY <1>1, <3>1
    <3> QED BY <1>1, <1>2, <2>1, <3>2
  <2> HIDE DEF a, c, u
  <2>3. TicksInMs * (u + 1) = u * TicksInMs + TicksInMs /\ u * TicksInMs \in Nat /\ TicksInMs * a = a * TicksInMs
        /\ a * TicksInMs \in Nat
    BY <1>1, <1>2, <2>2
  <2>4. val < c
    BY <1>1, <2>2, <2>3
  <2> QED BY <2>4 DEF c
<1> HIDE DEF val, u
<1>5. f1 \in Nat /\ high \in Nat /\ val = high * LowRange + f1
  <2>1. high \in Nat /\ f1 \in 0..(LowRange - 1) /\ val = high * LowRange + f1
    BY <1>1, <1>3, Division, Zenon
  <2> HIDE DEF f1, high
  <2> QED BY <1>1, <2>1
<1>6. high < MidRange * HighRange
  <2>1. MidRange * HighRange \in Nat
    BY <1>1
  <2> QED BY <1>1, <1>3, <1>4, <2>1, QuotientBelow
<1> HIDE DEF f1, high
<1>7. f2 \in Nat /\ f3 \in Nat /\ high = f3 * MidRange + f2
  BY <1>1, <1>5, Division
<1>8. f3 < HighRange
  BY <1>1, <1>5, <1>6, QuotientBelow
<1> HIDE DEF f2, f3
<1>9. f3 % HighRange = f3
  BY <1>1, <1>7, <1>8
<1>10. WriteTime(time, tick) = <<f1, f2, f3>>
  BY <1>9 DEF WriteTime, f1, f2, f3, high, val, u
<1>11. f1 + LowRange * (f2 + MidRange * f3) = val
  BY <1>1, <1>5, <1>7
<1>12. GetDatePrecision(<<f1, f2, f3>>) = [date |-> val \div TicksInMs - UnixToGregorian, ticks |-> val % TicksInMs]
  BY <1>11 DEF GetDatePrecision
<1>13. val \div TicksInMs - UnixToGregorian = time
  BY <1>1, <1>3 DEF u
<1> QED BY <1>3, <1>10, <1>12, <1>13, Zenon

(***************************************************************************)
(* What the UUIDs that now() made look like, and what the counters know of *)
(* them.  Of a millisecond whose UUIDs so far kept to the limits,          *)
(* _ticksForCurrentTime is the tick of the last one, and their number but  *)
(* one.                                                                    *)
(***************************************************************************)
MadeUuids ==
  {[at |-> p[1], fields |-> WriteTime(p[1], p[2])] : p \in (0..MaxTime) \X (0..(TicksInMs - 1))}

CountsTheLast(us, n, time, tick) ==
  /\ time = us[n].at
  /\ Cardinality(MadeAt(us, n, us[n].at)) = tick + 1
  /\ \A i \in 1..n :
       /\ us[i].at <= us[n].at
       /\ us[i].at = us[n].at => GetDatePrecision(us[i].fields).ticks <= tick

Regular(us, j) == InOrder(us, j) /\ WithinLimit(us, j)

LaterThanAllBefore(us, j) == Regular(us, j) => \A i \in 1..(j - 1) : Earlier(us[i], us[j])

UuidInv ==
  /\ now \in 1..MaxTime
  /\ ticks \in 0..(TicksInMs - 1)
  /\ ticksForCurrentTime \in Nat
  /\ lastTimestamp \in Nat
  /\ uuids \in Seq(MadeUuids)
  /\ Len(uuids) = 0 => lastTimestamp = 0
  /\ Len(uuids) > 0 /\ Regular(uuids, Len(uuids)) =>
       CountsTheLast(uuids, Len(uuids), lastTimestamp, ticksForCurrentTime)
  /\ \A j \in 1..Len(uuids) : LaterThanAllBefore(uuids, j)

\* What is read back of a UUID.
LEMMA UuidReadBack ==
  ASSUME NEW u \in MadeUuids
  PROVE  /\ u.at \in 0..MaxTime
         /\ GetDatePrecision(u.fields).date = u.at
         /\ GetDatePrecision(u.fields).ticks \in 0..(TicksInMs - 1)
<1>1. PICK p \in (0..MaxTime) \X (0..(TicksInMs - 1)) : u = [at |-> p[1], fields |-> WriteTime(p[1], p[2])]
  BY DEF MadeUuids
<1>2. p[1] \in 0..MaxTime /\ p[2] \in 0..(TicksInMs - 1)
  OBVIOUS
<1>3. u.at = p[1] /\ u.fields = WriteTime(p[1], p[2])
  BY <1>1
<1>4. GetDatePrecision(u.fields) = [date |-> p[1], ticks |-> p[2]]
  BY <1>2, <1>3, TimeReadBack
<1> QED BY <1>2, <1>3, <1>4

\* Only finitely many are made at a time.
LEMMA MadeAtFinite ==
  ASSUME NEW us, NEW j \in Nat, NEW t
  PROVE  IsFiniteSet(MadeAt(us, j, t)) /\ Cardinality(MadeAt(us, j, t)) \in Nat
<1>1. IsFiniteSet(1..j)
  BY FS_Interval
<1>2. MadeAt(us, j, t) \in SUBSET (1..j)
  BY DEF MadeAt
<1>3. IsFiniteSet(MadeAt(us, j, t))
  BY <1>1, <1>2, FS_Subset
<1> QED BY <1>3, FS_CardinalityType

\* What is made later does not change what is regular so far.
LEMMA RegularPrefix ==
  ASSUME NEW us, NEW ws, NEW j \in Nat, \A i \in 1..j : us[i] = ws[i]
  PROVE  Regular(us, j) => Regular(ws, j)
<1> SUFFICES ASSUME Regular(us, j) PROVE InOrder(ws, j) /\ WithinLimit(ws, j)
  BY DEF Regular
<1>1. InOrder(ws, j)
  <2> SUFFICES ASSUME NEW k \in 2..j PROVE ws[k - 1].at <= ws[k].at
    BY DEF InOrder
  <2>1. k \in 1..j /\ k - 1 \in 1..j
    OBVIOUS
  <2>2. us[k - 1].at <= us[k].at
    BY DEF Regular, InOrder
  <2> QED BY <2>1, <2>2
<1>2. WithinLimit(ws, j)
  <2> SUFFICES ASSUME NEW k \in 1..j PROVE Cardinality(MadeAt(ws, j, ws[k].at)) <= TicksInMs
    BY DEF WithinLimit
  <2>1. MadeAt(ws, j, ws[k].at) = MadeAt(us, j, us[k].at)
    BY DEF MadeAt
  <2> QED BY <2>1 DEF Regular, WithinLimit
<1> QED BY <1>1, <1>2

\* A regular history was regular before its last UUID.
LEMMA RegularShorter ==
  ASSUME NEW us, NEW j \in Nat, Regular(us, j + 1)
  PROVE  Regular(us, j)
<1>1. InOrder(us, j)
  BY DEF Regular, InOrder
<1>2. WithinLimit(us, j)
  <2> SUFFICES ASSUME NEW k \in 1..j PROVE Cardinality(MadeAt(us, j, us[k].at)) <= TicksInMs
    BY DEF WithinLimit
  <2> DEFINE S == MadeAt(us, j + 1, us[k].at)
             T == MadeAt(us, j, us[k].at)
  <2>1. T \in SUBSET S
    BY DEF MadeAt
  <2>2. IsFiniteSet(S) /\ Cardinality(S) \in Nat /\ Cardinality(T) \in Nat
    BY MadeAtFinite
  <2>3. Cardinality(S) <= TicksInMs
    BY DEF Regular, WithinLimit
  <2> HIDE DEF S, T
  <2>4. Cardinality(T) <= Cardinality(S)
    BY <2>1, <2>2, FS_Subset
  <2>5. Cardinality(T) <= TicksInMs
    BY <2>2, <2>3, <2>4, TimeUuidAssumption
  <2> QED BY <2>5 DEF T
<1> QED BY <1>1, <1>2 DEF Regular

\* TimeUuid.now().
LEMMA MakeNowStep ==
  ASSUME UuidInv, MakeNow
  PROVE  UuidInv'
<1> DEFINE n == Len(uuids)
           ws == uuids'
           count == IF Restart(now) THEN 0 ELSE ticksForCurrentTime + 1
           tick == IF count >= TicksInMs THEN NextTicks ELSE count
           u == [at |-> now, fields |-> WriteTime(now, tick)]
<1>1. /\ ticksForCurrentTime' = count
      /\ lastTimestamp' = IF Restart(now) THEN now ELSE lastTimestamp
      /\ ticks' = IF count >= TicksInMs THEN NextTicks ELSE ticks
      /\ ws = Append(uuids, u) /\ now' = now
  BY DEF MakeNow
<1>2. /\ now \in 1..MaxTime /\ ticks \in 0..(TicksInMs - 1) /\ ticksForCurrentTime \in Nat
      /\ lastTimestamp \in Nat /\ uuids \in Seq(MadeUuids)
      /\ n = 0 => lastTimestamp = 0
      /\ n > 0 /\ Regular(uuids, n) => CountsTheLast(uuids, n, lastTimestamp, ticksForCurrentTime)
      /\ \A j \in 1..n : LaterThanAllBefore(uuids, j)
  BY DEF UuidInv
<1>3. TicksInMs \in Nat \ {0} /\ MaxTime \in Nat
  BY TimeUuidAssumption
<1>4. NextTicks \in 0..(TicksInMs - 1) /\ count \in Nat /\ tick \in 0..(TicksInMs - 1)
  <2>1. NextTicks \in 0..(TicksInMs - 1)
    BY <1>2, <1>3 DEF NextTicks
  <2>2. count \in Nat
    BY <1>2
  <2> QED BY <1>3, <2>1, <2>2
<1>5. u \in MadeUuids /\ GetDatePrecision(u.fields) = [date |-> now, ticks |-> tick] /\ u.at = now
  <2> HIDE DEF tick
  <2>1. <<now, tick>> \in (0..MaxTime) \X (0..(TicksInMs - 1))
    BY <1>2, <1>3, <1>4
  <2>2. u = [at |-> <<now, tick>>[1], fields |-> WriteTime(<<now, tick>>[1], <<now, tick>>[2])]
    OBVIOUS
  <2>3. u \in MadeUuids
    BY <2>1, <2>2, Zenon DEF MadeUuids
  <2>4. now \in 0..MaxTime
    BY <1>2, <1>3
  <2>5. GetDatePrecision(u.fields) = [date |-> now, ticks |-> tick]
    BY <1>4, <2>4, TimeReadBack
  <2> QED BY <2>3, <2>5
<1> HIDE DEF u
<1>6. /\ ws \in Seq(MadeUuids) /\ Len(ws) = n + 1 /\ n \in Nat
      /\ ws[n + 1] = u /\ \A i \in 1..n : ws[i] = uuids[i] /\ uuids[i] \in MadeUuids
  BY <1>1, <1>2, <1>5
<1>7. \A i \in 1..n : uuids[i].at \in Nat /\ GetDatePrecision(uuids[i].fields).date = uuids[i].at
                      /\ GetDatePrecision(uuids[i].fields).ticks \in Nat
  BY <1>6, UuidReadBack
<1> HIDE DEF ws, n
<1>8. ASSUME NEW j \in 1..n PROVE LaterThanAllBefore(ws, j)
  <2> SUFFICES ASSUME Regular(ws, j), NEW i \in 1..(j - 1) PROVE Earlier(ws[i], ws[j])
    BY DEF LaterThanAllBefore
  <2>1. j \in Nat /\ \A k \in 1..j : ws[k] = uuids[k]
    BY <1>6
  <2>2. Regular(uuids, j)
    BY <2>1, RegularPrefix
  <2>3. Earlier(uuids[i], uuids[j])
    BY <1>2, <2>2 DEF LaterThanAllBefore
  <2>4. i \in 1..j /\ j \in 1..j
    BY <1>6
  <2> QED BY <2>1, <2>3, <2>4
<1>9. ASSUME Regular(ws, n + 1)
      PROVE  /\ CountsTheLast(ws, n + 1, lastTimestamp', ticksForCurrentTime')
             /\ \A i \in 1..n : Earlier(ws[i], ws[n + 1])
  <2>1. Regular(uuids, n)
    <3>1. Regular(ws, n)
      BY <1>6, <1>9, RegularShorter
    <3> QED BY <1>6, <3>1, RegularPrefix
  <2>2. \A i \in 1..n : ws[i].at = uuids[i].at
    BY <1>6
  <2> DEFINE S == MadeAt(ws, n, now)
             T == MadeAt(ws, n + 1, now)
  <2>3. T = S \cup {n + 1} /\ ~(n + 1 \in S)
    BY <1>5, <1>6 DEF MadeAt
  <2>4. IsFiniteSet(S) /\ Cardinality(S) \in Nat
    BY <1>6, MadeAtFinite
  <2>5. Cardinality(T) <= TicksInMs
    <3>1. n + 1 \in 1..(n + 1) /\ ws[n + 1].at = now
      BY <1>5, <1>6
    <3> QED BY <1>9, <3>1 DEF Regular, WithinLimit
  <2>6. S = MadeAt(uuids, n, now)
    BY <2>2 DEF MadeAt
  <2> HIDE DEF S, T
  <2>7. Cardinality(T) = Cardinality(S) + 1
    BY <2>3, <2>4, FS_AddElement
  <2>8. CASE now > lastTimestamp
    <3>1. Restart(now)
      BY <2>8 DEF Restart
    <3>2. count = 0 /\ tick = 0
      BY <1>3, <3>1
    <3>3. \A i \in 1..n : uuids[i].at < now
      <4>1. CASE n = 0
        BY <4>1
      <4>2. CASE n > 0
        <5>1. CountsTheLast(uuids, n, lastTimestamp, ticksForCurrentTime)
          BY <1>2, <2>1, <4>2
        <5>2. \A i \in 1..n : uuids[i].at <= lastTimestamp
          BY <5>1, Zenon DEF CountsTheLast
        <5> QED BY <1>2, <1>7, <2>8, <5>2
      <4> QED BY <1>6, <4>1, <4>2
    <3>4. S = {}
      BY <1>2, <1>7, <2>6, <3>3 DEF MadeAt
    <3>5. Cardinality(S) = 0
      BY <3>4, FS_EmptySet
    <3>6. Cardinality(T) = 0 + 1
      BY <2>7, <3>5
    <3>7. lastTimestamp' = now /\ ticksForCurrentTime' = 0
      BY <1>1, <3>1, <3>2
    <3>8. ASSUME NEW i \in 1..n PROVE ws[i].at < now /\ Earlier(ws[i], ws[n + 1])
      <4>1. ws[i] = uuids[i] /\ uuids[i].at < now
        BY <1>6, <3>3
      <4>2. GetDatePrecision(ws[i].fields).date < now /\ GetDatePrecision(ws[n + 1].fields).date = now
        BY <1>5, <1>6, <1>7, <4>1
      <4> QED BY <4>1, <4>2 DEF Earlier
    <3> DEFINE G(i) == GetDatePrecision(ws[i].fields).ticks
               A(i) == ws[i].at
    <3>9. G(n + 1) = 0 /\ A(n + 1) = now /\ now \in Nat /\ (\A i \in 1..n : A(i) < now /\ A(i) \in Nat)
      BY <1>2, <1>5, <1>6, <1>7, <2>2, <3>2, <3>8
    <3> HIDE DEF G, A
    <3>10. ASSUME NEW i \in 1..(n + 1)
           PROVE  A(i) <= A(n + 1) /\ (A(i) = A(n + 1) => G(i) <= 0)
      <4>1. i \in 1..n \/ i = n + 1
        BY <1>6
      <4>2. CASE i \in 1..n
        BY <3>9, <4>2
      <4>3. CASE i = n + 1
        BY <3>9, <4>3
      <4> QED BY <4>1, <4>2, <4>3
    <3>11. CountsTheLast(ws, n + 1, lastTimestamp', ticksForCurrentTime')
      <4>1. now = A(n + 1) /\ Cardinality(MadeAt(ws, n + 1, A(n + 1))) = 0 + 1
        BY <3>6, <3>9 DEF T
      <4> QED BY <3>7, <3>10, <4>1 DEF CountsTheLast, A, G
    <3> QED BY <3>8, <3>11
  <2>9. CASE ~(now > lastTimestamp)
    <3>1. n > 0
      BY <1>2, <1>6, <2>9
    <3>2. CountsTheLast(uuids, n, lastTimestamp, ticksForCurrentTime)
      BY <1>2, <2>1, <3>1
    <3>3. lastTimestamp = uuids[n].at /\ Cardinality(MadeAt(uuids, n, uuids[n].at)) = ticksForCurrentTime + 1
      BY <3>2 DEF CountsTheLast
    <3>4. now = lastTimestamp
      <4>1. n + 1 \in 2..(n + 1) /\ n + 1 - 1 = n /\ n \in 1..n
        BY <1>6, <3>1
      <4>2. ws[n].at <= ws[n + 1].at
        BY <1>9, <4>1 DEF Regular, InOrder
      <4> QED BY <1>2, <1>5, <1>6, <2>2, <2>9, <3>3, <4>1, <4>2
    <3>5. Cardinality(S) = ticksForCurrentTime + 1
      BY <2>6, <3>3, <3>4
    <3>6. ticksForCurrentTime + 2 <= TicksInMs
      BY <1>2, <1>3, <2>5, <2>7, <3>5
    <3>7. ~Restart(now)
      BY <1>2, <1>3, <2>9, <3>6 DEF Restart
    <3>8. count = ticksForCurrentTime + 1 /\ tick = count
      BY <1>2, <1>3, <3>6, <3>7
    <3>9. lastTimestamp' = now /\ ticksForCurrentTime' = count /\ Cardinality(T) = count + 1
      BY <1>1, <2>7, <3>4, <3>5, <3>7, <3>8
    <3> DEFINE G(i) == GetDatePrecision(ws[i].fields).ticks
               D(i) == GetDatePrecision(ws[i].fields).date
               A(i) == ws[i].at
    <3>10. ASSUME NEW i \in 1..n
           PROVE  /\ A(i) \in Nat /\ A(i) = D(i) /\ G(i) \in Nat /\ A(i) <= now
                  /\ A(i) = now => G(i) <= ticksForCurrentTime
      <4>1. ws[i] = uuids[i]
        BY <1>6
      <4>2. /\ uuids[i].at <= uuids[n].at
            /\ uuids[i].at = uuids[n].at => GetDatePrecision(uuids[i].fields).ticks <= ticksForCurrentTime
        BY <3>2 DEF CountsTheLast
      <4> QED BY <1>7, <3>3, <3>4, <4>1, <4>2
    <3>11. G(n + 1) = count /\ D(n + 1) = now /\ A(n + 1) = now /\ now \in Nat
      BY <1>2, <1>5, <1>6, <3>8
    <3>12. count \in Nat /\ ticksForCurrentTime < count
      BY <1>2, <3>8
    <3>13. (\A i \in 1..n : Earlier(ws[i], ws[n + 1])) <=>
           (\A i \in 1..n : D(i) < D(n + 1) \/ (D(i) = D(n + 1) /\ G(i) < G(n + 1)))
      BY DEF Earlier
    <3> HIDE DEF G, D, A
    <3> HIDE DEF count
    <3>14. \A i \in 1..n : D(i) < D(n + 1) \/ (D(i) = D(n + 1) /\ G(i) < G(n + 1))
      BY <1>2, <3>10, <3>11, <3>12
    <3>15. ASSUME NEW i \in 1..(n + 1)
           PROVE  A(i) <= A(n + 1) /\ (A(i) = A(n + 1) => G(i) <= count)
      <4>1. i \in 1..n \/ i = n + 1
        BY <1>6
      <4>2. CASE i \in 1..n
        BY <1>2, <3>10, <3>11, <3>12, <4>2
      <4>3. CASE i = n + 1
        BY <3>11, <3>12, <4>3
      <4> QED BY <4>1, <4>2, <4>3
    <3>16. CountsTheLast(ws, n + 1, lastTimestamp', ticksForCurrentTime')
      <4>1. now = A(n + 1) /\ Cardinality(MadeAt(ws, n + 1, A(n + 1))) = count + 1
        BY <3>9, <3>11 DEF T
      <4> QED BY <3>9, <3>15, <4>1 DEF CountsTheLast, A, G
    <3> QED BY <3>13, <3>14, <3>16
  <2> QED BY <2>8, <2>9
<1>10. LaterThanAllBefore(ws, n + 1)
  <2>1. (n + 1) - 1 = n
    BY <1>6
  <2>2. Regular(ws, n + 1) => \A i \in 1..((n + 1) - 1) : Earlier(ws[i], ws[n + 1])
    BY <1>9, <2>1
  <2> HIDE DEF ws
  <2> QED BY <2>2, Zenon DEF LaterThanAllBefore
<1>11. \A j \in 1..(n + 1) : LaterThanAllBefore(ws, j)
  BY <1>6, <1>8, <1>10
<1>12. lastTimestamp' \in Nat /\ ticksForCurrentTime' \in Nat /\ ticks' \in 0..(TicksInMs - 1)
  BY <1>1, <1>2, <1>4
<1> DEFINE m == n + 1
<1>13. m \in Nat /\ m > 0 /\ Len(ws) = m
  BY <1>6
<1>14. Regular(ws, m) => CountsTheLast(ws, m, lastTimestamp', ticksForCurrentTime')
  BY <1>9
<1>15. now' \in 1..MaxTime /\ \A j \in 1..m : LaterThanAllBefore(ws, j)
  BY <1>1, <1>2, <1>11
<1> HIDE DEF m, count, tick
<1>16. m # 0
  BY <1>13
<1> QED BY <1>6, <1>12, <1>13, <1>14, <1>15, <1>16, Zenon
       DEF UuidInv, ws, Regular, InOrder, WithinLimit, MadeAt, CountsTheLast, LaterThanAllBefore, Earlier

(***************************************************************************)
(* The timestamps: the k-th one ends in the rest of k - 1.                 *)
(***************************************************************************)
NextMicros(tick) == IF tick > MicrosInMs - 1 THEN 0 ELSE tick

SameRest(k, stamp) ==
  \E a, q \in Nat : \E r \in 0..(MicrosInMs - 1) : stamp = a * MicrosInMs + r /\ k = q * MicrosInMs + r

StampInv ==
  /\ timestampTicks \in Nat
  /\ stamps \in Seq(Nat)
  /\ \E q \in Nat : Len(stamps) = q * MicrosInMs + NextMicros(timestampTicks)
  /\ \A k \in 1..Len(stamps) : SameRest(k - 1, stamps[k])

\* generateTimestamp().
LEMMA GenerateStep ==
  ASSUME UuidInv, StampInv, GenerateTimestamp
  PROVE  UuidInv' /\ StampInv'
<1> DEFINE n == Len(stamps)
           m == NextMicros(timestampTicks)
           stamp == now * MicrosInMs + m
           ss == stamps'
<1>1. /\ ss = Append(stamps, stamp) /\ timestampTicks' = m + 1
      /\ UNCHANGED <<now, ticks, ticksForCurrentTime, lastTimestamp, uuids>>
  BY DEF GenerateTimestamp, NextMicros
<1>2. MicrosInMs \in Nat \ {0} /\ MaxTime \in Nat /\ now \in Nat
  BY TimeUuidAssumption DEF UuidInv
<1>3. stamps \in Seq(Nat) /\ timestampTicks \in Nat /\ n \in Nat
  BY DEF StampInv
<1>4. m \in 0..(MicrosInMs - 1)
  BY <1>2, <1>3 DEF NextMicros
<1>5. PICK q \in Nat : n = q * MicrosInMs + m
  BY DEF StampInv
<1> HIDE DEF m
<1>6. stamp \in Nat
  <2>1. now * MicrosInMs \in Nat
    BY <1>2
  <2> QED BY <1>4, <2>1
<1>7. SameRest(n, stamp)
  BY <1>2, <1>4, <1>5, Zenon DEF SameRest
<1> HIDE DEF stamp
<1>8. ss \in Seq(Nat) /\ Len(ss) = n + 1 /\ ss[n + 1] = stamp /\ \A k \in 1..n : ss[k] = stamps[k]
  BY <1>1, <1>3, <1>6
<1> HIDE DEF ss
<1>9. ASSUME NEW k \in 1..(n + 1) PROVE SameRest(k - 1, ss[k])
  <2>1. k \in 1..n \/ (k = n + 1 /\ k - 1 = n)
    BY <1>3
  <2>2. CASE k \in 1..n
    <3>1. SameRest(k - 1, stamps[k]) /\ ss[k] = stamps[k]
      BY <1>8, <2>2 DEF StampInv
    <3> QED BY <3>1
  <2>3. CASE k = n + 1 /\ k - 1 = n
    BY <1>7, <1>8, <2>3
  <2> QED BY <2>1, <2>2, <2>3
<1>10. \E p \in Nat : n + 1 = p * MicrosInMs + NextMicros(m + 1)
  <2>1. CASE m + 1 > MicrosInMs - 1
    <3>1. NextMicros(m + 1) = 0
      BY <2>1 DEF NextMicros
    <3>2. m + 1 = MicrosInMs
      BY <1>2, <1>4, <2>1
    <3>3. (q + 1) * MicrosInMs = q * MicrosInMs + MicrosInMs /\ q * MicrosInMs \in Nat
      BY <1>2
    <3>4. n + 1 = (q + 1) * MicrosInMs + 0
      BY <1>2, <1>4, <1>5, <3>2, <3>3
    <3> QED BY <3>1, <3>4
  <2>2. CASE ~(m + 1 > MicrosInMs - 1)
    <3>1. NextMicros(m + 1) = m + 1
      BY <2>2 DEF NextMicros
    <3>2. q * MicrosInMs \in Nat
      BY <1>2
    <3>3. n + 1 = q * MicrosInMs + (m + 1)
      BY <1>4, <1>5, <3>2
    <3> QED BY <3>1, <3>3
  <2> QED BY <2>1, <2>2
<1>11. timestampTicks' \in Nat
  BY <1>1, <1>2, <1>4
<1>12. StampInv'
  <2>1. \E p \in Nat : Len(ss) = p * MicrosInMs + NextMicros(timestampTicks')
    BY <1>1, <1>8, <1>10
  <2>2. \A k \in 1..Len(ss) : SameRest(k - 1, ss[k])
    BY <1>8, <1>9
  <2> QED BY <1>8, <1>11, <2>1, <2>2 DEF StampInv, NextMicros, SameRest, ss
<1>13. UuidInv'
  BY <1>1, Zenon DEF UuidInv, Regular, InOrder, WithinLimit, MadeAt, CountsTheLast, LaterThanAllBefore, Earlier
<1> QED BY <1>12, <1>13

\* Every step keeps both.
LEMMA UuidStep == UuidInv /\ StampInv /\ [TimeUuidNext]_timeUuidVars => UuidInv' /\ StampInv'
<1> SUFFICES ASSUME UuidInv, StampInv, [TimeUuidNext]_timeUuidVars PROVE UuidInv' /\ StampInv'
  OBVIOUS
<1> USE DEF Regular, InOrder, WithinLimit, MadeAt, CountsTheLast, LaterThanAllBefore, Earlier
<1>1. CASE MakeNow
  <2>1. timestampTicks' = timestampTicks /\ stamps' = stamps
    BY <1>1 DEF MakeNow
  <2>2. StampInv'
    BY <2>1, Zenon DEF StampInv, NextMicros, SameRest
  <2> QED BY <1>1, <2>2, MakeNowStep
<1>2. CASE MakeFromDate
  <2>1. /\ ticks' = NextTicks
        /\ UNCHANGED <<now, ticksForCurrentTime, lastTimestamp, timestampTicks, uuids, stamps>>
    BY <1>2 DEF MakeFromDate
  <2>2. ticks' \in 0..(TicksInMs - 1)
    BY <2>1, TimeUuidAssumption DEF UuidInv, NextTicks
  <2>3. UuidInv'
    BY <2>1, <2>2, Zenon DEF UuidInv
  <2>4. StampInv'
    BY <2>1, Zenon DEF StampInv, NextMicros, SameRest
  <2> QED BY <2>3, <2>4
<1>3. CASE GenerateTimestamp
  BY <1>3, GenerateStep
<1>4. CASE SetClock
  <2>1. /\ now' \in 1..MaxTime
        /\ UNCHANGED <<ticks, ticksForCurrentTime, lastTimestamp, timestampTicks, uuids, stamps>>
    BY <1>4 DEF SetClock
  <2>2. UuidInv'
    BY <2>1, Zenon DEF UuidInv
  <2>3. StampInv'
    BY <2>1, Zenon DEF StampInv, NextMicros, SameRest
  <2> QED BY <2>2, <2>3
<1>5. CASE UNCHANGED timeUuidVars
  <2>1. UNCHANGED <<now, ticks, ticksForCurrentTime, lastTimestamp, timestampTicks, uuids, stamps>>
    BY <1>5 DEF timeUuidVars
  <2>2. UuidInv'
    BY <2>1, Zenon DEF UuidInv
  <2>3. StampInv'
    BY <2>1, Zenon DEF StampInv, NextMicros, SameRest
  <2> QED BY <2>2, <2>3
<1> QED BY <1>1, <1>2, <1>3, <1>4, <1>5 DEF TimeUuidNext

\* Timestamps less than a millisecond's worth of calls apart differ.
LEMMA StampsDiffer ==
  ASSUME StampInv, NEW i \in DOMAIN stamps, NEW j \in DOMAIN stamps, i < j, j - i < MicrosInMs
  PROVE  stamps[i] # stamps[j]
<1>1. MicrosInMs \in Nat \ {0} /\ i \in 1..Len(stamps) /\ j \in 1..Len(stamps) /\ Len(stamps) \in Nat
  BY TimeUuidAssumption DEF StampInv
<1>2. SameRest(i - 1, stamps[i]) /\ SameRest(j - 1, stamps[j])
  BY <1>1 DEF StampInv
<1>3. PICK a \in Nat, p \in Nat, r \in 0..(MicrosInMs - 1) :
        stamps[i] = a * MicrosInMs + r /\ i - 1 = p * MicrosInMs + r
  BY <1>2 DEF SameRest
<1>4. PICK b \in Nat, q \in Nat, s \in 0..(MicrosInMs - 1) :
        stamps[j] = b * MicrosInMs + s /\ j - 1 = q * MicrosInMs + s
  BY <1>2 DEF SameRest
<1> SUFFICES ASSUME stamps[i] = stamps[j] PROVE FALSE
  OBVIOUS
<1>5. r = s
  <2>1. a * MicrosInMs + r = b * MicrosInMs + s
    BY <1>3, <1>4
  <2> QED BY <1>1, <2>1, OneQuotient
<1>6. p * MicrosInMs \in Nat /\ q * MicrosInMs \in Nat
  BY <1>1
<1>7. q * MicrosInMs - p * MicrosInMs = j - i
  <2> DEFINE x == p * MicrosInMs
             y == q * MicrosInMs
  <2>1. x \in Nat /\ y \in Nat /\ i - 1 = x + r /\ j - 1 = y + r /\ r \in Nat /\ i \in Nat /\ j \in Nat
    BY <1>1, <1>3, <1>4, <1>5, <1>6
  <2> HIDE DEF x, y
  <2>2. y - x = j - i
    BY <2>1
  <2> QED BY <2>2 DEF x, y
<1>8. CASE q <= p
  <2>1. MicrosInMs * q <= MicrosInMs * p /\ MicrosInMs * q = q * MicrosInMs /\ MicrosInMs * p = p * MicrosInMs
    BY <1>1, <1>8, Shares
  <2> QED BY <1>1, <1>6, <1>7, <2>1
<1>9. CASE p + 1 <= q
  <2>1. MicrosInMs * (p + 1) <= MicrosInMs * q /\ MicrosInMs * q = q * MicrosInMs
        /\ MicrosInMs * (p + 1) = p * MicrosInMs + MicrosInMs
    BY <1>1, <1>9, Shares
  <2> QED BY <1>1, <1>6, <1>7, <2>1
<1> QED BY <1>8, <1>9

(***************************************************************************)
(* For any clock, any length of a millisecond and any sizes of the fields  *)
(* that the time fits: the UUIDs of now() read back their time, are later  *)
(* and later while the limits are kept, and close timestamps differ.       *)
(***************************************************************************)
THEOREM UuidsIncrease == TimeUuidSpec => []TimeUuidsIncrease
<1>1. TimeUuidInit => UuidInv /\ StampInv
  <2> SUFFICES ASSUME TimeUuidInit PROVE UuidInv /\ StampInv
    OBVIOUS
  <2>1. /\ TicksInMs \in Nat \ {0} /\ MicrosInMs \in Nat \ {0}
        /\ now \in 1..MaxTime /\ ticks = 0 /\ ticksForCurrentTime = 0 /\ lastTimestamp = 0
        /\ timestampTicks = 0 /\ uuids = <<>> /\ stamps = <<>>
    BY TimeUuidAssumption DEF TimeUuidInit
  <2>2. UuidInv
    BY <2>1 DEF UuidInv
  <2>3. NextMicros(0) = 0 /\ Len(stamps) = 0 * MicrosInMs + 0
    BY <2>1 DEF NextMicros
  <2>4. StampInv
    <3>1. \E q \in Nat : Len(stamps) = q * MicrosInMs + NextMicros(timestampTicks)
      BY <2>1, <2>3, Zenon
    <3>2. stamps \in Seq(Nat) /\ timestampTicks \in Nat /\ \A k \in 1..Len(stamps) : FALSE
      BY <2>1
    <3> QED BY <3>1, <3>2, Zenon DEF StampInv
  <2> QED BY <2>2, <2>4
<1>2. UuidInv /\ StampInv => TimeUuidsIncrease
  <2> SUFFICES ASSUME UuidInv, StampInv PROVE TimeUuidsIncrease
    OBVIOUS
  <2>1. uuids \in Seq(MadeUuids) /\ DOMAIN uuids = 1..Len(uuids)
    BY DEF UuidInv
  <2>2. ASSUME NEW j \in DOMAIN uuids
        PROVE  /\ GetDatePrecision(uuids[j].fields).date = uuids[j].at
               /\ InOrder(uuids, j) /\ WithinLimit(uuids, j) =>
                    \A i \in 1..(j - 1) : Earlier(uuids[i], uuids[j])
    <3>1. uuids[j] \in MadeUuids
      BY <2>1
    <3>2. LaterThanAllBefore(uuids, j)
      BY <2>1 DEF UuidInv
    <3> QED BY <3>1, <3>2, UuidReadBack DEF LaterThanAllBefore, Regular
  <2>3. \A i, j \in DOMAIN stamps : i < j /\ j - i < MicrosInMs => stamps[i] # stamps[j]
    BY StampsDiffer
  <2> QED BY <2>2, <2>3, Zenon DEF TimeUuidsIncrease
<1> QED BY <1>1, <1>2, UuidStep, PTL DEF TimeUuidSpec

=============================================================================

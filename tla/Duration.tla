------------------------------ MODULE Duration ------------------------------
(***************************************************************************)
(* Durations (lib/types/duration.js): a text is read part by part into a   *)
(* Builder, the Duration it builds is printed and read again, and it is    *)
(* written through three buffers that every Duration of the process shares *)
(* and that are never cleared.                                             *)
(***************************************************************************)
EXTENDS VInt

CONSTANTS
  NanosPer,      \* nanoseconds per hour, minute, second, ms, us and ns
  Amounts,       \* the numbers of a text
  MaxParts       \* bound: parts of a text in the standard form

VARIABLES
  phase,     \* "idle", "text", "built", "written", or "refused" by the constructor
  format,    \* the form of the text, fixed by its first characters
  builder,   \* the Builder
  parts,     \* (history) the parts read so far, as <<unit index, amount>>
  duration,  \* the Duration built last
  reusable,  \* reusableBuffers
  wire       \* what the last toBuffer() returned

durationVars == <<phase, format, builder, parts, duration, reusable, wire>>

\* Units by index: years, months, weeks, days, then the six of NanosPer.
Units == 1..10
Factor(u) == IF u <= 4 THEN <<12, 1, 7, 1>>[u] ELSE NanosPer[u - 4]
Field(u) == IF u <= 2 THEN "months" ELSE IF u <= 4 THEN "days" ELSE "nanoseconds"
Fields == {"months", "days", "nanoseconds"}

\* 2^31 - 1 and 2^63 - 1
MaxOf(f) == 2^((IF f = "nanoseconds" THEN WordBits ELSE WordBits \div 2) - 1) - 1
Fits(d) == \A f \in Fields : d[f] \in (-MaxOf(f) - 1)..MaxOf(f)

NewBuilder(isNegative) ==
  [isNegative |-> isNegative, failed |-> FALSE, unitIndex |-> 0,
   months |-> 0, days |-> 0, nanoseconds |-> 0]

\* The units a text of this form may go on with: the regular expressions of
\* the three ISO forms fix them and their order, the standard form does not.
Follows(u) ==
  LET last == IF parts = <<>> THEN 0 ELSE Last(parts)[1]
  IN CASE format = "standard" -> TRUE
       [] format = "iso" -> u \in {1, 2, 4, 5, 6, 7} /\ u > last
       [] format = "isoWeek" -> u = 3 /\ parts = <<>>
       [] format = "isoAlternative" -> Len(parts) < 6 /\ u = <<1, 2, 4, 5, 6, 7>>[Len(parts) + 1]

\* (fault) A unit may be given twice.
InOrder_Twice(b, u) == u >= b.unitIndex

\* #validateOrder()
InOrder(b, u) == u > b.unitIndex

\* (fault) The limit leaves out what was added before.
HasRoom_Fresh(b, u, amount) ==
  amount * Factor(u) <= MaxOf(Field(u)) + (IF b.isNegative THEN 1 ELSE 0)

\* #validateMonths(), #validateDays(), #validateNanos(): the limit of a
\* negative duration is one more.
HasRoom(b, u, amount) ==
  LET f == Field(u)
      max == MaxOf(f) + (IF b.isNegative THEN 1 ELSE 0)
  IN amount * Factor(u) <= max - b[f]

\* add() and the methods it calls, which throw or add.
Add(b, u, amount) ==
  IF InOrder(b, u) /\ HasRoom(b, u, amount)
    THEN [b EXCEPT !.unitIndex = u, ![Field(u)] = @ + amount * Factor(u)]
    ELSE [b EXCEPT !.failed = TRUE]

\* build(): what it hands to the constructor, which throws unless it fits.
Build(b) ==
  LET sign == IF b.isNegative THEN -1 ELSE 1
  IN [f \in Fields |-> sign * b[f]]

-----------------------------------------------------------------------------

\* (fault) The days are printed without their sign being looked at.
DurationToString_MonthsSign(d) ==
  LET Abs(n) == IF n < 0 THEN -n ELSE n
  IN [negative |-> d.months < 0,
      parts |-> <<<<2, Abs(d.months)>>, <<4, Abs(d.days)>>, <<10, Abs(d.nanoseconds)>>>>]

\* toString(): the parts of what is left, largest unit first, and the sign.
DurationToString(d) ==
  LET Abs(n) == IF n < 0 THEN -n ELSE n
      Append1(a, u) == IF a.rest = 0 \/ a.rest < Factor(u) THEN a
                       ELSE [rest |-> a.rest % Factor(u),
                             text |-> Append(a.text, <<u, a.rest \div Factor(u)>>)]
      Printed(f, us) == FoldLeft(Append1, [rest |-> Abs(d[f]), text |-> <<>>], us).text
  IN [negative |-> \E f \in Fields : d[f] < 0,
      parts |-> Printed("months", <<1, 2>>) \o Printed("days", <<4>>)
                \o Printed("nanoseconds", <<5, 6, 7, 8, 9, 10>>)]

\* The Builder fromString() ends with for a text in the standard form.
FromString(text) ==
  LET Part(b, p) == IF b.failed THEN b ELSE Add(b, p[1], p[2])
  IN FoldLeft(Part, NewBuilder(text.negative), text.parts)

\* toBuffer(): each part into the shared buffer of its field, then the bytes
\* written are copied one after the other.
ToBuffer(d, bufs) ==
  LET w == [f \in Fields |-> WriteVInt(d[f], bufs[f])]
      Bytes(f) == SubSeq(w[f].buffer, 1, w[f].size)
  IN [buffer |-> Bytes("months") \o Bytes("days") \o Bytes("nanoseconds"),
      reusable |-> [f \in Fields |-> w[f].buffer]]

FromBuffer(buffer) ==
  LET m == ReadVInt(buffer, 0)
      d == ReadVInt(buffer, m.offset)
      n == ReadVInt(buffer, d.offset)
  IN [months |-> m.value, days |-> d.value, nanoseconds |-> n.value]

-----------------------------------------------------------------------------

\* The buffers are as another Duration left them: none yet, or one of the
\* lowest numbers, which fill them with ones.
Zeros == [f \in Fields |-> [i \in 1..(ByteBits + 1) |-> 0]]
Lowest == [f \in Fields |-> -MaxOf(f) - 1]

DurationInit ==
  /\ phase = "idle" /\ format = "standard" /\ builder = NewBuilder(FALSE) /\ parts = <<>>
  /\ duration = [f \in Fields |-> 0] /\ wire = <<>>
  /\ reusable \in {Zeros, ToBuffer(Lowest, Zeros).reusable}

\* fromString(): the first characters choose the form and the sign.
StartText(form, isNegative) ==
  /\ phase = "idle"
  /\ phase' = "text"
  /\ format' = form
  /\ builder' = NewBuilder(isNegative)
  /\ UNCHANGED <<parts, duration, reusable, wire>>

ReadPart(u, amount) ==
  /\ phase = "text" /\ ~builder.failed
  /\ format = "standard" => Len(parts) < MaxParts
  /\ Follows(u)
  /\ builder' = Add(builder, u, amount)
  /\ parts' = Append(parts, <<u, amount>>)
  /\ UNCHANGED <<phase, format, duration, reusable, wire>>

EndText ==
  /\ phase = "text" /\ ~builder.failed
  /\ format = "isoWeek" => parts # <<>>
  /\ format = "isoAlternative" => Len(parts) = 6
  /\ IF Fits(Build(builder))
       THEN phase' = "built" /\ duration' = Build(builder)
       ELSE phase' = "refused" /\ UNCHANGED duration
  /\ UNCHANGED <<format, builder, parts, reusable, wire>>

\* The duration is bound to a request.
WriteDuration ==
  /\ phase = "built"
  /\ LET w == ToBuffer(duration, reusable)
     IN wire' = w.buffer /\ reusable' = w.reusable
  /\ phase' = "written"
  /\ UNCHANGED <<format, builder, parts, duration>>

DurationNext ==
  \/ \E form \in {"standard", "iso", "isoWeek", "isoAlternative"}, n \in BOOLEAN : StartText(form, n)
  \/ \E u \in Units, amount \in Amounts : ReadPart(u, amount)
  \/ EndText
  \/ WriteDuration

-----------------------------------------------------------------------------

\* The value of the text: the sum of the parts of each field, with its sign.
TextValue ==
  LET Total(f) == FoldLeft(LAMBDA sum, p : IF Field(p[1]) = f THEN sum + p[2] * Factor(p[1])
                                                              ELSE sum, 0, parts)
  IN [f \in Fields |-> IF builder.isNegative THEN -Total(f) ELSE Total(f)]

\* A text is refused exactly when its units are out of order or repeated, or
\* a total does not fit its signed width, the lowest negative number
\* included; the checks of the Builder leave nothing for the constructor of
\* Duration to refuse, and the Duration has the value of the text.
ParsesExactly ==
  /\ builder.failed <=> ~ /\ \A i, j \in 1..Len(parts) : i < j => parts[i][1] < parts[j][1]
                          /\ Fits(TextValue)
  /\ phase # "refused"
  /\ phase \in {"built", "written"} => duration = TextValue

\* A Duration read from a text prints to a text that reads as the same
\* Duration, and its bytes read back as it, whatever the Durations before it
\* left in the shared buffers.
DurationRoundTrips ==
  /\ phase = "built" => LET b == FromString(DurationToString(duration))
                        IN ~b.failed /\ Build(b) = duration
  /\ phase = "written" => FromBuffer(wire) = duration

=============================================================================

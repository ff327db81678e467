----------------------------- MODULE LocalDate -----------------------------
(***************************************************************************)
(* Dates without a time (lib/types/local-date.js): a count of days from    *)
(* 1970-01-01 that the wire carries shifted, printed as a calendar date    *)
(* where a JavaScript Date can hold it and as the bare count elsewhere.    *)
(***************************************************************************)
EXTENDS Integers, Sequences, SequencesExt

CONSTANTS
  Years, DayCounts,  \* the years and the counts of days that dates are made from
  EsLimit,       \* days from 1970 a JavaScript Date reaches
  DateCenter     \* the shift: 2^31 in the code

VARIABLES
  input,   \* how the date is made
  made     \* <<the date, or that making it failed>>, once tried

localDateVars == <<input, made>>

daysInAMonth == <<31, 29, 31, 30, 31, 30, 31, 31, 30, 31, 30, 31>>

\* (fault) Every fourth year is a leap year.
IsLeapYear_Century(year) == year % 4 = 0

IsLeapYear(year) == (year % 4 = 0 /\ year % 100 # 0) \/ year % 400 = 0

\* (external) The proleptic Gregorian calendar of a JavaScript Date.
LeapsBefore(year) ==
  LET y == year - 1 IN y \div 4 - y \div 100 + y \div 400
MonthLength(year, month) ==
  IF month = 2 /\ (year % 400 = 0 \/ (year % 4 = 0 /\ year % 100 # 0)) THEN 29
  ELSE <<31, 28, 31, 30, 31, 30, 31, 31, 30, 31, 30, 31>>[month]
DaysBefore(year, month) ==
  FoldLeft(LAMBDA sum, m : sum + MonthLength(year, m), 0, [m \in 1..(month - 1) |-> m])
UTC(year, month, day) ==
  365 * (year - 1970) + LeapsBefore(year) - LeapsBefore(1970) + DaysBefore(year, month) + day - 1

Civil(days) ==
  LET about == 1970 + 400 * (days \div 146097) + (400 * (days % 146097)) \div 146097
      year == CHOOSE y \in (about - 1)..(about + 1) :
                UTC(y, 1, 1) <= days /\ days < UTC(y + 1, 1, 1)
      month == CHOOSE m \in 1..12 : /\ UTC(year, m, 1) <= days
                                    /\ days < UTC(year, m, 1) + MonthLength(year, m)
  IN [year |-> year, month |-> month, day |-> days - UTC(year, month, 1) + 1]

InEs(days) == -EsLimit <= days /\ days <= EsLimit
Throws == [failed |-> TRUE, days |-> 0]
Date(days) == [failed |-> FALSE, days |-> days]

\* The constructor: a year, a month and a day, or a count of days.
OfParts(year, month, day) ==
  IF \/ month < 1 \/ month > 12
     \/ day < 1 \/ day > daysInAMonth[month]
     \/ month = 2 /\ day = 29 /\ ~IsLeapYear(year)
     \/ ~InEs(UTC(year, month, day))
    THEN Throws ELSE Date(UTC(year, month, day))
OfDays(days) == IF days < -DateCenter \/ days >= DateCenter THEN Throws ELSE Date(days)

ToBuffer(date) == date.days + DateCenter
FromBuffer(buffer) == OfDays(buffer - DateCenter)

\* The text: dashes tell a calendar date from a count of days; a dash in
\* front of a calendar date is a year before 0.
ToText(date) ==
  LET Norm(n) == IF n < 0 THEN -n ELSE n
      c == Civil(date.days)
  IN IF ~InEs(date.days)
       THEN [calendar |-> FALSE, minus |-> date.days < 0, parts |-> <<Norm(date.days)>>]
       ELSE [calendar |-> TRUE, minus |-> c.year < 0, parts |-> <<Norm(c.year), c.month, c.day>>]
FromText(text) ==
  LET multiplier == IF text.minus THEN -1 ELSE 1
  IN IF text.calendar THEN OfParts(multiplier * text.parts[1], text.parts[2], text.parts[3])
     ELSE OfDays(multiplier * text.parts[1])

Compare(a, b) == IF a.days < b.days THEN -1 ELSE IF a.days > b.days THEN 1 ELSE 0
-----------------------------------------------------------------------------
LocalDateInit ==
  /\ input \in [by : {"parts"}, year : Years, month : 0..13, day : {0, 1, 28, 29, 30, 31, 32}]
                 \cup [by : {"days"}, days : DayCounts]
  /\ made = <<>>

Make ==
  /\ made = <<>>
  /\ made' = <<IF input.by = "days" THEN OfDays(input.days)
               ELSE OfParts(input.year, input.month, input.day)>>
  /\ UNCHANGED input

(* A LocalDate exists for exactly the dates of the calendar, leap days     *)
(* included, that a JavaScript Date can hold, and for every count of days  *)
(* of the CQL type; its text and its bytes are read back as the same date, *)
(* in the range where the text is a count as well.                         *)
(* (lib/types/local-date.js:65-126, 246-350)                               *)
LocalDateExact ==
  \A date \in ToSet(made) :
    /\ input.by = "parts" =>
         /\ date.failed <=> \/ input.month \notin 1..12
                             \/ input.day \notin 1..MonthLength(input.year, input.month)
                             \/ ~InEs(UTC(input.year, input.month, input.day))
         /\ ~date.failed =>
              Civil(date.days) = [year |-> input.year, month |-> input.month, day |-> input.day]
    /\ input.by = "days" => (~date.failed <=> input.days \in -DateCenter..(DateCenter - 1))
    /\ ~date.failed => /\ FromBuffer(ToBuffer(date)) = date
                       /\ FromText(ToText(date)) = date
                       /\ \A days \in DayCounts : Compare(date, Date(days)) = -1 <=> date.days < days
=============================================================================

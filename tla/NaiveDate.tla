----------------------------- MODULE NaiveDate -----------------------------
(***************************************************************************)
(* A date, src/src/NaiveDate.cpp.  The characters of a text are those of   *)
(* NaiveTime.  A call that throws changes nothing.                         *)
(***************************************************************************)
EXTENDS NaiveTime, SequencesExt

CONSTANTS
    Years,      \* bound: years that are set
    DateTexts,  \* bound: texts that are parsed
    Mornings    \* bound: dates, as [year, month, day], of which it is today

MaxYear == 65535   \* of a uint16_t

ASSUME YearsAssumption == Years \subseteq 0 .. MaxYear
ASSUME TextsAssumption == DateTexts \subseteq Seq(0 .. 14)
ASSUME MorningsAssumption == Mornings \subseteq [year : 1900 .. MaxYear, month : 1 .. 12, day : 1 .. 31]

VARIABLE date   \* year_, month_ and day_

UnsetDate == [year |-> 0, month |-> 0, day |-> 0]
DateInit == date = UnsetDate

-----------------------------------------------------------------------------
Leap(y) == y % 400 = 0 \/ (y % 100 # 0 /\ y % 4 = 0)

\* days(), in which May has 30.
Days(y, m) ==
    CASE m = 2 -> IF Leap(y) THEN 29 ELSE 28
      [] m \in {4, 5, 6, 9, 11} -> 30
      [] OTHER -> 31

DateValid(d) == d.year >= 1900 /\ d.month \in 1 .. 12 /\ d.day # 0 /\ d.day <= Days(d.year, d.month)

DateEq(a, b) == a.year = b.year /\ a.month = b.month /\ a.day = b.day

DateLess(a, b) ==
    \/ a.year < b.year
    \/ a.year = b.year /\ a.month < b.month
    \/ a.year = b.year /\ a.month = b.month /\ a.day < b.day

DateLessEq(a, b) ==
    \/ a.year < b.year
    \/ a.year = b.year /\ a.month < b.month
    \/ a.year = b.year /\ a.month = b.month /\ a.day <= b.day

DateGreater(a, b) ==
    \/ a.year > b.year
    \/ a.year = b.year /\ a.month > b.month
    \/ a.year = b.year /\ a.month = b.month /\ a.day > b.day

DateGreaterEq(a, b) ==
    \/ a.year > b.year
    \/ a.year = b.year /\ a.month > b.month
    \/ a.year = b.year /\ a.month = b.month /\ a.day >= b.day

\* The days since the first of 1900, a Monday, by the calendar.
CalendarDays(y, m) ==
    <<31, IF Leap(y) THEN 29 ELSE 28, 31, 30, 31, 30, 31, 31, 30, 31, 30, 31>>[m]
LeapsBefore(y) == ((y - 1) \div 4 - (y - 1) \div 100) + (y - 1) \div 400
YearsDays(y) == 365 * (y - 1900) + (LeapsBefore(y) - LeapsBefore(1900))
MonthsDays(y, m) ==
    <<0, 31, 59, 90, 120, 151, 181, 212, 243, 273, 304, 334>>[m] + (IF m > 2 /\ Leap(y) THEN 1 ELSE 0)
DayNumber(d) == YearsDays(d.year) + MonthsDays(d.year, d.month) + d.day - 1

\* weekday(): noon of the date in a timezone so many hours east of UTC, and the
\* day it is then in UTC; Sunday is 0.
\* Mutant: midnight.
Weekday_Midnight(d, offset) == ((DayNumber(d) * 24 - offset) \div 24 + 1) % 7

Weekday(d, offset) == ((DayNumber(d) * 24 + 12 - offset) \div 24 + 1) % 7

-----------------------------------------------------------------------------
\* std::stoi(): spaces, a sign, and digits as far as they go.  It throws when
\* there are none.
LeadingSpaces(s) == CHOOSE n \in 0 .. Len(s) :
    (\A i \in 1 .. n : s[i] = Space) /\ (n < Len(s) => s[n + 1] # Space)
Unsigned(s) ==
    LET rest == SubSeq(s, LeadingSpaces(s) + 1, Len(s))
    IN  IF rest # <<>> /\ Head(rest) \in {Minus, Plus} THEN Tail(rest) ELSE rest
Negative(s) == LeadingSpaces(s) < Len(s) /\ s[LeadingSpaces(s) + 1] = Minus
DigitCount(s) == CHOOSE n \in 0 .. Len(s) :
    (\A i \in 1 .. n : s[i] \in Digit) /\ (n < Len(s) => s[n + 1] \notin Digit)
HasNumber(s) == DigitCount(Unsigned(s)) > 0
Stoi(s) ==
    LET u == Unsigned(s)
        value[n \in 0 .. DigitCount(u)] == IF n = 0 THEN 0 ELSE 10 * value[n - 1] + u[n]
    IN  IF Negative(s) THEN -value[DigitCount(u)] ELSE value[DigitCount(u)]

\* iso8601(): what is between the numbers is not looked at.
YearPart(str) == SubSeq(str, 1, 4)
MonthPart(str) == SubSeq(str, 6, 7)
DayPart(str) == SubSeq(str, 9, 10)
ParsedDate(str) ==
    [year |-> Stoi(YearPart(str)), month |-> Stoi(MonthPart(str)), day |-> Stoi(DayPart(str))]

\* Mutant: the day is not compared with the month's.
TextOfDate_AnyDay(str) ==
    /\ Len(str) = 10
    /\ HasNumber(YearPart(str)) /\ HasNumber(MonthPart(str)) /\ HasNumber(DayPart(str))
    /\ ParsedDate(str).year \in 1900 .. MaxYear
    /\ ParsedDate(str).month \in 1 .. 12 /\ ParsedDate(str).day \in 1 .. 31

TextOfDate(str) ==
    /\ Len(str) = 10
    /\ HasNumber(YearPart(str)) /\ HasNumber(MonthPart(str)) /\ HasNumber(DayPart(str))
    /\ ParsedDate(str).year \in 1900 .. MaxYear
    /\ ParsedDate(str).month \in 1 .. 12 /\ ParsedDate(str).day \in 1 .. 31
    /\ DateValid(ParsedDate(str))

\* The text of a date has four digits for the year, or five.
Iso(d) ==
    (IF d.year > 9999 THEN <<d.year \div 10000>> ELSE <<>>) \o
    <<(d.year \div 1000) % 10, (d.year \div 100) % 10, (d.year \div 10) % 10, d.year % 10, Minus,
      d.month \div 10, d.month % 10, Minus, d.day \div 10, d.day % 10>>

-----------------------------------------------------------------------------
SetYear == \E y \in Years : y >= 1900 /\ date' = [date EXCEPT !.year = y]
SetMonth == \E m \in 1 .. 12 : date' = [date EXCEPT !.month = m]
SetDay == \E d \in 1 .. 31 : date' = [date EXCEPT !.day = d]
ResetDate == date' = UnsetDate
DatesOfTexts == {ParsedDate(str) : str \in {s \in DateTexts : TextOfDate(s)}}
ParseIso == date' \in DatesOfTexts

\* today(): the broken-down local time has the numbers that are set.
Today == date' \in Mornings

DateNext == SetYear \/ SetMonth \/ SetDay \/ ResetDate \/ ParseIso \/ Today

-----------------------------------------------------------------------------
InCalendar(d) == d.year >= 1900 /\ d.month \in 1 .. 12 /\ d.day \in 1 .. CalendarDays(d.year, d.month)

\* Years, months and days are in their ranges, or unset.
DateTypeOK ==
    /\ date \in [year : 0 .. MaxYear, month : 0 .. 12, day : 0 .. 31]
    /\ date.year \notin 1 .. 1899

\* What is accepted by the parser is a date of the calendar, whatever has been
\* set before.
ParsedIsDate == [][ParseIso => InCalendar(date')]_date

\* What valid() accepts is a date of the calendar.
ValidIsInCalendar == DateValid(date) => InCalendar(date)

\* As src/hdr/bren/NaiveDate.hpp:91 and :136 have it, the dates of the calendar
\* are valid as well.
CalendarIsValid == InCalendar(date) => DateValid(date)

\* The comparisons order dates as the calendar does.
DatesInOrder == DateValid(date) => \A other \in DatesOfTexts :
    /\ DateLess(date, other) <=> DayNumber(date) < DayNumber(other)
    /\ DateLessEq(date, other) <=> DayNumber(date) <= DayNumber(other)
    /\ DateEq(date, other) <=> DayNumber(date) = DayNumber(other)
    /\ DateGreaterEq(date, other) <=> DayNumber(date) >= DayNumber(other)
    /\ DateGreater(date, other) <=> DayNumber(date) > DayNumber(other)

\* The day of the week is the calendar's in timezones that are less than twelve
\* hours west and not more than twelve hours east of UTC: beyond, it is another one.
WeekdayOfCalendar == DateValid(date) => \A offset \in -11 .. 12 :
    Weekday(date, offset) = (DayNumber(date) + 1) % 7

\* A text that has been made from a date is read as that date, up to 9999.
IsoReadsBack == DateValid(date) /\ date.year <= 9999 =>
    TextOfDate(Iso(date)) /\ ParsedDate(Iso(date)) = date

\* What is said to be a valid date is one of the calendar, in the order of the
\* calendar and on its day of the week, and is read back from its text.
DatesAgree == DateTypeOK /\ ValidIsInCalendar /\ DatesInOrder /\ WeekdayOfCalendar /\ IsoReadsBack
=============================================================================

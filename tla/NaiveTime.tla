----------------------------- MODULE NaiveTime -----------------------------
(***************************************************************************)
(* A time of day, src/src/NaiveTime.cpp.  The characters of a text are     *)
(* numbers: the digits 0 .. 9, and Colon, Space, Minus, Plus and Other.    *)
(* A call that throws changes nothing.                                     *)
(***************************************************************************)
EXTENDS Integers, Sequences

CONSTANT Additions  \* bound: minutes that are added

ASSUME AdditionsAssumption == Additions \subseteq Nat

VARIABLE time       \* hour_ and min_

Colon == 10
Space == 11
Minus == 12
Plus == 13
Other == 14
Digit == 0 .. 9

UnsetTime == [hour |-> 255, min |-> 255]
TimeInit == time = UnsetTime

TimeValid(t) == t.hour <= 23 /\ t.min <= 59

\* The operators +=, - and the comparisons; += throws beyond midnight.
MinuteOf(t) == t.hour * 60 + t.min
Difference(a, b) == MinuteOf(a) - MinuteOf(b)

\* Mutant: the time may be midnight at the end of the day.
AddFits_Midnight(t, m) == (MinuteOf(t) + m) \div 60 <= 24

AddFits(t, m) == (MinuteOf(t) + m) \div 60 <= 23

Added(t, m) == [hour |-> (MinuteOf(t) + m) \div 60, min |-> (MinuteOf(t) + m) % 60]

TimeLess(a, b) == a.hour < b.hour \/ (a.hour = b.hour /\ a.min < b.min)
TimeLessEq(a, b) == a.hour < b.hour \/ (a.hour = b.hour /\ a.min <= b.min)
TimeGreater(a, b) == a.hour > b.hour \/ (a.hour = b.hour /\ a.min > b.min)
TimeGreaterEq(a, b) == a.hour > b.hour \/ (a.hour = b.hour /\ a.min >= b.min)
TimeEq(a, b) == a.hour = b.hour /\ a.min = b.min

\* Assignment of a text: one or two digits, a colon, one or two digits, with the
\* first of two not above 2 and 5, as the regular expression has it.
Number(s) == IF Len(s) = 1 THEN s[1] ELSE 10 * s[1] + s[2]
Digits(s, top) == Len(s) \in {1, 2} /\ (\A i \in 1 .. Len(s) : s[i] \in Digit) /\ (Len(s) = 2 => s[1] <= top)

ParsedTime(str, i) ==
    [hour |-> Number(SubSeq(str, 1, i - 1)), min |-> Number(SubSeq(str, i + 1, Len(str)))]

TextOfTime(str, i) ==
    /\ Len(str) \in 3 .. 5 /\ str[i] = Colon
    /\ Digits(SubSeq(str, 1, i - 1), 2) /\ Digits(SubSeq(str, i + 1, Len(str)), 5)
    /\ TimeValid(ParsedTime(str, i))

\* The operator std::string.
TextOf(t) == <<t.hour \div 10, t.hour % 10, Colon, t.min \div 10, t.min % 10>>

-----------------------------------------------------------------------------
SetHour == \E h \in 0 .. 23 : time' = [time EXCEPT !.hour = h]
SetMinute == \E m \in 0 .. 59 : time' = [time EXCEPT !.min = m]
Add == \E m \in Additions : TimeValid(time) /\ AddFits(time, m) /\ time' = Added(time, m)
ResetTime == time' = UnsetTime
AssignText(str) == \E i \in 1 .. Len(str) : TextOfTime(str, i) /\ time' = ParsedTime(str, i)

TimeNext == SetHour \/ SetMinute \/ Add \/ ResetTime
TimeSpec == TimeInit /\ [][TimeNext]_time

-----------------------------------------------------------------------------
\* Hours and minutes are in their ranges, or unset.
TimeTypeOK == time \in [hour : 0 .. 23 \cup {255}, min : 0 .. 59 \cup {255}]

\* += ends within the day or is refused, and - takes back what it added.
AdditionsAddUp == TimeValid(time) => \A m \in Additions :
    /\ AddFits(time, m) <=> MinuteOf(time) + m < 24 * 60
    /\ AddFits(time, m) => TimeValid(Added(time, m)) /\ Difference(Added(time, m), time) = m

\* The comparisons order the times of the day.
TimesInOrder == TimeValid(time) => \A h \in 0 .. 23, m \in {0, 1, 30, 59} :
    LET other == [hour |-> h, min |-> m]
    IN  /\ TimeLess(time, other) <=> Difference(time, other) < 0
        /\ TimeLessEq(time, other) <=> Difference(time, other) <= 0
        /\ TimeEq(time, other) <=> Difference(time, other) = 0
        /\ TimeGreaterEq(time, other) <=> Difference(time, other) >= 0
        /\ TimeGreater(time, other) <=> Difference(time, other) > 0

\* The text of a time is read back as that time.
TimeReadsBack == TimeValid(time) =>
    TextOfTime(TextOf(time), 3) /\ ParsedTime(TextOf(time), 3) = time
=============================================================================

---------------------------- MODULE ValuesProofs ----------------------------
(***************************************************************************)
(* Theorems of Values: the times, dates, names, environments, maps and     *)
(* choices of the library keep what is said of them for all numbers,       *)
(* texts, files and threads, and not only for those of the run.            *)
(***************************************************************************)
EXTENDS Values, SequenceTheorems, FiniteSetTheorems, WellFoundedInduction, TLAPS

-----------------------------------------------------------------------------
\* A set of natural numbers has a least one.
LEMMA LeastNumber ==
    ASSUME NEW T \in SUBSET Nat, T # {}
    PROVE  \E n \in T : \A m \in T : n <= m
<1> DEFINE R == OpToRel(<, Nat)
<1>1. IsWellFoundedOn(R, Nat)
  BY NatLessThanWellFounded
<1>2. \A x, y \in Nat : x < y => <<x, y>> \in R
  BY DEF OpToRel
<1> HIDE DEF R
<1>3. PICK n \in T : \A m \in T : ~(<<m, n>> \in R)
  BY <1>1, WFMin
<1>4. ASSUME NEW m \in T PROVE n <= m
  <2>1. m \in Nat /\ n \in Nat
    OBVIOUS
  <2>2. ~(m < n)
    BY <1>2, <1>3, <2>1
  <2> QED
    BY <2>1, <2>2
<1> QED
  BY <1>4

\* A set with 0 in which each number is followed by the next one has them all.
LEMMA Induction ==
    ASSUME NEW T, 0 \in T, \A n \in Nat : n \in T => n + 1 \in T
    PROVE  Nat \subseteq T
<1> DEFINE Missing == Nat \ T
<1>1. CASE Missing # {}
  <2>1. PICK n \in Missing : \A m \in Missing : n <= m
    BY <1>1, LeastNumber
  <2>2. n # 0 /\ n - 1 \in Nat /\ n - 1 \notin Missing
    BY <2>1
  <2> QED
    BY <2>2
<1> QED
  BY <1>1

-----------------------------------------------------------------------------
\* Times of the day.
DayTimes == [hour : 0 .. 23, min : 0 .. 59]

\* Division with a remainder, for minutes.
LEMMA DivideByHour ==
    ASSUME NEW n \in Nat
    PROVE  n = 60 * (n \div 60) + (n % 60) /\ n % 60 \in 0 .. 59 /\ n \div 60 \in Nat
  OBVIOUS

\* The fields of a time.
LEMMA TimeFields ==
    ASSUME NEW t \in DayTimes
    PROVE  t.hour \in 0 .. 23 /\ t.min \in 0 .. 59
  BY DEF DayTimes

\* A sum within the day is a time of the day, and += accepts no other.
LEMMA SumOfMinutes ==
    ASSUME NEW t \in DayTimes, NEW m \in Nat
    PROVE  /\ AddFits(t, m) <=> MinuteOf(t) + m < 24 * 60
           /\ AddFits(t, m) => Added(t, m) \in DayTimes /\ Difference(Added(t, m), t) = m
<1> DEFINE n == MinuteOf(t) + m
           h == n \div 60
           r == n % 60
<1>1. n \in Nat /\ MinuteOf(t) \in Nat
  <2>1. MinuteOf(t) = t.hour * 60 + t.min
    BY DEF MinuteOf
  <2>2. t.hour \in 0 .. 23 /\ t.min \in 0 .. 59
    BY TimeFields
  <2> HIDE DEF n, h, r
  <2>3. MinuteOf(t) \in Nat
    BY <2>1, <2>2
  <2> QED  BY <2>3 DEF n
<1>2. n = 60 * h + r /\ r \in 0 .. 59 /\ h \in Nat
  BY <1>1, DivideByHour
<1>3. AddFits(t, m) <=> h <= 23
  BY DEF AddFits
<1>4. Added(t, m) = [hour |-> h, min |-> r]
  BY DEF Added
<1>5. MinuteOf(Added(t, m)) = h * 60 + r
  BY <1>4 DEF MinuteOf
<1>6. Difference(Added(t, m), t) = (h * 60 + r) - MinuteOf(t)
  <2>1. Difference(Added(t, m), t) = MinuteOf(Added(t, m)) - MinuteOf(t)
    BY DEF Difference
  <2> QED  BY <1>5, <2>1
<1>7. n = MinuteOf(t) + m
  OBVIOUS
<1> HIDE DEF n, h, r
<1>8. h <= 23 <=> n < 24 * 60
  BY <1>1, <1>2
<1>9. ASSUME h <= 23 PROVE Added(t, m) \in DayTimes
  <2>1. h \in 0 .. 23
    BY <1>2, <1>9
  <2> QED  BY <1>2, <1>4, <2>1 DEF DayTimes
<1>10. (h * 60 + r) - MinuteOf(t) = m
  BY <1>1, <1>2, <1>7
<1> QED  BY <1>3, <1>6, <1>7, <1>8, <1>9, <1>10

\* The comparisons are those of the minutes of the day.
LEMMA OrderOfMinutes ==
    ASSUME NEW s \in DayTimes, NEW t \in DayTimes
    PROVE  /\ TimeLess(s, t) <=> Difference(s, t) < 0
           /\ TimeLessEq(s, t) <=> Difference(s, t) <= 0
           /\ TimeEq(s, t) <=> Difference(s, t) = 0
           /\ TimeGreaterEq(s, t) <=> Difference(s, t) >= 0
           /\ TimeGreater(s, t) <=> Difference(s, t) > 0
<1> DEFINE a == s.hour
           b == s.min
           c == t.hour
           d == t.min
<1>1. a \in 0 .. 23 /\ b \in 0 .. 59 /\ c \in 0 .. 23 /\ d \in 0 .. 59
  BY TimeFields
<1>2. Difference(s, t) = (a * 60 + b) - (c * 60 + d)
  BY DEF Difference, MinuteOf
<1>3. /\ TimeLess(s, t) <=> (a < c \/ (a = c /\ b < d))
      /\ TimeLessEq(s, t) <=> (a < c \/ (a = c /\ b <= d))
      /\ TimeEq(s, t) <=> (a = c /\ b = d)
      /\ TimeGreaterEq(s, t) <=> (a > c \/ (a = c /\ b >= d))
      /\ TimeGreater(s, t) <=> (a > c \/ (a = c /\ b > d))
  BY DEF TimeLess, TimeLessEq, TimeEq, TimeGreaterEq, TimeGreater
<1> HIDE DEF a, b, c, d
<1>4. CASE a < c
  BY <1>1, <1>2, <1>3, <1>4
<1>5. CASE a = c
  BY <1>1, <1>2, <1>3, <1>5
<1>6. CASE a > c
  BY <1>1, <1>2, <1>3, <1>6
<1> QED  BY <1>1, <1>4, <1>5, <1>6

\* A valid time is a time of the day.
LEMMA ValidIsTime == TimeTypeOK /\ TimeValid(time) => time \in DayTimes
  BY DEF TimeTypeOK, TimeValid, DayTimes

-----------------------------------------------------------------------------
\* What is typed is a sequence of characters; they are numbers.
Characters15 == 0 .. 14
TypedOK == typed \in Seq(Characters15)

\* The fields of a time that is assigned from a text.
LEMMA ParsedIsTime ==
    ASSUME NEW str, NEW i, TextOfTime(str, i)
    PROVE  ParsedTime(str, i) \in DayTimes
<1> DEFINE a == SubSeq(str, 1, i - 1)
           b == SubSeq(str, i + 1, Len(str))
<1>1. Digits(a, 2) /\ Digits(b, 5) /\ TimeValid(ParsedTime(str, i))
  BY DEF TextOfTime
<1>2. ParsedTime(str, i) = [hour |-> Number(a), min |-> Number(b)]
  BY DEF ParsedTime
<1> HIDE DEF a, b
<1>3. ASSUME NEW s, NEW top, Digits(s, top) PROVE Number(s) \in Nat
  <2>1. Len(s) \in {1, 2} /\ \A j \in 1 .. Len(s) : s[j] \in 0 .. 9
    BY <1>3 DEF Digits, Digit
  <2>2. s[1] \in 0 .. 9 /\ (Len(s) # 1 => s[2] \in 0 .. 9)
    BY <2>1
  <2> QED
    BY <2>2 DEF Number
<1>4. Number(a) \in Nat /\ Number(b) \in Nat
  BY <1>1, <1>3
<1>5. Number(a) <= 23 /\ Number(b) <= 59
  BY <1>1, <1>2 DEF TimeValid
<1> QED
  BY <1>2, <1>4, <1>5 DEF DayTimes

\* Only the operations of a time change it.
LEMMA StepsOfTime ==
    ASSUME [Next]_vars
    PROVE  \/ SetHour \/ SetMinute \/ Add \/ ResetTime
           \/ AssignText(typed)
           \/ UNCHANGED time
  BY DEF Next, UseDates, UseConversions, UseNames, UseEnvironment, UseEnumeration, UseChecks, UseTable, UsePipeline,
         DateNext, TimeNext, TypeTime, AssignTyped, vars, dates

\* Times are of the day or unset, however they are set, added to and read.
LEMMA TimesStay == Spec => []TimeTypeOK
<1>1. Init => TimeTypeOK
  BY DEF Init, TimeInit, UnsetTime, TimeTypeOK
<1>2. TimeTypeOK /\ [Next]_vars => TimeTypeOK'
  <2> SUFFICES ASSUME TimeTypeOK, [Next]_vars PROVE TimeTypeOK'
    OBVIOUS
  <2>1. CASE SetHour \/ SetMinute \/ ResetTime
    BY <2>1 DEF SetHour, SetMinute, ResetTime, UnsetTime, TimeTypeOK
  <2>2. CASE Add
    <3>1. PICK m \in Additions : TimeValid(time) /\ AddFits(time, m) /\ time' = Added(time, m)
      BY <2>2 DEF Add
    <3>2. time' \in DayTimes
      BY <3>1, ValidIsTime, SumOfMinutes, AdditionsAssumption
    <3> QED
      BY <3>2 DEF DayTimes, TimeTypeOK
  <2>3. CASE AssignText(typed)
    <3>1. PICK i \in 1 .. Len(typed) : TextOfTime(typed, i) /\ time' = ParsedTime(typed, i)
      BY <2>3 DEF AssignText
    <3>2. time' \in DayTimes
      BY <3>1, ParsedIsTime
    <3> QED
      BY <3>2 DEF DayTimes, TimeTypeOK
  <2>4. CASE UNCHANGED time
    BY <2>4 DEF TimeTypeOK
  <2> QED
    BY <2>1, <2>2, <2>3, <2>4, StepsOfTime
<1> QED
  BY <1>1, <1>2, PTL DEF Spec

\* Sums of times are those of minutes of the day.
LEMMA SumsAddUp == TimeTypeOK => AdditionsAddUp
  BY ValidIsTime, SumOfMinutes, AdditionsAssumption DEF AdditionsAddUp, DayTimes, TimeValid

\* The comparisons order the times of the day.
LEMMA TimesAreOrdered == TimeTypeOK => TimesInOrder
<1> SUFFICES ASSUME TimeTypeOK, TimeValid(time), NEW h \in 0 .. 23, NEW m \in {0, 1, 30, 59}
             PROVE  LET other == [hour |-> h, min |-> m]
                    IN  /\ TimeLess(time, other) <=> Difference(time, other) < 0
                        /\ TimeLessEq(time, other) <=> Difference(time, other) <= 0
                        /\ TimeEq(time, other) <=> Difference(time, other) = 0
                        /\ TimeGreaterEq(time, other) <=> Difference(time, other) >= 0
                        /\ TimeGreater(time, other) <=> Difference(time, other) > 0
  BY DEF TimesInOrder
<1>1. [hour |-> h, min |-> m] \in DayTimes /\ time \in DayTimes
  BY ValidIsTime DEF DayTimes
<1> QED
  BY <1>1, OrderOfMinutes

\* Two digits are those of a number.
LEMMA TwoDigits ==
    ASSUME NEW n \in 0 .. 99
    PROVE  n \div 10 \in 0 .. 9 /\ n % 10 \in 0 .. 9 /\ 10 * (n \div 10) + (n % 10) = n
  OBVIOUS

\* The parts of a text before and behind its third character.
LEMMA HalvesOfFive ==
    ASSUME NEW a \in Characters15, NEW b \in Characters15, NEW c \in Characters15,
           NEW d \in Characters15, NEW e \in Characters15
    PROVE  LET five == <<a, b, c, d, e>>
           IN  /\ Len(five) = 5 /\ five[3] = c
               /\ Len(SubSeq(five, 1, 2)) = 2 /\ SubSeq(five, 1, 2)[1] = a /\ SubSeq(five, 1, 2)[2] = b
               /\ Len(SubSeq(five, 4, 5)) = 2 /\ SubSeq(five, 4, 5)[1] = d /\ SubSeq(five, 4, 5)[2] = e
<1> DEFINE five == <<a, b, c, d, e>>
<1>1. /\ Len(five) = 5 /\ \A i \in 1 .. 5 : five[i] \in Characters15
      /\ five[1] = a /\ five[2] = b /\ five[3] = c /\ five[4] = d /\ five[5] = e
  OBVIOUS
<1> HIDE DEF five
<1>2. /\ Len(SubSeq(five, 1, 2)) = 2
      /\ \A i \in 1 .. 2 : SubSeq(five, 1, 2)[i] = five[1 + i - 1]
  <2>1. \A i \in 1 .. 2 : five[i] \in Characters15
    BY <1>1
  <2> QED
    BY <2>1, SubSeqProperties
<1>3. /\ Len(SubSeq(five, 4, 5)) = 2
      /\ \A i \in 1 .. 2 : SubSeq(five, 4, 5)[i] = five[4 + i - 1]
  <2>1. \A i \in 4 .. 5 : five[i] \in Characters15
    BY <1>1
  <2> QED
    BY <2>1, SubSeqProperties
<1> QED
  BY <1>1, <1>2, <1>3 DEF five

\* The text of a time is read back as that time.
LEMMA TimesReadBack == TimeTypeOK => TimeReadsBack
<1> SUFFICES ASSUME TimeTypeOK, TimeValid(time)
             PROVE  TextOfTime(TextOf(time), 3) /\ ParsedTime(TextOf(time), 3) = time
  BY DEF TimeReadsBack
<1> DEFINE h == time.hour
           m == time.min
           text5 == TextOf(time)
           a == SubSeq(text5, 1, 2)
           b == SubSeq(text5, 4, 5)
<1>1. h \in 0 .. 23 /\ m \in 0 .. 59 /\ time = [hour |-> h, min |-> m]
  BY DEF TimeTypeOK, TimeValid
<1>2. text5 = <<h \div 10, h % 10, Colon, m \div 10, m % 10>>
  BY DEF TextOf
<1> HIDE DEF h, m, text5
<1>3. /\ h \div 10 \in 0 .. 2 /\ h % 10 \in 0 .. 9 /\ 10 * (h \div 10) + (h % 10) = h
      /\ m \div 10 \in 0 .. 5 /\ m % 10 \in 0 .. 9 /\ 10 * (m \div 10) + (m % 10) = m
  BY <1>1
<1>4. /\ Len(text5) = 5 /\ text5[3] = Colon
      /\ Len(a) = 2 /\ a[1] = h \div 10 /\ a[2] = h % 10
      /\ Len(b) = 2 /\ b[1] = m \div 10 /\ b[2] = m % 10
  <2> DEFINE h1 == h \div 10
             h2 == h % 10
             m1 == m \div 10
             m2 == m % 10
  <2>1. h1 \in 0 .. 2 /\ h2 \in 0 .. 9 /\ m1 \in 0 .. 5 /\ m2 \in 0 .. 9
    BY <1>3
  <2>2. text5 = <<h1, h2, Colon, m1, m2>>
    BY <1>2
  <2> HIDE DEF h1, h2, m1, m2
  <2>3. /\ h1 \in Characters15 /\ h2 \in Characters15 /\ Colon \in Characters15
        /\ m1 \in Characters15 /\ m2 \in Characters15
    BY <2>1 DEF Characters15, Colon
  <2>4. /\ Len(text5) = 5 /\ text5[3] = Colon
        /\ Len(a) = 2 /\ a[1] = h1 /\ a[2] = h2
        /\ Len(b) = 2 /\ b[1] = m1 /\ b[2] = m2
    BY <2>2, <2>3, HalvesOfFive
  <2> QED
    BY <2>4 DEF h1, h2, m1, m2
<1> HIDE DEF a, b
<1>5. Number(a) = h /\ Number(b) = m
  BY <1>3, <1>4 DEF Number
<1>6. Digits(a, 2) /\ Digits(b, 5)
  BY <1>3, <1>4 DEF Digits, Digit
<1>7. ParsedTime(text5, 3) = time
  <2>1. ParsedTime(text5, 3) = [hour |-> Number(SubSeq(text5, 1, 2)), min |-> Number(SubSeq(text5, 4, 5))]
    BY <1>4 DEF ParsedTime
  <2> QED
    BY <1>1, <1>5, <2>1 DEF a, b
<1>8. TextOfTime(text5, 3)
  <2>1. SubSeq(text5, 1, 3 - 1) = a /\ SubSeq(text5, 3 + 1, Len(text5)) = b
    BY <1>4 DEF a, b
  <2>2. TimeValid(ParsedTime(text5, 3))
    BY <1>7
  <2>3. Digits(SubSeq(text5, 1, 3 - 1), 2) /\ Digits(SubSeq(text5, 3 + 1, Len(text5)), 5)
    BY <1>6, <2>1
  <2>4. Len(text5) \in 3 .. 5 /\ text5[3] = Colon
    BY <1>4
  <2> QED
    BY <2>2, <2>3, <2>4 DEF TextOfTime
<1> QED
  BY <1>7, <1>8 DEF text5

-----------------------------------------------------------------------------
\* The documented forms of an hour or a minute are what the regular expression
\* and the limit accept.
LEMMA FormsAreAccepted ==
    ASSUME NEW s \in Seq(Characters15), NEW top \in {23, 59}
    PROVE  s \in Forms(top) <=> Digits(s, top \div 10) /\ Number(s) <= top
<1>1. ASSUME NEW n \in 0 .. top, s = <<n \div 10, n % 10>>
      PROVE  Digits(s, top \div 10) /\ Number(s) <= top
  <2> DEFINE a == n \div 10
             b == n % 10
  <2>1. a \in 0 .. 9 /\ b \in 0 .. 9 /\ a <= top \div 10 /\ 10 * a + b = n /\ n <= top
    OBVIOUS
  <2>2. s = <<a, b>>
    BY <1>1
  <2> HIDE DEF a, b
  <2>3. Len(s) = 2 /\ s[1] = a /\ s[2] = b
    BY <2>2
  <2> QED
    BY <2>1, <2>3 DEF Digits, Digit, Number
<1>2. ASSUME NEW n \in 0 .. 9, s = <<n>> PROVE Digits(s, top \div 10) /\ Number(s) <= top
  BY <1>2 DEF Digits, Digit, Number
<1>3. ASSUME Digits(s, top \div 10), Number(s) <= top PROVE s \in Forms(top)
  <2>1. CASE Len(s) = 1
    <3>1. s[1] \in 0 .. 9
      BY <1>3, <2>1 DEF Digits, Digit
    <3>2. s = <<s[1]>>
      BY <2>1, <3>1
    <3> QED
      BY <3>1, <3>2 DEF Forms
  <2>2. CASE Len(s) = 2
    <3> DEFINE a == s[1]
               b == s[2]
               n == 10 * a + b
    <3>1. a \in 0 .. 9 /\ b \in 0 .. 9 /\ Number(s) = n
      BY <1>3, <2>2 DEF Digits, Digit, Number
    <3>2. s = <<a, b>>
      BY <2>2, <3>1
    <3> HIDE DEF a, b
    <3>3. n \in 0 .. top /\ n \div 10 = a /\ n % 10 = b
      BY <1>3, <3>1
    <3> HIDE DEF n
    <3>4. s = <<n \div 10, n % 10>>
      BY <3>2, <3>3
    <3> QED
      BY <3>3, <3>4 DEF Forms
  <2> QED
    BY <1>3, <2>1, <2>2 DEF Digits
<1> QED
  BY <1>1, <1>2, <1>3 DEF Forms

\* A text is what is before a character, the character, and what is behind it.
LEMMA TakenApart ==
    ASSUME NEW S, NEW str \in Seq(S), NEW i \in 1 .. Len(str)
    PROVE  /\ SubSeq(str, 1, i - 1) \in Seq(S) /\ SubSeq(str, i + 1, Len(str)) \in Seq(S)
           /\ str = (SubSeq(str, 1, i - 1) \o <<str[i]>>) \o SubSeq(str, i + 1, Len(str))
<1>1. Len(str) \in Nat /\ \A j \in 1 .. Len(str) : str[j] \in S
  BY LenProperties, ElementOfSeq
<1>2. SubSeq(str, 1, i - 1) \in Seq(S)
  <2>1. 1 \in Int /\ i - 1 \in Int /\ \A j \in 1 .. i - 1 : str[j] \in S
    BY <1>1
  <2> QED
    BY <2>1, SubSeqProperties
<1>3. SubSeq(str, i + 1, Len(str)) \in Seq(S)
  <2>1. i + 1 \in Int /\ Len(str) \in Int /\ \A j \in i + 1 .. Len(str) : str[j] \in S
    BY <1>1
  <2> QED
    BY <2>1, SubSeqProperties
<1>4. SubSeq(str, 1, i) = SubSeq(str, 1, i - 1) \o <<str[i]>>
  <2>1. 1 \in 1 .. Len(str) /\ i \in 1 .. Len(str)
    BY <1>1
  <2> QED
    BY <2>1, SubSeqRecursiveSecond
<1>5. SubSeq(str, 1, i) \o SubSeq(str, i + 1, Len(str)) = str
  <2>1. 1 \in 1 .. Len(str) + 1 /\ i \in 1 - 1 .. Len(str) /\ Len(str) \in i .. Len(str)
    BY <1>1
  <2>2. SubSeq(str, 1, i) \o SubSeq(str, i + 1, Len(str)) = SubSeq(str, 1, Len(str))
    BY <2>1, ConcatAdjacentSubSeq
  <2> QED
    BY <2>2, SubSeqFull
<1> QED
  BY <1>2, <1>3, <1>4, <1>5, Zenon

\* What two texts and a character between them are taken apart into.
LEMMA PutTogether ==
    ASSUME NEW S, NEW s \in Seq(S), NEW c \in S, NEW u \in Seq(S)
    PROVE  LET str == (s \o <<c>>) \o u
           IN  /\ str \in Seq(S) /\ Len(str) = Len(s) + 1 + Len(u) /\ str[Len(s) + 1] = c
               /\ SubSeq(str, 1, Len(s)) = s
               /\ SubSeq(str, Len(s) + 2, Len(str)) = u
<1> DEFINE front == s \o <<c>>
           str == front \o u
<1>1. Len(s) \in Nat /\ Len(u) \in Nat /\ <<c>> \in Seq(S) /\ Len(<<c>>) = 1 /\ <<c>>[1] = c
  BY LenProperties
<1>2. /\ front \in Seq(S) /\ Len(front) = Len(s) + 1
      /\ \A i \in 1 .. Len(s) + 1 : front[i] = IF i <= Len(s) THEN s[i] ELSE <<c>>[i - Len(s)]
  BY <1>1, ConcatProperties
<1> HIDE DEF front
<1>3. /\ str \in Seq(S) /\ Len(str) = Len(s) + 1 + Len(u)
      /\ \A i \in 1 .. Len(front) + Len(u) : str[i] = IF i <= Len(front) THEN front[i] ELSE u[i - Len(front)]
  <2>1. /\ str \in Seq(S) /\ Len(str) = Len(front) + Len(u)
        /\ \A i \in 1 .. Len(front) + Len(u) :
               str[i] = IF i <= Len(front) THEN front[i] ELSE u[i - Len(front)]
    BY <1>2, ConcatProperties
  <2> QED
    BY <1>2, <2>1
<1> HIDE DEF str
<1>4. /\ \A i \in 1 .. Len(s) : str[i] = s[i]
      /\ str[Len(s) + 1] = c
      /\ \A i \in 1 .. Len(u) : str[Len(s) + 1 + i] = u[i]
  <2>1. \A i \in 1 .. Len(s) : str[i] = s[i]
    BY <1>1, <1>2, <1>3
  <2>2. str[Len(s) + 1] = c
    <3>1. Len(s) + 1 \in 1 .. Len(s) + 1 /\ Len(s) + 1 \in 1 .. Len(front) + Len(u) /\ (Len(s) + 1) - Len(s) = 1
      BY <1>1, <1>2
    <3>2. front[Len(s) + 1] = <<c>>[1]
      BY <1>1, <1>2, <3>1
    <3> QED
      BY <1>1, <1>2, <1>3, <3>1, <3>2
  <2>3. ASSUME NEW i \in 1 .. Len(u) PROVE str[Len(s) + 1 + i] = u[i]
    <3>1. /\ Len(s) + 1 + i \in 1 .. Len(front) + Len(u) /\ ~(Len(s) + 1 + i <= Len(front))
          /\ (Len(s) + 1 + i) - Len(front) = i
      BY <1>1, <1>2
    <3> QED
      BY <1>3, <3>1
  <2> QED
    BY <2>1, <2>2, <2>3
<1>5. \A i \in 1 .. Len(str) : str[i] \in S
  BY <1>3, ElementOfSeq
<1>6. SubSeq(str, 1, Len(s)) = s
  <2>1. \A i \in 1 .. Len(s) : str[i] \in S
    BY <1>1, <1>3, <1>5
  <2>2. /\ SubSeq(str, 1, Len(s)) \in Seq(S)
        /\ Len(SubSeq(str, 1, Len(s))) = IF 1 <= Len(s) THEN Len(s) - 1 + 1 ELSE 0
        /\ \A i \in 1 .. Len(s) - 1 + 1 : SubSeq(str, 1, Len(s))[i] = str[1 + i - 1]
    BY <1>1, <2>1, SubSeqProperties
  <2>3. Len(SubSeq(str, 1, Len(s))) = Len(s) /\ \A i \in 1 .. Len(s) : SubSeq(str, 1, Len(s))[i] = s[i]
    BY <1>1, <1>4, <2>2
  <2> QED
    BY <2>2, <2>3, SeqEqual
<1>7. SubSeq(str, Len(s) + 2, Len(str)) = u
  <2> DEFINE m == Len(s) + 2
             n == Len(str)
             tail == SubSeq(str, m, n)
  <2>1. \A i \in m .. n : str[i] \in S
    BY <1>1, <1>5
  <2>2. m \in Int /\ n \in Int
    BY <1>1, <1>3
  <2>3. /\ tail \in Seq(S) /\ Len(tail) = (IF m <= n THEN n - m + 1 ELSE 0)
        /\ \A i \in 1 .. n - m + 1 : tail[i] = str[m + i - 1]
    BY <2>1, <2>2, SubSeqProperties
  <2>4. Len(tail) = Len(u)
    BY <1>1, <1>3, <2>3
  <2>5. ASSUME NEW i \in 1 .. Len(u) PROVE tail[i] = u[i]
    <3>1. i \in 1 .. n - m + 1 /\ m + i - 1 = Len(s) + 1 + i
      BY <1>1, <1>3
    <3> HIDE DEF tail
    <3> QED
      BY <1>4, <2>3, <3>1
  <2> QED
    BY <2>3, <2>4, <2>5, SeqEqual
<1> QED
  BY <1>3, <1>4, <1>6, <1>7 DEF str, front

\* Exactly the documented texts are times.
LEMMA TypedTimes ==
    ASSUME NEW str \in Seq(Characters15)
    PROVE  (\E i \in 1 .. Len(str) : TextOfTime(str, i)) <=> str \in DocumentedTimes
<1>0. \A x : x \in DocumentedTimes <=> \E s \in Forms(23), u \in Forms(59) : x = s \o <<Colon>> \o u
  <2> DEFINE WithHour(s) == {s \o <<Colon>> \o u : u \in Forms(59)}
  <2>1. DocumentedTimes = UNION {WithHour(s) : s \in Forms(23)}
    BY DEF DocumentedTimes
  <2>2. ASSUME NEW s, NEW x PROVE x \in WithHour(s) <=> \E u \in Forms(59) : x = s \o <<Colon>> \o u
    OBVIOUS
  <2> HIDE DEF WithHour
  <2>3. \A x : x \in DocumentedTimes <=> \E s \in Forms(23) : x \in WithHour(s)
    BY <2>1
  <2>4. ASSUME NEW x, x \in DocumentedTimes
        PROVE  \E s \in Forms(23), u \in Forms(59) : x = s \o <<Colon>> \o u
    <3>1. PICK s \in Forms(23) : x \in WithHour(s)
      BY <2>3, <2>4
    <3>2. PICK u \in Forms(59) : x = s \o <<Colon>> \o u
      BY <2>2, <3>1
    <3> QED
      BY <3>2
  <2>5. ASSUME NEW x, NEW s \in Forms(23), NEW u \in Forms(59), x = s \o <<Colon>> \o u
        PROVE  x \in DocumentedTimes
    <3>1. x \in WithHour(s)
      BY <2>2, <2>5
    <3> QED
      BY <2>3, <3>1
  <2> QED
    BY <2>4, <2>5
<1>1. ASSUME NEW i \in 1 .. Len(str), TextOfTime(str, i) PROVE str \in DocumentedTimes
  <2> DEFINE a == SubSeq(str, 1, i - 1)
             b == SubSeq(str, i + 1, Len(str))
  <2>1. /\ a \in Seq(Characters15) /\ b \in Seq(Characters15)
        /\ str = (a \o <<str[i]>>) \o b
    BY TakenApart
  <2>2. str[i] = Colon /\ Digits(a, 2) /\ Digits(b, 5) /\ TimeValid(ParsedTime(str, i))
    BY <1>1 DEF TextOfTime
  <2>3. ParsedTime(str, i).hour = Number(a) /\ ParsedTime(str, i).min = Number(b)
    BY DEF ParsedTime
  <2> HIDE DEF a, b
  <2>4. Number(a) <= 23 /\ Number(b) <= 59
    BY <2>2, <2>3 DEF TimeValid
  <2>5. a \in Forms(23)
    <3>1. 23 \div 10 = 2 /\ 23 \in {23, 59}
      OBVIOUS
    <3> QED
      BY <2>1, <2>2, <2>4, <3>1, FormsAreAccepted
  <2>6. b \in Forms(59)
    <3>1. 59 \div 10 = 5 /\ 59 \in {23, 59}
      OBVIOUS
    <3> QED
      BY <2>1, <2>2, <2>4, <3>1, FormsAreAccepted
  <2>7. str = a \o <<Colon>> \o b
    BY <2>1, <2>2
  <2> QED
    BY <1>0, <2>5, <2>6, <2>7
<1>2. ASSUME str \in DocumentedTimes PROVE \E i \in 1 .. Len(str) : TextOfTime(str, i)
  <2>1. PICK s \in Forms(23) : \E u \in Forms(59) : str = s \o <<Colon>> \o u
    BY <1>0, <1>2
  <2>2. PICK u \in Forms(59) : str = s \o <<Colon>> \o u
    BY <2>1
  <2>3. \A top \in {23, 59} : Forms(top) \subseteq Seq(Characters15)
    <3>1. ASSUME NEW top \in {23, 59}, NEW n \in 0 .. top PROVE <<n \div 10, n % 10>> \in Seq(Characters15)
      <4>1. n \div 10 \in Characters15 /\ n % 10 \in Characters15
        BY DEF Characters15
      <4> DEFINE a == n \div 10
                 b == n % 10
      <4> HIDE DEF a, b
      <4>2. a \in Characters15 /\ b \in Characters15
        BY <4>1 DEF a, b
      <4>3. <<a, b>> \in Seq(Characters15)
        BY <4>2
      <4> QED
        BY <4>3 DEF a, b
    <3>2. ASSUME NEW n \in 0 .. 9 PROVE <<n>> \in Seq(Characters15)
      BY DEF Characters15
    <3> QED
      BY <3>1, <3>2 DEF Forms
  <2>4. s \in Seq(Characters15) /\ u \in Seq(Characters15) /\ Colon \in Characters15
    BY <2>3 DEF Colon, Characters15
  <2>5. Digits(s, 2) /\ Number(s) <= 23
    <3>1. 23 \div 10 = 2 /\ 23 \in {23, 59}
      OBVIOUS
    <3> QED
      BY <2>4, <3>1, FormsAreAccepted
  <2>6. Digits(u, 5) /\ Number(u) <= 59
    <3>1. 59 \div 10 = 5 /\ 59 \in {23, 59}
      OBVIOUS
    <3> QED
      BY <2>4, <3>1, FormsAreAccepted
  <2>7. /\ Len(str) = Len(s) + 1 + Len(u) /\ str[Len(s) + 1] = Colon
        /\ SubSeq(str, 1, Len(s)) = s /\ SubSeq(str, Len(s) + 2, Len(str)) = u
    BY <2>2, <2>4, PutTogether
  <2> DEFINE i == Len(s) + 1
  <2>8. Len(s) \in {1, 2} /\ Len(u) \in {1, 2}
    BY <2>5, <2>6 DEF Digits
  <2>9. i \in 1 .. Len(str) /\ Len(str) \in 3 .. 5 /\ i - 1 = Len(s) /\ i + 1 = Len(s) + 2
    <3> HIDE DEF i
    <3>1. /\ Len(s) + 1 + Len(u) \in 3 .. 5
          /\ 1 <= Len(s) + 1 /\ Len(s) + 1 <= Len(s) + 1 + Len(u) /\ Len(s) + 1 \in Nat
      <4> DEFINE k == Len(s)
                 l == Len(u)
      <4>1. k \in {1, 2} /\ l \in {1, 2}
        BY <2>8
      <4> HIDE DEF k, l
      <4>2. k + 1 + l \in 3 .. 5 /\ 1 <= k + 1 /\ k + 1 <= k + 1 + l /\ k + 1 \in Nat
        BY <4>1
      <4> QED
        BY <4>2 DEF k, l
    <3>2. Len(s) + 1 - 1 = Len(s) /\ Len(s) + 1 + 1 = Len(s) + 2
      BY <2>8
    <3> QED
      BY <2>7, <3>1, <3>2 DEF i
  <2>10. SubSeq(str, 1, i - 1) = s /\ SubSeq(str, i + 1, Len(str)) = u
    BY <2>7, <2>9
  <2>11. TimeValid(ParsedTime(str, i))
    BY <2>5, <2>6, <2>10 DEF ParsedTime, TimeValid
  <2>12. TextOfTime(str, i)
    BY <2>5, <2>6, <2>7, <2>9, <2>10, <2>11 DEF TextOfTime
  <2> QED
    BY <2>9, <2>12
<1> QED
  BY <1>1, <1>2

\* What is typed are characters.
LEMMA TypedStays == Spec => []TypedOK
<1>1. Init => TypedOK
  BY EmptySeq DEF Init, TypedOK
<1>2. TypedOK /\ [Next]_vars => TypedOK'
  <2> SUFFICES ASSUME TypedOK, [Next]_vars PROVE TypedOK'
    OBVIOUS
  <2>1. CASE TypeTime
    <3>1. PICK c \in TimeCharacters : typed' = Append(typed, c)
      BY <2>1 DEF TypeTime
    <3>2. c \in Characters15
      BY CharactersAssumption DEF Characters15
    <3> QED
      BY <3>1, <3>2, AppendProperties DEF TypedOK
  <2>2. CASE AssignTyped
    BY <2>2, EmptySeq DEF AssignTyped, TypedOK
  <2>3. CASE UNCHANGED typed
    BY <2>3 DEF TypedOK
  <2> QED
    BY <2>1, <2>2, <2>3 DEF Next, UseDates, UseConversions, UseNames, UseEnvironment, UseEnumeration,
       UseChecks, UseTable, UsePipeline, vars, dates
<1> QED
  BY <1>1, <1>2, PTL DEF Spec

\* Times are those of a day: sums, order, and the texts that are one, for every
\* time, every sum and whatever is typed.
THEOREM TimesAlwaysAgree == Spec => []TimesAgree
<1>1. TimeTypeOK /\ TypedOK => TimesAgree
  <2>1. TypedOK => AssignsDocumented
    BY TypedTimes DEF TypedOK, AssignsDocumented
  <2> QED
    BY <2>1, SumsAddUp, TimesAreOrdered, TimesReadBack DEF TimesAgree
<1> QED
  BY <1>1, TimesStay, TypedStays, PTL
-----------------------------------------------------------------------------
\* A day more in a leap year.
LeapDay(y) == IF Leap(y) THEN 1 ELSE 0

\* Years follow each other after their number of days.
LEMMA NextYear ==
    ASSUME NEW y \in Nat \ {0}
    PROVE  YearsDays(y) \in Int /\ YearsDays(y + 1) = YearsDays(y) + 365 + LeapDay(y)
<1> DEFINE p == y - 1
<1>1. /\ y \div 4 = (p \div 4) + (IF y % 4 = 0 THEN 1 ELSE 0)
      /\ y \div 100 = (p \div 100) + (IF y % 100 = 0 THEN 1 ELSE 0)
      /\ y \div 400 = (p \div 400) + (IF y % 400 = 0 THEN 1 ELSE 0)
      /\ p \div 4 \in Int /\ p \div 100 \in Int /\ p \div 400 \in Int
  OBVIOUS
<1>2. (y % 400 = 0 => y % 100 = 0) /\ (y % 100 = 0 => y % 4 = 0)
  OBVIOUS
<1>3. LeapsBefore(y) = ((p \div 4) - (p \div 100)) + (p \div 400)
  BY DEF LeapsBefore
<1>4. LeapsBefore(y + 1) = ((y \div 4) - (y \div 100)) + (y \div 400)
  <2>1. (y + 1) - 1 = y
    OBVIOUS
  <2> QED
    BY <2>1 DEF LeapsBefore
<1>5. LeapsBefore(y) \in Int /\ LeapsBefore(y + 1) = LeapsBefore(y) + LeapDay(y)
  <2> DEFINE a == p \div 4
             b == p \div 100
             c == p \div 400
  <2>1. a \in Int /\ b \in Int /\ c \in Int
    BY <1>1
  <2>2. LeapDay(y) = IF y % 400 = 0 \/ (y % 100 # 0 /\ y % 4 = 0) THEN 1 ELSE 0
    BY DEF LeapDay, Leap
  <2> HIDE DEF p
  <2> QED
    BY <1>1, <1>2, <1>3, <1>4, <2>1, <2>2
<1>6. LeapsBefore(1900) \in Int
  BY DEF LeapsBefore
<1> HIDE DEF p
<1> QED
  BY <1>5, <1>6 DEF YearsDays, LeapDay

\* A later year begins after the days of an earlier one.
LEMMA LaterYear ==
    ASSUME NEW x \in Nat \ {0}, NEW y \in Nat, x < y
    PROVE  YearsDays(x) + 365 + LeapDay(x) <= YearsDays(y)
<1> DEFINE T == {n \in Nat : YearsDays(x + 1) <= YearsDays(x + 1 + n)}
<1>1. \A z \in Nat \ {0} : YearsDays(z) \in Int /\ YearsDays(z) <= YearsDays(z + 1)
  BY NextYear DEF LeapDay
<1>2. 0 \in T
  <2>1. x + 1 + 0 = x + 1 /\ YearsDays(x + 1) \in Int
    BY <1>1
  <2> QED
    BY <2>1
<1>3. ASSUME NEW n \in Nat, n \in T PROVE n + 1 \in T
  <2>1. x + 1 + n \in Nat \ {0} /\ (x + 1 + n) + 1 = x + 1 + (n + 1)
        /\ YearsDays(x + 1) \in Int /\ n + 1 \in Nat /\ x + 1 + (n + 1) \in Nat \ {0}
    BY <1>1
  <2>2. YearsDays(x + 1 + n) <= YearsDays(x + 1 + (n + 1))
    BY <1>1, <2>1
  <2>3. YearsDays(x + 1) <= YearsDays(x + 1 + n)
    BY <1>3
  <2>4. YearsDays(x + 1 + n) \in Int /\ YearsDays(x + 1 + (n + 1)) \in Int
    BY <1>1, <2>1
  <2>5. YearsDays(x + 1) <= YearsDays(x + 1 + (n + 1))
    BY <2>1, <2>2, <2>3, <2>4
  <2> QED
    BY <2>1, <2>5
<1>4. y - x - 1 \in T
  <2>1. y - x - 1 \in Nat
    OBVIOUS
  <2> HIDE DEF T
  <2> QED
    BY <1>2, <1>3, <2>1, Induction
<1>5. x + 1 + (y - x - 1) = y
  OBVIOUS
<1>6. YearsDays(x + 1) <= YearsDays(y)
  BY <1>4, <1>5
<1> QED
  BY <1>6, NextYear

\* The days of a month come before the next month, and all of them in the year.
LEMMA MonthsFollow ==
    ASSUME NEW y, NEW m \in 1 .. 12
    PROVE  /\ MonthsDays(y, m) \in Nat /\ CalendarDays(y, m) \in 28 .. 31
           /\ MonthsDays(y, m) + CalendarDays(y, m) <= 365 + LeapDay(y)
           /\ \A n \in 1 .. 12 : m < n => MonthsDays(y, m) + CalendarDays(y, m) <= MonthsDays(y, n)
<1> USE DEF MonthsDays, CalendarDays, LeapDay
<1>1. CASE m = 1  BY <1>1
<1>2. CASE m = 2  BY <1>2
<1>3. CASE m = 3  BY <1>3
<1>4. CASE m = 4  BY <1>4
<1>5. CASE m = 5  BY <1>5
<1>6. CASE m = 6  BY <1>6
<1>7. CASE m = 7  BY <1>7
<1>8. CASE m = 8  BY <1>8
<1>9. CASE m = 9  BY <1>9
<1>10. CASE m = 10  BY <1>10
<1>11. CASE m = 11  BY <1>11
<1>12. CASE m = 12  BY <1>12
<1> QED
  BY <1>1, <1>2, <1>3, <1>4, <1>5, <1>6, <1>7, <1>8, <1>9, <1>10, <1>11, <1>12

\* valid() knows the calendar, except the last of May.
LEMMA DaysOfMonths ==
    ASSUME NEW y, NEW m \in 1 .. 12
    PROVE  Days(y, m) = IF m = 5 THEN 30 ELSE CalendarDays(y, m)
  BY DEF Days, CalendarDays

-----------------------------------------------------------------------------
\* A record of a date.
LEMMA DateRecord ==
    ASSUME NEW S, NEW T, NEW U, NEW d
    PROVE  d \in [year : S, month : T, day : U] <=>
               /\ d = [year |-> d.year, month |-> d.month, day |-> d.day]
               /\ d.year \in S /\ d.month \in T /\ d.day \in U
  OBVIOUS

\* A date of the calendar, as far as the fields go.
IsDate(d) ==
    /\ d.year \in 1900 .. MaxYear /\ d.month \in 1 .. 12
    /\ d.day \in 1 .. CalendarDays(d.year, d.month)

\* The fields of a date are numbers.
LEMMA DateFields ==
    ASSUME NEW d, IsDate(d)
    PROVE  /\ d.year \in Nat \ {0} /\ d.month \in 1 .. 12 /\ d.day \in 1 .. 31
           /\ InCalendar(d)
<1>1. CalendarDays(d.year, d.month) \in 28 .. 31
  BY MonthsFollow DEF IsDate
<1>2. d.year \in Nat \ {0} /\ d.year >= 1900 /\ d.month \in 1 .. 12
  BY DEF IsDate
<1> QED
  BY <1>1, <1>2 DEF IsDate, InCalendar

\* The number of a day is the one of its year, its month and itself.
LEMMA NumberOfDay ==
    ASSUME NEW d, IsDate(d)
    PROVE  /\ DayNumber(d) = YearsDays(d.year) + MonthsDays(d.year, d.month) + d.day - 1
           /\ DayNumber(d) \in Int /\ YearsDays(d.year) \in Int
           /\ YearsDays(d.year) <= DayNumber(d)
           /\ DayNumber(d) < YearsDays(d.year) + 365 + LeapDay(d.year)
<1> DEFINE y == d.year
           m == d.month
           n == d.day
           c == CalendarDays(y, m)
           p == MonthsDays(y, m)
           q == YearsDays(y)
           l == LeapDay(y)
<1>1. y \in Nat \ {0} /\ m \in 1 .. 12 /\ n \in 1 .. c
  BY DateFields DEF IsDate
<1>2. q \in Int /\ l \in {0, 1}
  BY <1>1, NextYear DEF LeapDay
<1>3. p \in Nat /\ c \in 28 .. 31 /\ p + c <= 365 + l
  BY <1>1, MonthsFollow
<1>4. DayNumber(d) = q + p + n - 1
  BY DEF DayNumber
<1> HIDE DEF y, m, n, c, p, q, l
<1>5. /\ DayNumber(d) \in Int /\ q <= DayNumber(d) /\ DayNumber(d) < q + 365 + l
  BY <1>1, <1>2, <1>3, <1>4
<1> QED
  BY <1>2, <1>4, <1>5 DEF y, m, n, c, p, q, l

\* An earlier date has a smaller number.
LEMMA EarlierDate ==
    ASSUME NEW a, IsDate(a), NEW b, IsDate(b), DateLess(a, b)
    PROVE  DayNumber(a) < DayNumber(b)
<1>1. CASE a.year < b.year
  <2> DEFINE x == a.year
             y == b.year
             l == LeapDay(x)
             u == YearsDays(x)
             v == YearsDays(y)
  <2>1. x \in Nat \ {0} /\ y \in Nat
    BY DateFields
  <2>2. u + 365 + l <= v
    BY <1>1, <2>1, LaterYear
  <2>3. /\ DayNumber(a) \in Int /\ DayNumber(a) < u + 365 + l /\ u \in Int
        /\ DayNumber(b) \in Int /\ v <= DayNumber(b) /\ v \in Int
    BY NumberOfDay
  <2>4. l \in {0, 1}
    BY DEF LeapDay
  <2> HIDE DEF l, u, v
  <2> QED
    BY <2>2, <2>3, <2>4
<1>2. CASE a.year = b.year
  <2> DEFINE y == a.year
             u == YearsDays(y)
             p == MonthsDays(y, a.month)
             q == MonthsDays(y, b.month)
             c == CalendarDays(y, a.month)
             i == a.day
             j == b.day
  <2>1. a.month \in 1 .. 12 /\ b.month \in 1 .. 12 /\ i \in 1 .. c
    BY DateFields DEF IsDate
  <2>2. p \in Nat /\ q \in Nat /\ c \in 28 .. 31
    BY <2>1, MonthsFollow
  <2>3. /\ DayNumber(a) = u + p + i - 1
        /\ DayNumber(b) = u + q + j - 1
        /\ u \in Int
    BY <1>2, NumberOfDay
  <2>4. j \in 1 .. 31
    BY DateFields
  <2>5. (a.month < b.month /\ p + c <= q) \/ (a.month = b.month /\ p = q /\ i < j)
    <3>1. a.year \in Int
      BY DateFields
    <3>2. a.month < b.month \/ (a.month = b.month /\ i < j)
      BY <1>2, <3>1 DEF DateLess
    <3>3. a.month < b.month => p + c <= q
      BY <2>1, MonthsFollow
    <3> QED
      BY <3>2, <3>3
  <2> HIDE DEF u, p, q, c, i, j
  <2> QED
    BY <2>1, <2>2, <2>3, <2>4, <2>5
<1>3. ~(a.year > b.year)
  BY DateFields DEF DateLess
<1> QED
  BY <1>1, <1>2, <1>3, DateFields

\* All comparisons are those of the numbers of days.
LEMMA OrderOfDates ==
    ASSUME NEW a, IsDate(a), NEW b, IsDate(b)
    PROVE  /\ DateLess(a, b) <=> DayNumber(a) < DayNumber(b)
           /\ DateLessEq(a, b) <=> DayNumber(a) <= DayNumber(b)
           /\ DateEq(a, b) <=> DayNumber(a) = DayNumber(b)
           /\ DateGreaterEq(a, b) <=> DayNumber(a) >= DayNumber(b)
           /\ DateGreater(a, b) <=> DayNumber(a) > DayNumber(b)
<1>1. /\ a.year \in Int /\ b.year \in Int /\ a.month \in Int /\ b.month \in Int
      /\ a.day \in Int /\ b.day \in Int
  BY DateFields
<1>2. /\ DateLess(a, b) \/ DateEq(a, b) \/ DateLess(b, a)
      /\ DateLess(a, b) => ~DateEq(a, b) /\ ~DateLess(b, a)
      /\ DateEq(a, b) => ~DateLess(b, a)
      /\ DateLessEq(a, b) <=> DateLess(a, b) \/ DateEq(a, b)
      /\ DateGreater(a, b) <=> DateLess(b, a)
      /\ DateGreaterEq(a, b) <=> DateLess(b, a) \/ DateEq(a, b)
  BY <1>1 DEF DateLess, DateEq, DateLessEq, DateGreater, DateGreaterEq
<1>3. DateEq(a, b) => DayNumber(a) = DayNumber(b)
  BY DEF DateEq, DayNumber
<1>4. DayNumber(a) \in Int /\ DayNumber(b) \in Int
  BY NumberOfDay
<1>5. (DateLess(a, b) => DayNumber(a) < DayNumber(b)) /\ (DateLess(b, a) => DayNumber(b) < DayNumber(a))
  BY EarlierDate
<1> QED
  BY <1>2, <1>3, <1>4, <1>5

\* A valid date is one of the calendar.
LEMMA ValidDate ==
    ASSUME NEW d, DateValid(d), d.year \in {0} \cup 1900 .. MaxYear, d.month \in Int, d.day \in 0 .. 31
    PROVE  IsDate(d)
<1>1. d.month \in 1 .. 12 /\ d.year \in 1900 .. MaxYear /\ d.day # 0 /\ d.day <= Days(d.year, d.month)
  BY DEF DateValid
<1> DEFINE y == d.year
           m == d.month
<1> HIDE DEF y, m
<1>2. m \in 1 .. 12
  BY <1>1 DEF m
<1>3. CalendarDays(y, m) \in 28 .. 31 /\ Days(y, m) \in Int /\ Days(y, m) <= CalendarDays(y, m)
  <2>1. CalendarDays(y, 5) = 31
    BY DEF CalendarDays
  <2> QED
    BY <1>2, <2>1, DaysOfMonths, MonthsFollow
<1> QED
  BY <1>1, <1>3 DEF IsDate, y, m

\* What the parser accepts is a date of the calendar.
LEMMA ParsedInCalendar ==
    ASSUME NEW d \in DatesOfTexts
    PROVE  IsDate(d) /\ d = [year |-> d.year, month |-> d.month, day |-> d.day]
<1>1. PICK str : TextOfDate(str) /\ d = ParsedDate(str)
  BY DEF DatesOfTexts
<1>2. d = [year |-> d.year, month |-> d.month, day |-> d.day]
  BY <1>1 DEF ParsedDate
<1>3. /\ d.year \in 1900 .. MaxYear /\ d.month \in 1 .. 12 /\ d.day \in 1 .. 31 /\ DateValid(d)
  BY <1>1 DEF TextOfDate
<1>4. d.year \in {0} \cup 1900 .. MaxYear /\ d.month \in Int /\ d.day \in 0 .. 31
  BY <1>3
<1> QED
  BY <1>2, <1>3, <1>4, ValidDate

\* Whatever the parser accepts is a date of the calendar, in every step.
THEOREM ParsedAreDates == Spec => ParsedIsDate
<1>1. [Next]_vars => [ParseIso => InCalendar(date')]_date
  BY ParsedInCalendar, DateFields DEF ParseIso
<1> QED
  BY <1>1, PTL DEF Spec, ParsedIsDate

\* Only the operations of a date change it.
LEMMA StepsOfDate ==
    ASSUME [Next]_vars
    PROVE  DateNext \/ UNCHANGED date
  BY DEF Next, UseDates, UseConversions, UseNames, UseEnvironment, UseEnumeration, UseChecks, UseTable, UsePipeline,
         DateNext, TimeNext, TypeTime, AssignTyped, vars, dates

\* The ranges of the fields of a date, unset ones included.
LEMMA RangesOfDate ==
    ASSUME NEW d
    PROVE  d \in [year : 0 .. MaxYear, month : 0 .. 12, day : 0 .. 31] /\ d.year \notin 1 .. 1899
           <=> d \in [year : {0} \cup 1900 .. MaxYear, month : 0 .. 12, day : 0 .. 31]
<1> DEFINE X == 0 .. MaxYear
           Y == {0} \cup 1900 .. MaxYear
           M == 0 .. 12
           D == 0 .. 31
           G == 1 .. 1899
<1>1. \A y : (y \in X /\ y \notin G) <=> y \in Y
  <2>1. MaxYear \in Nat /\ MaxYear >= 1900
    BY DEF MaxYear
  <2>2. \A y \in X : y \notin G => y \in Y
    BY <2>1
  <2>3. \A y \in Y : y \in X /\ y \notin G
    BY <2>1
  <2> HIDE DEF X, Y, G
  <2> QED
    BY <2>2, <2>3
<1> HIDE DEF X, Y, M, D, G
<1>2. /\ d \in [year : X, month : M, day : D] <=>
             /\ d = [year |-> d.year, month |-> d.month, day |-> d.day]
             /\ d.year \in X /\ d.month \in M /\ d.day \in D
      /\ d \in [year : Y, month : M, day : D] <=>
             /\ d = [year |-> d.year, month |-> d.month, day |-> d.day]
             /\ d.year \in Y /\ d.month \in M /\ d.day \in D
  BY DateRecord
<1>3. d \in [year : X, month : M, day : D] /\ d.year \notin G <=> d \in [year : Y, month : M, day : D]
  BY <1>1, <1>2
<1> QED
  BY <1>3 DEF X, Y, M, D, G

\* Dates have their fields, however they are set, read and reset.
LEMMA DatesStay == Spec => []DateTypeOK
<1> DEFINE Y == {0} \cup 1900 .. MaxYear
           M == 0 .. 12
           D == 0 .. 31
           All == [year : Y, month : M, day : D]
           Typed(d) == /\ d = [year |-> d.year, month |-> d.month, day |-> d.day]
                       /\ d.year \in Y /\ d.month \in M /\ d.day \in D
<1>1. DateTypeOK <=> date \in All
  BY RangesOfDate DEF DateTypeOK
<1>2. DateTypeOK' <=> date' \in All
  BY RangesOfDate DEF DateTypeOK
<1>3. Typed(UnsetDate)
  BY DEF UnsetDate
<1>4. ASSUME NEW d PROVE d \in All <=> Typed(d)
  <2> HIDE DEF Y, M, D
  <2> QED
    BY DateRecord
<1>5. Init => DateTypeOK
  BY <1>1, <1>4, <1>3 DEF Init, DateInit
<1>6. ASSUME Typed(date), [Next]_vars PROVE Typed(date')
  <2>1. CASE SetYear
    <3>1. PICK y \in Years : y >= 1900 /\ date' = [date EXCEPT !.year = y]
      BY <2>1 DEF SetYear
    <3>2. y \in 1900 .. MaxYear
      BY <3>1, YearsAssumption
    <3> HIDE DEF Y
    <3>3. y \in Y
      BY <3>2 DEF Y
    <3> QED
      BY <1>6, <3>1, <3>3
  <2>2. CASE SetMonth
    BY <1>6, <2>2 DEF SetMonth
  <2>3. CASE SetDay
    BY <1>6, <2>3 DEF SetDay
  <2>4. CASE ResetDate
    BY <1>3, <2>4 DEF ResetDate
  <2>5. CASE ParseIso
    <3>1. IsDate(date') /\ date' = [year |-> date'.year, month |-> date'.month, day |-> date'.day]
      BY <2>5, ParsedInCalendar DEF ParseIso
    <3>2. date'.year \in 1900 .. MaxYear /\ date'.month \in 1 .. 12 /\ date'.day \in 1 .. 31
      BY <3>1, DateFields DEF IsDate
    <3> QED
      BY <3>1, <3>2
  <2>6. CASE Today
    <3>1. date' \in [year : 1900 .. MaxYear, month : 1 .. 12, day : 1 .. 31]
      <4> DEFINE Days3 == [year : 1900 .. MaxYear, month : 1 .. 12, day : 1 .. 31]
      <4>1. Mornings \subseteq Days3
        BY MorningsAssumption
      <4> HIDE DEF Days3
      <4>2. date' \in Days3
        BY <2>6, <4>1 DEF Today
      <4> QED
        BY <4>2 DEF Days3
    <3>2. /\ date' = [year |-> date'.year, month |-> date'.month, day |-> date'.day]
          /\ date'.year \in 1900 .. MaxYear /\ date'.month \in 1 .. 12 /\ date'.day \in 1 .. 31
      <4> DEFINE Y1 == 1900 .. MaxYear
                 M1 == 1 .. 12
                 D1 == 1 .. 31
      <4>1. date' \in [year : Y1, month : M1, day : D1]
        BY <3>1
      <4> HIDE DEF Y1, M1, D1
      <4>2. /\ date' = [year |-> date'.year, month |-> date'.month, day |-> date'.day]
            /\ date'.year \in Y1 /\ date'.month \in M1 /\ date'.day \in D1
        BY <4>1, DateRecord
      <4> QED
        BY <4>2 DEF Y1, M1, D1
    <3> QED
      BY <3>2
  <2>7. CASE UNCHANGED date
    BY <1>6, <2>7
  <2> QED
    BY <1>6, <2>1, <2>2, <2>3, <2>4, <2>5, <2>6, <2>7, StepsOfDate DEF DateNext
<1> HIDE DEF Typed, All
<1>7. DateTypeOK /\ [Next]_vars => DateTypeOK'
  BY <1>1, <1>2, <1>4, <1>6
<1> QED
  BY <1>5, <1>7, PTL DEF Spec

\* The fields of a date that is set or unset.
LEMMA DateTyped ==
    ASSUME DateTypeOK
    PROVE  /\ date = [year |-> date.year, month |-> date.month, day |-> date.day]
           /\ date.year \in {0} \cup 1900 .. MaxYear /\ date.month \in 0 .. 12 /\ date.day \in 0 .. 31
<1> DEFINE Y == {0} \cup 1900 .. MaxYear
           M == 0 .. 12
           D == 0 .. 31
<1>1. date \in [year : Y, month : M, day : D]
  BY RangesOfDate DEF DateTypeOK
<1> HIDE DEF Y, M, D
<1>2. /\ date = [year |-> date.year, month |-> date.month, day |-> date.day]
      /\ date.year \in Y /\ date.month \in M /\ date.day \in D
  BY <1>1, DateRecord
<1> QED
  BY <1>2 DEF Y, M, D

\* A date that valid() accepts is one of the calendar.
LEMMA ValidAgrees == DateTypeOK => ValidIsInCalendar
<1> SUFFICES ASSUME DateTypeOK, DateValid(date) PROVE InCalendar(date)
  BY DEF ValidIsInCalendar
<1> DEFINE y == date.year
           m == date.month
           d == date.day
<1>1. y \in Int /\ m \in Int /\ d \in Nat
  BY DateTyped
<1>2. y >= 1900 /\ m \in 1 .. 12 /\ d # 0 /\ d <= Days(y, m)
  BY DEF DateValid
<1> HIDE DEF y, m, d
<1>3. CalendarDays(y, m) \in 28 .. 31 /\ Days(y, m) = IF m = 5 THEN 30 ELSE CalendarDays(y, m)
  BY <1>2, MonthsFollow, DaysOfMonths
<1>4. m = 5 => CalendarDays(y, m) = 31
  BY DEF CalendarDays
<1>5. d \in 1 .. CalendarDays(y, m)
  BY <1>1, <1>2, <1>3, <1>4
<1> QED
  BY <1>2, <1>5 DEF InCalendar, y, m, d

\* A valid date is one of the calendar.
LEMMA ValidIsDate == DateTypeOK /\ DateValid(date) => IsDate(date)
<1> SUFFICES ASSUME DateTypeOK, DateValid(date) PROVE IsDate(date)
  OBVIOUS
<1>1. date.year \in {0} \cup 1900 .. MaxYear /\ date.month \in Int /\ date.day \in 0 .. 31
  BY DateTyped
<1> QED
  BY <1>1, ValidDate

\* The comparisons order dates as the calendar does.
LEMMA DatesOrdered == DateTypeOK => DatesInOrder
<1> SUFFICES ASSUME DateTypeOK, DateValid(date), NEW other \in DatesOfTexts
             PROVE  /\ DateLess(date, other) <=> DayNumber(date) < DayNumber(other)
                    /\ DateLessEq(date, other) <=> DayNumber(date) <= DayNumber(other)
                    /\ DateEq(date, other) <=> DayNumber(date) = DayNumber(other)
                    /\ DateGreaterEq(date, other) <=> DayNumber(date) >= DayNumber(other)
                    /\ DateGreater(date, other) <=> DayNumber(date) > DayNumber(other)
  BY DEF DatesInOrder
<1>1. IsDate(date) /\ IsDate(other)
  BY ValidIsDate, ParsedInCalendar
<1> QED
  BY <1>1, OrderOfDates

\* The day of the week is the calendar's, as long as noon is on the same day in UTC.
LEMMA WeekdaysAgree == DateTypeOK => WeekdayOfCalendar
<1> SUFFICES ASSUME DateTypeOK, DateValid(date), NEW offset \in -11 .. 12
             PROVE  Weekday(date, offset) = (DayNumber(date) + 1) % 7
  BY DEF WeekdayOfCalendar
<1> DEFINE n == DayNumber(date)
<1>1. n \in Int
  BY ValidIsDate, NumberOfDay
<1>2. Weekday(date, offset) = ((n * 24 + 12 - offset) \div 24 + 1) % 7
  BY DEF Weekday
<1> HIDE DEF n
<1>3. (n * 24 + 12 - offset) \div 24 = n
  BY <1>1
<1> QED
  BY <1>2, <1>3 DEF n

-----------------------------------------------------------------------------
\* std::stoi() of digits only: nothing is left out, and each digit has its place.
LEMMA StoiOfDigits ==
    ASSUME NEW s \in Seq(Digit), s # <<>>
    PROVE  /\ HasNumber(s)
           /\ \E value : /\ Stoi(s) = value[Len(s)] /\ value[0] = 0
                         /\ \A n \in 1 .. Len(s) : value[n] = 10 * value[n - 1] + s[n]
<1> DEFINE N == Len(s)
<1>1. N \in Nat \ {0} /\ \A i \in 1 .. N : s[i] \in 0 .. 9
  BY LenProperties, EmptySeq, ElementOfSeq DEF Digit
<1>2. LeadingSpaces(s) = 0
  <2>1. \A n \in 0 .. N : (\A i \in 1 .. n : s[i] = 11) => n = 0
    BY <1>1
  <2>2. s[1] # 11
    BY <1>1
  <2>3. LeadingSpaces(s) = CHOOSE n \in 0 .. N :
            (\A i \in 1 .. n : s[i] = 11) /\ (n < N => s[n + 1] # 11)
    BY DEF LeadingSpaces, Space
  <2>4. \E n \in 0 .. N : (\A i \in 1 .. n : s[i] = 11) /\ (n < N => s[n + 1] # 11)
    <3>1. 0 \in 0 .. N /\ (\A i \in 1 .. 0 : s[i] = 11) /\ s[0 + 1] # 11
      BY <1>1, <2>2
    <3> QED
      BY <3>1
  <2> QED
    BY <2>1, <2>3, <2>4
<1>3. Unsigned(s) = s /\ ~Negative(s)
  <2>1. SubSeq(s, 0 + 1, N) = s
    BY SubSeqFull
  <2>2. Head(s) = s[1] /\ s[1] \in 0 .. 9
    BY <1>1
  <2>3. Head(s) \notin {Minus, Plus} /\ s[1] # Minus
    BY <2>2 DEF Minus, Plus
  <2>4. Unsigned(s) = s
    <3> DEFINE rest == SubSeq(s, LeadingSpaces(s) + 1, Len(s))
    <3>1. rest = s
      BY <1>2, <2>1
    <3> HIDE DEF rest
    <3>2. Unsigned(s) = IF rest # <<>> /\ Head(rest) \in {Minus, Plus} THEN Tail(rest) ELSE rest
      BY DEF Unsigned, rest
    <3> QED
      BY <2>3, <3>1, <3>2
  <2>5. ~Negative(s)
    <3>1. LeadingSpaces(s) + 1 = 1
      BY <1>2
    <3> QED
      BY <2>3, <3>1 DEF Negative
  <2> QED
    BY <2>4, <2>5
<1>4. DigitCount(s) = N
  <2>1. \A n \in 0 .. N : (n < N => s[n + 1] \notin Digit) => n = N
    BY <1>1 DEF Digit
  <2>2. N \in 0 .. N /\ (\A i \in 1 .. N : s[i] \in Digit) /\ ~(N < N)
    BY <1>1 DEF Digit
  <2> QED
    BY <2>1, <2>2 DEF DigitCount
<1>5. HasNumber(s)
  BY <1>1, <1>3, <1>4 DEF HasNumber
<1> DEFINE Fits(f, n) == /\ f = [i \in 0 .. n |-> f[i]] /\ f[0] = 0
                         /\ \A i \in 1 .. n : f[i] = 10 * f[i - 1] + s[i]
           T == {n \in Nat : \E f : Fits(f, n)}
           Body(f) == [n \in 0 .. N |-> IF n = 0 THEN 0 ELSE 10 * f[n - 1] + s[n]]
<1>6. \A n \in Nat : n \in T <=> \E f : Fits(f, n)
  OBVIOUS
<1> HIDE DEF T
<1>7. 0 \in T
  <2>1. Fits([i \in 0 .. 0 |-> 0], 0)
    OBVIOUS
  <2> QED
    BY <1>6, <2>1
<1>8. ASSUME NEW n \in Nat, n \in T PROVE n + 1 \in T
  <2>1. PICK f : Fits(f, n)
    BY <1>6, <1>8
  <2> DEFINE last == 10 * f[n] + s[n + 1]
             g == [i \in 0 .. n + 1 |-> IF i = n + 1 THEN last ELSE f[i]]
  <2> HIDE DEF last
  <2>2. \A i \in 0 .. n : g[i] = f[i]
    OBVIOUS
  <2>3. g = [i \in 0 .. n + 1 |-> g[i]] /\ g[0] = 0 /\ g[n + 1] = last
    BY <2>1
  <2> HIDE DEF g
  <2>4. ASSUME NEW i \in 1 .. n + 1 PROVE g[i] = 10 * g[i - 1] + s[i]
    <3>1. CASE i = n + 1
      <4>1. i - 1 = n /\ n \in 0 .. n
        BY <3>1
      <4> QED
        BY <2>2, <2>3, <3>1, <4>1 DEF last
    <3>2. CASE i # n + 1
      <4>1. i \in 1 .. n /\ i - 1 \in 0 .. n /\ i \in 0 .. n
        BY <3>2
      <4> QED
        BY <2>1, <2>2, <4>1
    <3> QED
      BY <3>1, <3>2
  <2>5. Fits(g, n + 1) /\ n + 1 \in Nat
    BY <2>3, <2>4
  <2> QED
    BY <1>6, <2>5
<1>9. PICK f : Fits(f, N)
  <2>1. N \in T
    BY <1>1, <1>7, <1>8, Induction
  <2> QED
    BY <1>1, <1>6, <2>1
<1>10. f = Body(f)
  <2>1. \A n \in 0 .. N : f[n] = IF n = 0 THEN 0 ELSE 10 * f[n - 1] + s[n]
    <3>1. f[0] = 0 /\ \A i \in 1 .. N : f[i] = 10 * f[i - 1] + s[i]
      BY <1>9
    <3>2. \A n \in 0 .. N : n = 0 \/ (n # 0 /\ n \in 1 .. N)
      BY <1>1
    <3> QED
      BY <3>1, <3>2
  <2>2. f = [n \in 0 .. N |-> f[n]]
    BY <1>9
  <2> QED
    BY <2>1, <2>2
<1> DEFINE value == CHOOSE g : g = Body(g)
<1>11. value = Body(value)
  BY <1>10
<1>12. Stoi(s) = value[N]
  BY <1>3, <1>4 DEF Stoi
<1> HIDE DEF value
<1>13. value[0] = 0 /\ \A n \in 1 .. N : value[n] = 10 * value[n - 1] + s[n]
  <2>1. \A n \in 0 .. N : value[n] = IF n = 0 THEN 0 ELSE 10 * value[n - 1] + s[n]
    BY <1>11
  <2>2. 0 \in 0 .. N /\ \A n \in 1 .. N : n \in 0 .. N /\ n # 0
    BY <1>1
  <2> QED
    BY <2>1, <2>2
<1> QED
  BY <1>5, <1>12, <1>13

\* The number of two digits, and of four.
LEMMA FewDigits ==
    ASSUME NEW s \in Seq(Digit)
    PROVE  /\ Len(s) = 2 => HasNumber(s) /\ Stoi(s) = 10 * s[1] + s[2]
           /\ Len(s) = 4 => HasNumber(s) /\ Stoi(s) = 1000 * s[1] + 100 * s[2] + 10 * s[3] + s[4]
<1>1. (s = <<>> => Len(s) = 0) /\ \A i \in 1 .. Len(s) : s[i] \in 0 .. 9
  BY EmptySeq, ElementOfSeq DEF Digit
<1>2. ASSUME Len(s) = 2
      PROVE  HasNumber(s) /\ Stoi(s) = 10 * s[1] + s[2]
  <2>1. s # <<>> /\ s[1] \in 0 .. 9 /\ s[2] \in 0 .. 9
    BY <1>1, <1>2
  <2>2. PICK value : /\ Stoi(s) = value[Len(s)] /\ value[0] = 0
                     /\ \A n \in 1 .. Len(s) : value[n] = 10 * value[n - 1] + s[n]
    BY <2>1, StoiOfDigits
  <2>3. value[1] = 10 * value[0] + s[1] /\ value[2] = 10 * value[1] + s[2]
    BY <1>2, <2>2
  <2> QED
    BY <1>2, <2>1, <2>2, <2>3, StoiOfDigits
<1>3. ASSUME Len(s) = 4
      PROVE  HasNumber(s) /\ Stoi(s) = 1000 * s[1] + 100 * s[2] + 10 * s[3] + s[4]
  <2>1. s # <<>> /\ s[1] \in 0 .. 9 /\ s[2] \in 0 .. 9 /\ s[3] \in 0 .. 9 /\ s[4] \in 0 .. 9
    BY <1>1, <1>3
  <2>2. PICK value : /\ Stoi(s) = value[Len(s)] /\ value[0] = 0
                     /\ \A n \in 1 .. Len(s) : value[n] = 10 * value[n - 1] + s[n]
    BY <2>1, StoiOfDigits
  <2>3. /\ value[1] = 10 * value[0] + s[1] /\ value[2] = 10 * value[1] + s[2]
        /\ value[3] = 10 * value[2] + s[3] /\ value[4] = 10 * value[3] + s[4]
    BY <1>3, <2>2
  <2>4. value[4] = 1000 * s[1] + 100 * s[2] + 10 * s[3] + s[4]
    <3> DEFINE a == s[1]
               b == s[2]
               c == s[3]
               d == s[4]
    <3>1. value[4] = 10 * (10 * (10 * (10 * 0 + a) + b) + c) + d
      BY <2>2, <2>3
    <3>2. a \in 0 .. 9 /\ b \in 0 .. 9 /\ c \in 0 .. 9 /\ d \in 0 .. 9
      BY <2>1
    <3> HIDE DEF a, b, c, d
    <3>3. value[4] = 1000 * a + 100 * b + 10 * c + d
      BY <3>1, <3>2
    <3> QED
      BY <3>3 DEF a, b, c, d
  <2> QED
    BY <1>3, <2>1, <2>2, <2>4, StoiOfDigits
<1> QED
  BY <1>2, <1>3

\* The parts of a text of ten characters.
LEMMA PartsOfTen ==
    ASSUME NEW ten, Len(ten) = 10, \A i \in 1 .. 4 : ten[i] \in Digit,
           \A i \in 6 .. 7 : ten[i] \in Digit, \A i \in 9 .. 10 : ten[i] \in Digit
    PROVE  /\ HasNumber(YearPart(ten)) /\ HasNumber(MonthPart(ten)) /\ HasNumber(DayPart(ten))
           /\ ParsedDate(ten) = [year |-> 1000 * ten[1] + 100 * ten[2] + 10 * ten[3] + ten[4],
                                 month |-> 10 * ten[6] + ten[7], day |-> 10 * ten[9] + ten[10]]
<1> DEFINE y == SubSeq(ten, 1, 4)
           m == SubSeq(ten, 6, 7)
           n == SubSeq(ten, 9, 10)
<1>1. y \in Seq(Digit) /\ Len(y) = 4 /\ \A i \in 1 .. 4 : y[i] = ten[1 + i - 1]
  BY SubSeqProperties
<1>2. m \in Seq(Digit) /\ Len(m) = 2 /\ \A i \in 1 .. 2 : m[i] = ten[6 + i - 1]
  BY SubSeqProperties
<1>3. n \in Seq(Digit) /\ Len(n) = 2 /\ \A i \in 1 .. 2 : n[i] = ten[9 + i - 1]
  BY SubSeqProperties
<1> HIDE DEF y, m, n
<1>4. /\ y[1] = ten[1] /\ y[2] = ten[2] /\ y[3] = ten[3] /\ y[4] = ten[4]
      /\ m[1] = ten[6] /\ m[2] = ten[7] /\ n[1] = ten[9] /\ n[2] = ten[10]
  BY <1>1, <1>2, <1>3
<1>5. /\ HasNumber(y) /\ Stoi(y) = 1000 * ten[1] + 100 * ten[2] + 10 * ten[3] + ten[4]
      /\ HasNumber(m) /\ Stoi(m) = 10 * ten[6] + ten[7]
      /\ HasNumber(n) /\ Stoi(n) = 10 * ten[9] + ten[10]
  BY <1>1, <1>2, <1>3, <1>4, FewDigits
<1>6. YearPart(ten) = y /\ MonthPart(ten) = m /\ DayPart(ten) = n
  BY DEF YearPart, MonthPart, DayPart, y, m, n
<1> QED
  BY <1>5, <1>6 DEF ParsedDate

\* The text of a date is read back as that date, if its year has four digits.
LEMMA DatesReadBack == DateTypeOK => IsoReadsBack
<1> SUFFICES ASSUME DateTypeOK, DateValid(date), date.year <= 9999
             PROVE  TextOfDate(Iso(date)) /\ ParsedDate(Iso(date)) = date
  BY DEF IsoReadsBack
<1> DEFINE y == date.year
           m == date.month
           n == date.day
           a == (y \div 1000) % 10
           b == (y \div 100) % 10
           c == (y \div 10) % 10
           d == y % 10
           e == m \div 10
           f == m % 10
           g == n \div 10
           h == n % 10
           ten == <<a, b, c, d, Minus, e, f, Minus, g, h>>
<1>1. /\ y \in 1900 .. MaxYear /\ y \in Nat /\ m \in 1 .. 12 /\ n \in 1 .. 31
      /\ date = [year |-> y, month |-> m, day |-> n]
  BY ValidIsDate, DateFields, DateTyped DEF IsDate
<1>2. Iso(date) = (IF y > 9999 THEN <<y \div 10000>> ELSE <<>>) \o ten
  BY DEF Iso
<1>0. y <= 9999
  OBVIOUS
<1> HIDE DEF y, m, n
<1>3. /\ a \in 0 .. 9 /\ b \in 0 .. 9 /\ c \in 0 .. 9 /\ d \in 0 .. 9
      /\ e \in 0 .. 9 /\ f \in 0 .. 9 /\ g \in 0 .. 9 /\ h \in 0 .. 9
      /\ 10 * e + f = m /\ 10 * g + h = n
  BY <1>1
<1>4. 1000 * a + 100 * b + 10 * c + d = y
  BY <1>0, <1>1
<1> HIDE DEF a, b, c, d, e, f, g, h
<1>6. /\ Len(ten) = 10
      /\ HasNumber(YearPart(ten)) /\ HasNumber(MonthPart(ten)) /\ HasNumber(DayPart(ten))
      /\ ParsedDate(ten) = [year |-> 1000 * a + 100 * b + 10 * c + d,
                            month |-> 10 * e + f, day |-> 10 * g + h]
  <2>1. /\ a \in Digit /\ b \in Digit /\ c \in Digit /\ d \in Digit
        /\ e \in Digit /\ f \in Digit /\ g \in Digit /\ h \in Digit
    BY <1>3 DEF Digit
  <2>2. /\ Len(ten) = 10 /\ ten[1] = a /\ ten[2] = b /\ ten[3] = c /\ ten[4] = d
        /\ ten[6] = e /\ ten[7] = f /\ ten[9] = g /\ ten[10] = h
    OBVIOUS
  <2> HIDE DEF ten
  <2>3. /\ \A i \in 1 .. 4 : ten[i] \in Digit
        /\ \A i \in 6 .. 7 : ten[i] \in Digit
        /\ \A i \in 9 .. 10 : ten[i] \in Digit
    BY <2>1, <2>2
  <2> QED
    BY <2>2, <2>3, PartsOfTen
<1>7. ten \in Seq(Int)
  BY <1>3 DEF Minus
<1> HIDE DEF ten
<1>8. Iso(date) = ten
  <2>1. ~(y > 9999)
    BY <1>0, <1>1
  <2> QED
    BY <1>2, <1>7, <2>1, ConcatEmptySeq
<1>9. ParsedDate(ten) = date
  BY <1>1, <1>3, <1>4, <1>6
<1>10. TextOfDate(ten)
  <2>1. date.year \in 1900 .. MaxYear /\ date.month \in 1 .. 12 /\ date.day \in 1 .. 31
    BY <1>1 DEF y, m, n
  <2> QED
    BY <1>6, <1>9, <2>1 DEF TextOfDate
<1> QED
  BY <1>8, <1>9, <1>10

\* What is said to be a valid date is one of the calendar, for all years, texts
\* and mornings, with the order and, in the timezones from eleven hours west to
\* twelve east, the weekday of the calendar; and up to 9999 it is read back from
\* its text.
THEOREM DatesAlwaysAgree == Spec => []DatesAgree
<1>1. DateTypeOK => DatesAgree
  BY ValidAgrees, DatesOrdered, WeekdaysAgree, DatesReadBack DEF DatesAgree
<1> QED
  BY <1>1, DatesStay, PTL

-----------------------------------------------------------------------------
\* The names of the states, or of the events, differ.
Distinct(given) == \A j, k \in DOMAIN given : given[j] = given[k] => j = k

\* As long as every name was given without its scope, the comparison with those
\* that are stored has kept them apart.
NamesApart ==
    /\ names = [states |-> names.states, events |-> names.events]
    /\ ~scoped => Distinct(names.states) /\ Distinct(names.events)

\* A name that is not used yet, or is that of the same key, leaves the names different.
LEMMA Renamed ==
    ASSUME NEW given, NEW key, NEW short, Distinct(given),
           \A k \in DOMAIN given \ {key} : short # given[k]
    PROVE  Distinct([k \in DOMAIN given \cup {key} |-> IF k = key THEN short ELSE given[k]])
  BY DEF Distinct

\* Registering a name keeps the names of states apart, and those of events.
LEMMA RegisterStep ==
    ASSUME NamesApart, NEW kind \in {"states", "events"}, NEW key, NEW name, Register(kind, key, name)
    PROVE  NamesApart'
<1> DEFINE new == [k \in DOMAIN names[kind] \cup {key} |->
                      IF k = key THEN name.short ELSE names[kind][k]]
<1>1. /\ ~Used(kind, key, name) /\ names' = [names EXCEPT ![kind] = new]
      /\ scoped' = (scoped \/ name.scope # NoScope)
  BY DEF Register, Shorten
<1>2. ~scoped' => ~scoped /\ Distinct(new)
  <2>1. SUFFICES ASSUME ~scoped, name.scope = NoScope PROVE Distinct(new)
    BY <1>1
  <2>2. \A k \in DOMAIN names[kind] \ {key} : name.short # names[kind][k]
    BY <1>1, <2>1 DEF Used, Equal, Shorten
  <2>3. Distinct(names[kind])
    BY <2>1 DEF NamesApart
  <2> HIDE DEF new
  <2> QED
    BY <2>2, <2>3, Renamed DEF new
<1> HIDE DEF new
<1>3. CASE kind = "states"
  <2>1. names' = [states |-> new, events |-> names.events]
    BY <1>1, <1>3 DEF NamesApart
  <2> QED
    BY <1>1, <1>2, <2>1 DEF NamesApart
<1>4. CASE kind = "events"
  <2>1. names' = [states |-> names.states, events |-> new]
    BY <1>1, <1>4 DEF NamesApart
  <2> QED
    BY <1>1, <1>2, <2>1 DEF NamesApart
<1> QED
  BY <1>3, <1>4

\* The names stay apart.
LEMMA NamesStayApart == Spec => []NamesApart
<1>1. Init => NamesApart
  <2> DEFINE none == <<>>
  <2>1. Init => names = [states |-> none, events |-> none] /\ scoped = FALSE
    BY DEF Init, NamesInit
  <2>2. Distinct(none)
    BY DEF Distinct
  <2> HIDE DEF none
  <2>3. Init => names.states = none /\ names.events = none
    BY <2>1
  <2> QED
    BY <2>1, <2>2, <2>3 DEF NamesApart
<1>2. NamesApart /\ [Next]_vars => NamesApart'
  <2> SUFFICES ASSUME NamesApart, [Next]_vars PROVE NamesApart'
    OBVIOUS
  <2>1. CASE NamesNext
    BY <2>1, RegisterStep DEF NamesNext
  <2>2. CASE UNCHANGED naming
    BY <2>2 DEF NamesApart, Distinct, naming
  <2> QED
    BY <2>1, <2>2 DEF Next, UseDates, UseConversions, UseNames, UseEnvironment, UseEnumeration, UseChecks, UseTable, UsePipeline, vars
<1> QED
  BY <1>1, <1>2, PTL DEF Spec

\* The keys that have names of a kind.
KeysOf(kind) == IF kind = "states" THEN StateKeys ELSE EventKeys

\* Names that differ tell keys apart, and so do numbers when no name is one.
LEMMA NamesTellApart ==
    ASSUME NamesApart, ~scoped, NEW kind \in {"states", "events"}, NoNameIsNumber(kind, KeysOf(kind)),
           NEW j \in KeysOf(kind), NEW k \in KeysOf(kind), NameOf(kind, j) = NameOf(kind, k)
    PROVE  j = k
<1> DEFINE given == names[kind]
<1>1. Distinct(given)
  BY DEF NamesApart
<1>2. \A x : NameOf(kind, x) = IF x \in DOMAIN given THEN given[x] ELSE NumberText[x]
  BY DEF NameOf
<1>3. \A x \in DOMAIN given, y \in KeysOf(kind) \ DOMAIN given : given[x] # NumberText[y]
  BY DEF NoNameIsNumber
<1>4. NumberText[j] = NumberText[k] => j = k
  BY NumbersAssumption DEF KeysOf
<1> HIDE DEF given
<1> QED
  BY <1>1, <1>2, <1>3, <1>4 DEF Distinct

\* While names have no scope and none is the number of a key without a name, no
\* two arcs look the same in the graph, whatever the states, the events and their
\* names, and however often they are renamed.
THEOREM ArcsAlwaysDiffer == Spec => []ArcsLookDifferent
<1>1. NamesApart => ArcsLookDifferent
  <2> SUFFICES ASSUME NamesApart, ~scoped,
                      NoNameIsNumber("states", StateKeys), NoNameIsNumber("events", EventKeys),
                      NEW a \in GraphArcs, NEW b \in GraphArcs, Edge(a) = Edge(b)
               PROVE  a = b
    BY DEF ArcsLookDifferent
  <2>1. /\ NameOf("states", a.from) = NameOf("states", b.from)
        /\ NameOf("states", a.to) = NameOf("states", b.to)
        /\ NameOf("events", a.event) = NameOf("events", b.event)
    BY DEF Edge
  <2>2. /\ a.from \in StateKeys /\ a.to \in StateKeys /\ a.event \in EventKeys
        /\ b.from \in StateKeys /\ b.to \in StateKeys /\ b.event \in EventKeys
        /\ a = [from |-> a.from, event |-> a.event, to |-> a.to]
        /\ b = [from |-> b.from, event |-> b.event, to |-> b.to]
    BY ArcsAssumption
  <2>3. KeysOf("states") = StateKeys /\ KeysOf("events") = EventKeys
    BY DEF KeysOf
  <2>4. a.from = b.from /\ a.to = b.to
    BY <2>1, <2>2, <2>3, NamesTellApart
  <2>5. a.event = b.event
    BY <2>1, <2>2, <2>3, NamesTellApart
  <2> QED
    BY <2>2, <2>4, <2>5
<1> QED
  BY <1>1, NamesStayApart, PTL

-----------------------------------------------------------------------------
\* An environment keeps what there was in an earlier one.
KeepsAll(e, f) == \A x \in DOMAIN e : x \in DOMAIN f /\ f[x] = e[x]

\* What reading some lines has led to.
Reading(st, e) == st = [env |-> st.env, thrown |-> st.thrown] /\ KeepsAll(e, st.env)

\* The kinds of lines.
KnownLine(line) == line.kind \in {"export", "skipped", "too short"}

\* A line changes no variable that was there.
LEMMA LineKeeps ==
    ASSUME NEW e, NEW st, NEW line, Reading(st, e), KnownLine(line)
    PROVE  Reading(ReadLine(st, line), e)
<1>1. CASE st.thrown \/ line.kind = "skipped"
  BY <1>1 DEF ReadLine
<1>2. CASE ~st.thrown /\ line.kind = "export"
  <2> DEFINE new == Set(st.env, line.var, line.value)
  <2>1. CASE KeepsOld(st.env, line.var)
    BY <1>2, <2>1 DEF ReadLine
  <2>2. CASE ~KeepsOld(st.env, line.var)
    <3>1. ReadLine(st, line) = [st EXCEPT !.env = new]
      BY <1>2, <2>2 DEF ReadLine
    <3>2. KeepsAll(e, new)
      BY <2>2 DEF Reading, KeepsAll, Set, KeepsOld
    <3> HIDE DEF new
    <3>3. ReadLine(st, line) = [env |-> new, thrown |-> st.thrown]
      BY <3>1 DEF Reading
    <3> DEFINE t == ReadLine(st, line)
               b == st.thrown
    <3> HIDE DEF t, b
    <3>4. t = [env |-> new, thrown |-> b]
      BY <3>3 DEF t, b
    <3>5. t.env = new /\ t.thrown = b
      BY <3>4
    <3> QED
      BY <3>2, <3>4, <3>5 DEF Reading, t
  <2> QED
    BY <2>1, <2>2
<1>3. CASE ~st.thrown /\ line.kind = "too short"
  <2>1. ReadLine(st, line) = [st EXCEPT !.thrown = TRUE]
    BY <1>3 DEF ReadLine
  <2>2. ReadLine(st, line) = [env |-> st.env, thrown |-> TRUE]
    BY <2>1 DEF Reading
  <2> DEFINE t == ReadLine(st, line)
             new == st.env
  <2> HIDE DEF t, new
  <2>3. t = [env |-> new, thrown |-> TRUE]
    BY <2>2 DEF t, new
  <2>4. t.env = new /\ t.thrown = TRUE
    BY <2>3
  <2> QED
    BY <2>3, <2>4 DEF Reading, t, new
<1> QED
  BY <1>1, <1>2, <1>3 DEF KnownLine

\* Reading a file changes no variable that was there, whatever is in the file.
LEMMA FileKeeps ==
    ASSUME ReadEnv
    PROVE  KeepsAll(env, env')
<1>1. PICK file \in Profiles :
          env' = LET after[n \in 0 .. Len(file)] ==
                         IF n = 0 THEN [env |-> env, thrown |-> FALSE] ELSE ReadLine(after[n - 1], file[n])
                 IN  after[Len(file)].env
  BY DEF ReadEnv
<1> DEFINE N == Len(file)
           start == [env |-> env, thrown |-> FALSE]
           Fits(f, n) == /\ f = [i \in 0 .. n |-> f[i]] /\ f[0] = start
                         /\ \A i \in 1 .. n : f[i] = ReadLine(f[i - 1], file[i])
           T == {n \in Nat : \E f : Fits(f, n)}
           Body(f) == [n \in 0 .. N |-> IF n = 0 THEN start ELSE ReadLine(f[n - 1], file[n])]
           after == CHOOSE f : f = Body(f)
<1>2. env' = after[N].env
  BY <1>1
<1>3. N \in Nat
  BY ProfilesAssumption
<1>4. \A n \in 1 .. N : KnownLine(file[n])
  BY ProfilesAssumption DEF KnownLine
<1> HIDE DEF N
<1>5. Reading(start, env)
  BY DEF Reading, KeepsAll
<1> HIDE DEF start
<1>6. \A n \in Nat : n \in T <=> \E f : Fits(f, n)
  OBVIOUS
<1> HIDE DEF T
<1>7. 0 \in T
  <2>1. Fits([i \in 0 .. 0 |-> start], 0)
    OBVIOUS
  <2> QED
    BY <1>6, <2>1
<1>8. ASSUME NEW n \in Nat, n \in T PROVE n + 1 \in T
  <2>1. PICK f : Fits(f, n)
    BY <1>6, <1>8
  <2> DEFINE last == ReadLine(f[n], file[n + 1])
             g == [i \in 0 .. n + 1 |-> IF i = n + 1 THEN last ELSE f[i]]
  <2> HIDE DEF last
  <2>2. \A i \in 0 .. n : g[i] = f[i]
    OBVIOUS
  <2>3. g = [i \in 0 .. n + 1 |-> g[i]] /\ g[0] = start /\ g[n + 1] = last
    BY <2>1
  <2> HIDE DEF g
  <2>4. ASSUME NEW i \in 1 .. n + 1 PROVE g[i] = ReadLine(g[i - 1], file[i])
    <3>1. CASE i = n + 1
      <4>1. i - 1 = n /\ n \in 0 .. n
        BY <3>1
      <4> QED
        BY <2>2, <2>3, <3>1, <4>1 DEF last
    <3>2. CASE i # n + 1
      <4>1. i \in 1 .. n /\ i - 1 \in 0 .. n /\ i \in 0 .. n
        BY <3>2
      <4> QED
        BY <2>1, <2>2, <4>1
    <3> QED
      BY <3>1, <3>2
  <2>5. Fits(g, n + 1)
    <3>1. \A i \in 1 .. n + 1 : g[i] = ReadLine(g[i - 1], file[i])
      BY <2>4
    <3> QED
      BY <2>3, <3>1
  <2>6. n + 1 \in Nat
    OBVIOUS
  <2> QED
    BY <1>6, <2>5, <2>6
<1>9. PICK f : Fits(f, N)
  <2>1. N \in T
    BY <1>3, <1>7, <1>8, Induction
  <2> QED
    BY <1>3, <1>6, <2>1
<1>10. f = Body(f)
  <2>1. \A n \in 0 .. N : f[n] = IF n = 0 THEN start ELSE ReadLine(f[n - 1], file[n])
    <3>1. f[0] = start /\ \A i \in 1 .. N : f[i] = ReadLine(f[i - 1], file[i])
      BY <1>9
    <3>2. \A n \in 0 .. N : n = 0 \/ (n # 0 /\ n \in 1 .. N)
      BY <1>3
    <3> QED
      BY <3>1, <3>2
  <2>2. f = [n \in 0 .. N |-> f[n]]
    BY <1>9
  <2> QED
    BY <2>1, <2>2
<1>11. after = Body(after)
  BY <1>10
<1> HIDE DEF after
<1>12. /\ after[0] = start
       /\ \A n \in 0 .. N : n + 1 <= N => after[n + 1] = ReadLine(after[n], file[n + 1])
  <2>1. \A n \in 0 .. N : after[n] = IF n = 0 THEN start ELSE ReadLine(after[n - 1], file[n])
    BY <1>11
  <2>2. 0 \in 0 .. N
    BY <1>3
  <2>3. \A n \in 0 .. N : n + 1 <= N => n + 1 \in 0 .. N /\ n + 1 # 0 /\ (n + 1) - 1 = n
    BY <1>3
  <2> QED
    BY <2>1, <2>2, <2>3
<1> DEFINE U == {n \in Nat : n <= N => Reading(after[n], env)}
<1>13. \A n \in Nat : n \in U <=> (n <= N => Reading(after[n], env))
  OBVIOUS
<1> HIDE DEF U
<1>14. 0 \in U
  BY <1>5, <1>12, <1>13
<1>15. ASSUME NEW n \in Nat, n \in U PROVE n + 1 \in U
  <2>1. SUFFICES ASSUME n + 1 <= N PROVE Reading(after[n + 1], env)
    BY <1>13
  <2>2. n \in 0 .. N /\ n + 1 \in 1 .. N /\ n <= N
    BY <1>3, <2>1
  <2>3. Reading(after[n], env) /\ after[n + 1] = ReadLine(after[n], file[n + 1])
    BY <1>12, <1>13, <1>15, <2>1, <2>2
  <2> DEFINE st == after[n]
             line == file[n + 1]
  <2>4. KnownLine(line)
    BY <1>4, <2>2
  <2> HIDE DEF st, line
  <2>5. Reading(st, env)
    BY <2>3 DEF st
  <2>6. Reading(ReadLine(st, line), env)
    BY <2>4, <2>5, LineKeeps
  <2> QED
    BY <2>3, <2>6 DEF st, line
<1>16. Reading(after[N], env)
  <2>1. N \in U /\ N <= N
    BY <1>3, <1>14, <1>15, Induction
  <2> QED
    BY <1>3, <1>13, <2>1
<1> QED
  BY <1>2, <1>16 DEF Reading

\* What the user has added is what the program gets, for all variables, values
\* and files, whether the file is read before or after it.
THEOREM OwnVariablesAlwaysWin == Spec => []OwnVariablesWin
<1>1. Init => OwnVariablesWin
  BY DEF Init, EnvironmentInit, OwnVariablesWin
<1>2. OwnVariablesWin /\ [Next]_vars => OwnVariablesWin'
  <2> SUFFICES ASSUME OwnVariablesWin, [Next]_vars PROVE OwnVariablesWin'
    OBVIOUS
  <2>1. CASE AddEnv
    BY <2>1 DEF AddEnv, Set, OwnVariablesWin
  <2>2. CASE ReadEnv
    <3>1. KeepsAll(env, env') /\ UNCHANGED own
      BY <2>2, FileKeeps DEF ReadEnv
    <3> QED
      BY <3>1 DEF KeepsAll, OwnVariablesWin
  <2>3. CASE NoProfile \/ UNCHANGED environment
    BY <2>3 DEF NoProfile, OwnVariablesWin, environment
  <2> QED
    BY <2>1, <2>2, <2>3 DEF Next, UseDates, UseConversions, UseNames, UseEnvironment, UseEnumeration,
       UseChecks, UseTable, UsePipeline, EnvironmentNext, vars
<1> QED
  BY <1>1, <1>2, PTL DEF Spec

-----------------------------------------------------------------------------
\* While no two threads have filled the maps at once, both have the same entries:
\* those that the one thread that fills them has entered, or all, or none as long
\* as nobody seeks.
Orderly ==
    /\ s2k = k2s
    /\ \A t \in Seekers : filled[t] # Done => seek[t] # 0 /\ k2s = {e \in DOMAIN Entries : e <= filled[t]}
    /\ \A t, u \in Seekers : filled[t] # Done /\ filled[u] # Done => t = u
    /\ (\A t \in Seekers : filled[t] = Done) =>
           k2s = DOMAIN Entries \/ (k2s = {} /\ \A t \in Seekers : seek[t] = 0)

\* What lookups have found in maps that are whole was there.
Answered == \A t \in Seekers : seek[t] = 0 /\ sound[t] => answer[t] # 0

CoolOK ==
    /\ filled \in [Seekers -> 0 .. Done] /\ seek \in [Seekers -> 0 .. Len(Entries)]
    /\ answer \in [Seekers -> 0 .. Len(Entries)] /\ sound = [t \in Seekers |-> sound[t]]
    /\ raced \in BOOLEAN
    /\ ~raced => Orderly
    /\ Answered

\* A lookup that begins finds the maps filled, or is the first to fill them, or
\* another thread is filling them.
LEMMA SeekStep ==
    ASSUME CoolOK, NEW t \in Seekers, NEW e \in DOMAIN Entries, Seek(t, e)
    PROVE  CoolOK'
<1> DEFINE L == Len(Entries)
           first == IF k2s = {} THEN 0 ELSE Done
<1>1. L \in Nat /\ Done = L + 1 /\ e \in 1 .. L /\ DOMAIN Entries = 1 .. L
  BY EntriesAssumption DEF Done
<1>2. /\ seek[t] = 0 /\ seek' = [seek EXCEPT ![t] = e] /\ filled' = [filled EXCEPT ![t] = first]
      /\ answer' = [answer EXCEPT ![t] = 0] /\ sound' = [sound EXCEPT ![t] = FALSE]
      /\ k2s' = k2s /\ s2k' = s2k /\ raced \in BOOLEAN
      /\ raced' = (raced \/ (k2s = {} /\ \E u \in Seekers : filled[u] # Done))
  BY DEF Seek, CoolOK, Filling
<1>3. /\ filled \in [Seekers -> 0 .. Done] /\ seek \in [Seekers -> 0 .. L] /\ answer \in [Seekers -> 0 .. L]
      /\ sound = [u \in Seekers |-> sound[u]]
  BY DEF CoolOK
<1>4. /\ filled'[t] = first /\ seek'[t] = e /\ answer'[t] = 0 /\ sound'[t] = FALSE
      /\ \A u \in Seekers \ {t} :
             filled'[u] = filled[u] /\ seek'[u] = seek[u] /\ answer'[u] = answer[u] /\ sound'[u] = sound[u]
  BY <1>2, <1>3
<1>5. first \in 0 .. Done /\ e \in 0 .. L /\ 0 \in 0 .. L /\ e # 0
  BY <1>1
<1>6. k2s = {} => first = 0
  OBVIOUS
<1>7. k2s # {} => first = Done
  OBVIOUS
<1> HIDE DEF L, first
<1>8. /\ filled' \in [Seekers -> 0 .. Done] /\ seek' \in [Seekers -> 0 .. L] /\ answer' \in [Seekers -> 0 .. L]
      /\ sound' = [u \in Seekers |-> sound'[u]] /\ raced' \in BOOLEAN
  BY <1>2, <1>3, <1>5
<1>9. ASSUME ~raced' PROVE Orderly'
  <2>1. ~raced /\ Orderly
    BY <1>2, <1>9 DEF CoolOK
  <2>2. k2s = {} => \A u \in Seekers : filled[u] = Done
    BY <1>2, <1>9
  <2>3. s2k' = k2s'
    BY <1>2, <2>1 DEF Orderly
  <2>4. ASSUME NEW u \in Seekers, filled'[u] # Done
        PROVE  seek'[u] # 0 /\ k2s' = {i \in DOMAIN Entries : i <= filled'[u]}
    <3>1. CASE u = t
      <4>1. k2s = {} /\ filled'[u] = 0 /\ seek'[u] # 0
        BY <1>4, <1>5, <1>6, <1>7, <2>4, <3>1
      <4>2. {i \in DOMAIN Entries : i <= 0} = {}
        BY <1>1
      <4> QED
        BY <1>2, <4>1, <4>2
    <3>2. CASE u # t
      BY <1>2, <1>4, <2>1, <2>4, <3>2 DEF Orderly
    <3> QED
      BY <3>1, <3>2
  <2>5. ASSUME NEW u \in Seekers, NEW v \in Seekers, filled'[u] # Done, filled'[v] # Done
        PROVE  u = v
    <3>1. CASE k2s = {}
      BY <1>4, <2>2, <2>5, <3>1
    <3>2. CASE k2s # {}
      <4>1. u # t /\ v # t
        BY <1>4, <1>7, <2>5, <3>2
      <4> QED
        BY <1>4, <2>1, <2>5, <4>1 DEF Orderly
    <3> QED
      BY <3>1, <3>2
  <2>6. ASSUME \A u \in Seekers : filled'[u] = Done
        PROVE  k2s' = DOMAIN Entries
    <3>1. k2s # {}
      BY <1>1, <1>4, <1>6, <2>6
    <3>2. \A u \in Seekers : filled[u] = Done
      <4>1. \A u \in Seekers \ {t} : filled[u] = Done
        BY <1>4, <2>6
      <4>2. filled[t] = Done
        BY <1>2, <2>1 DEF Orderly
      <4> QED
        BY <4>1, <4>2
    <3> QED
      BY <1>2, <2>1, <3>1, <3>2 DEF Orderly
  <2> QED
    BY <2>3, <2>4, <2>5, <2>6 DEF Orderly, Done
<1>10. Answered'
  BY <1>4 DEF CoolOK, Answered
<1> QED
  BY <1>8, <1>9, <1>10 DEF CoolOK, L, Done

\* An entry more, in both maps.
LEMMA FillStep ==
    ASSUME CoolOK, NEW t \in Seekers, Fill(t)
    PROVE  CoolOK'
<1> DEFINE L == Len(Entries)
           n == filled[t]
<1>1. L \in Nat /\ Done = L + 1 /\ DOMAIN Entries = 1 .. L
  BY EntriesAssumption DEF Done
<1>2. filled \in [Seekers -> 0 .. Done]
  BY DEF CoolOK
<1>3. /\ n \in 0 .. L /\ n # Done /\ filled' = [filled EXCEPT ![t] = n + 1]
      /\ seek' = seek /\ answer' = answer /\ sound' = sound /\ raced' = raced
  BY <1>1, <1>2 DEF Fill, Filling
<1>4. ~raced => /\ n < L => k2s' = k2s \cup {n + 1} /\ s2k' = s2k \cup {n + 1}
                /\ n = L => k2s' = k2s /\ s2k' = s2k
  BY <1>1, <1>3 DEF Fill, InsertInto, Enter
<1> HIDE DEF L
<1>5. /\ filled'[t] = n + 1 /\ \A u \in Seekers \ {t} : filled'[u] = filled[u]
      /\ filled' \in [Seekers -> 0 .. Done]
  BY <1>1, <1>2, <1>3
<1>6. ASSUME ~raced' PROVE Orderly'
  <2>1. ~raced /\ Orderly
    BY <1>3, <1>6 DEF CoolOK
  <2>2. /\ s2k = k2s /\ seek[t] # 0 /\ k2s = {e \in DOMAIN Entries : e <= n}
        /\ \A u \in Seekers \ {t} : filled[u] = Done
    BY <1>3, <2>1 DEF Orderly
  <2> HIDE DEF n
  <2>3. s2k' = k2s' /\ k2s' = {e \in DOMAIN Entries : e <= n + 1}
    <3>1. CASE n < L
      <4>1. k2s' = k2s \cup {n + 1} /\ s2k' = s2k \cup {n + 1}
        BY <1>4, <2>1, <3>1
      <4> QED
        BY <1>1, <1>3, <2>2, <3>1, <4>1
    <3>2. CASE n = L
      <4>1. k2s' = k2s /\ s2k' = s2k
        BY <1>4, <2>1, <3>2
      <4> QED
        BY <1>1, <1>3, <2>2, <3>2, <4>1
    <3> QED
      BY <1>1, <1>3, <3>1, <3>2
  <2>4. \A u \in Seekers : filled'[u] # Done => u = t
    BY <1>5, <2>2
  <2>5. filled'[t] = Done => k2s' = DOMAIN Entries
    BY <1>1, <1>3, <1>5, <2>3
  <2>6. \A u \in Seekers : filled'[u] # Done => seek'[u] # 0 /\ k2s' = {e \in DOMAIN Entries : e <= filled'[u]}
    BY <1>3, <1>5, <2>2, <2>3, <2>4
  <2> QED
    BY <2>3, <2>4, <2>5, <2>6 DEF Orderly, Done
<1>7. Answered'
  BY <1>3 DEF CoolOK, Answered
<1> QED
  BY <1>3, <1>5, <1>6, <1>7 DEF CoolOK, L, Done

\* An answer, which is that of an entry when the maps are settled.
LEMMA LookStep ==
    ASSUME CoolOK, NEW t \in Seekers, Look(t)
    PROVE  CoolOK'
<1> DEFINE L == Len(Entries)
<1>1. L \in Nat /\ Done = L + 1 /\ DOMAIN Entries = 1 .. L
  BY EntriesAssumption DEF Done
<1>2. /\ seek[t] # 0 /\ filled[t] = Done /\ sound' = [sound EXCEPT ![t] = Settled]
      /\ seek' = [seek EXCEPT ![t] = 0]
      /\ k2s' = k2s /\ s2k' = s2k /\ filled' = filled /\ raced' = raced
  BY DEF Look, Filling
<1>3. PICK a : /\ answer' = [answer EXCEPT ![t] = a]
               /\ a \in {seek[t], 0}
               /\ Settled => \E map \in {k2s, s2k} : a = IF seek[t] \in map THEN seek[t] ELSE 0
  BY DEF Look
<1>4. /\ filled \in [Seekers -> 0 .. Done] /\ seek \in [Seekers -> 0 .. L] /\ answer \in [Seekers -> 0 .. L]
      /\ sound = [u \in Seekers |-> sound[u]]
  BY DEF CoolOK
<1>5. Settled => a # 0
  <2> SUFFICES ASSUME Settled PROVE a # 0
    OBVIOUS
  <2>1. Orderly /\ \A u \in Seekers : filled[u] = Done
    BY DEF CoolOK, Settled, Filling
  <2>2. k2s = DOMAIN Entries /\ s2k = k2s
    BY <1>2, <2>1 DEF Orderly
  <2>3. seek[t] \in DOMAIN Entries
    BY <1>1, <1>2, <1>4
  <2> QED
    BY <1>2, <1>3, <2>2, <2>3
<1> HIDE DEF L
<1>6. /\ seek'[t] = 0 /\ answer'[t] = a /\ sound'[t] = Settled
      /\ \A u \in Seekers \ {t} : seek'[u] = seek[u] /\ answer'[u] = answer[u] /\ sound'[u] = sound[u]
  BY <1>2, <1>3, <1>4
<1>7. /\ filled' \in [Seekers -> 0 .. Done] /\ seek' \in [Seekers -> 0 .. L] /\ answer' \in [Seekers -> 0 .. L]
      /\ sound' = [u \in Seekers |-> sound'[u]]
  <2>1. seek[t] \in 0 .. L /\ 0 \in 0 .. L
    BY <1>1, <1>4
  <2>2. a \in 0 .. L
    BY <1>3, <2>1
  <2>3. seek' \in [Seekers -> 0 .. L]
    BY <1>2, <1>4, <2>1
  <2>4. answer' \in [Seekers -> 0 .. L]
    BY <1>3, <1>4, <2>2
  <2>5. sound' = [u \in Seekers |-> sound'[u]]
    BY <1>2, <1>4
  <2> QED
    BY <1>2, <1>4, <2>3, <2>4, <2>5
<1>8. ASSUME ~raced' PROVE Orderly'
  <2>1. Orderly
    BY <1>2, <1>8 DEF CoolOK
  <2>2. \A u \in Seekers : filled'[u] # Done => seek'[u] # 0
    BY <1>2, <1>6, <2>1 DEF Orderly
  <2>3. (\A u \in Seekers : filled'[u] = Done) => k2s' = DOMAIN Entries
    BY <1>2, <2>1 DEF Orderly
  <2> QED
    BY <1>2, <2>1, <2>2, <2>3 DEF Orderly, Done
<1>9. Answered'
  BY <1>5, <1>6 DEF CoolOK, Answered
<1> QED
  BY <1>2, <1>7, <1>8, <1>9 DEF CoolOK, L, Done

\* What lookups promise.
LEMMA CoolAnswers == CoolOK => LookupsAnswer
<1> SUFFICES ASSUME CoolOK PROVE LookupsAnswer
  OBVIOUS
<1>1. ASSUME Settled PROVE k2s = s2k /\ k2s \in {{}, DOMAIN Entries}
  <2>1. Orderly /\ \A u \in Seekers : filled[u] = Done
    BY <1>1 DEF CoolOK, Settled, Filling
  <2> QED
    BY <2>1 DEF Orderly
<1> QED
  BY <1>1 DEF CoolOK, Answered, LookupsAnswer

\* Lookups are answered, however many threads seek and fill.
LEMMA LookupsStay == Spec => []CoolOK
<1>1. Init => CoolOK
  <2> SUFFICES ASSUME Init PROVE CoolOK
    OBVIOUS
  <2>1. Done \in 0 .. Done /\ 0 \in 0 .. Len(Entries)
    BY EntriesAssumption DEF Done
  <2> QED
    BY <2>1 DEF Init, CoolInit, CoolOK, Orderly, Answered
<1>2. CoolOK /\ [Next]_vars => CoolOK'
  <2> SUFFICES ASSUME CoolOK, [Next]_vars PROVE CoolOK'
    OBVIOUS
  <2>1. CASE CoolNext
    BY <2>1, SeekStep, FillStep, LookStep DEF CoolNext
  <2>2. CASE UNCHANGED cool
    BY <2>2 DEF CoolOK, Orderly, Answered, Done, cool
  <2> QED
    BY <2>1, <2>2 DEF Next, UseDates, UseConversions, UseNames, UseEnvironment, UseEnumeration, UseChecks, UseTable, UsePipeline, vars
<1> QED
  BY <1>1, <1>2, PTL DEF Spec

-----------------------------------------------------------------------------
\* A name without its ending is a name.
LEMMA SanitizedName ==
    ASSUME NEW s \in DOMAIN Suites
    PROVE  Sanitized(Suites[s]) \in Seq(STRING)
<1> DEFINE name == Suites[s]
<1>1. name \in Seq(STRING)
  BY SuitesAssumption, ElementOfSeq
<1> HIDE DEF name
<1>2. Len(name) \in Nat /\ \A i \in 1 .. Len(name) : name[i] \in STRING
  BY <1>1, ElementOfSeq
<1>3. Len(name) >= 7 => SubSeq(name, 1, Len(name) - 5) \in Seq(STRING)
  <2> SUFFICES ASSUME Len(name) >= 7 PROVE SubSeq(name, 1, Len(name) - 5) \in Seq(STRING)
    OBVIOUS
  <2>1. Len(name) - 5 \in 1 .. Len(name)
    BY <1>2
  <2>2. \A i \in 1 .. Len(name) - 5 : name[i] \in STRING
    BY <1>2, <2>1
  <2> QED
    BY <1>2, <2>2, SubSeqProperties
<1> QED
  BY <1>1, <1>3 DEF Sanitized, name

\* A listed name leads to a suite that is listed under it.
LEMMA ListedHasTest ==
    ASSUME NEW name \in Listed
    PROVE  TestOf(name) \in DOMAIN Suites /\ Sanitized(Suites[TestOf(name)]) = name
<1> DEFINE N == Len(Suites)
           Named == {s \in DOMAIN Suites : Sanitized(Suites[s]) = name}
           Below == {N - s : s \in Named}
<1>1. N \in Nat /\ DOMAIN Suites = 1 .. N
  BY SuitesAssumption, LenProperties
<1> HIDE DEF N
<1>2. Named # {} /\ \A s \in Named : s \in 1 .. N
  BY <1>1 DEF Listed
<1>3. Below \in SUBSET Nat /\ Below # {}
  BY <1>1, <1>2
<1>4. PICK m \in Below : \A n \in Below : m <= n
  BY <1>3, LeastNumber
<1>5. PICK s \in Named : m = N - s
  BY <1>4
<1>6. \A u \in DOMAIN Suites : u > s => Sanitized(Suites[u]) # name
  <2> SUFFICES ASSUME NEW u \in DOMAIN Suites, u > s, Sanitized(Suites[u]) = name PROVE FALSE
    OBVIOUS
  <2>1. u \in Named /\ N - u \in Below
    OBVIOUS
  <2>2. N - s <= N - u
    BY <1>4, <1>5, <2>1
  <2> QED
    BY <1>1, <1>2, <2>1, <2>2
<1> QED
  BY <1>5, <1>6 DEF TestOf

\* A filter with the letters of a name matches it.
LEMMA MatchesItself ==
    ASSUME NEW f, NEW name \in Seq(STRING), Lowered(f) = Lowered(name)
    PROVE  Matches(f, name)
<1> DEFINE n == Len(name)
           low == Lowered(name)
<1>1. n \in Nat
  BY LenProperties
<1>2. low = [i \in 1 .. n |-> low[i]]
  BY DEF Lowered
<1> HIDE DEF n, low
<1>3. low \in Seq({low[i] : i \in 1 .. n}) /\ Len(low) = n
  BY <1>1, <1>2
<1>4. SubSeq(low, 0 + 1, n) = low /\ SubSeq(low, 1, n) = low
  BY <1>3, SubSeqFull
<1>5. IsPrefix(low, low)
  BY <1>1, <1>3 DEF IsPrefix
<1>6. Lowered(f) = low
  BY DEF low
<1>7. IsPrefix(Lowered(f), SubSeq(low, 0 + 1, n))
  BY <1>4, <1>5, <1>6
<1>8. 0 \in 0 .. n
  BY <1>1
<1> QED
  BY <1>7, <1>8 DEF Matches, n, low

\* How often a suite runs, for the filters that were typed before.
ChecksOK ==
    /\ Len(filters) \in Nat /\ DOMAIN filters = 1 .. Len(filters)
    /\ added = <<>> \/ added = [s \in DOMAIN Suites |-> IF filters = <<>> THEN 1 ELSE Times(s)]

\* The suites are chosen once, after the last filter.
LEMMA ChecksStay == Spec => []ChecksOK
<1>1. Init => ChecksOK
  BY DEF Init, ChecksInit, ChecksOK
<1>2. ChecksOK /\ [Next]_vars => ChecksOK'
  <2> SUFFICES ASSUME ChecksOK, [Next]_vars PROVE ChecksOK'
    OBVIOUS
  <2>1. CASE AddFilter
    <3>1. PICK f : filters' = Append(filters, f) /\ added' = <<>>
      BY <2>1 DEF AddFilter
    <3> QED
      BY <3>1 DEF ChecksOK
  <2>2. CASE RunChecks
    <3>1. /\ added' = [s \in DOMAIN Suites |-> IF filters = <<>> THEN 1 ELSE Times(s)]
          /\ filters' = filters
      BY <2>2 DEF RunChecks
    <3>2. \A s : Times(s)' = Times(s)
      BY <3>1 DEF Times
    <3> QED
      BY <3>1, <3>2 DEF ChecksOK
  <2>3. CASE UNCHANGED checks
    <3>1. filters' = filters /\ added' = added
      BY <2>3 DEF checks
    <3>2. \A s : Times(s)' = Times(s)
      BY <3>1 DEF Times
    <3> QED
      BY <3>1, <3>2 DEF ChecksOK
  <2> QED
    BY <2>1, <2>2, <2>3 DEF Next, UseDates, UseConversions, UseNames, UseEnvironment, UseEnumeration,
       UseChecks, UseTable, UsePipeline, ChecksNext, vars
<1> QED
  BY <1>1, <1>2, PTL DEF Spec

\* A name that is listed can be run with it.
LEMMA ListedAlwaysFound == ChecksOK => ListedIsFound
<1> SUFFICES ASSUME ChecksOK, added # <<>>, NEW name \in Listed, NEW i \in DOMAIN filters,
                    Lowered(filters[i]) = Lowered(name)
             PROVE  added[TestOf(name)] \in 1 .. Len(filters)
  BY DEF ListedIsFound
<1> DEFINE t == TestOf(name)
           N == Len(filters)
           Hit == {j \in DOMAIN filters : t = TestOf(Sanitized(Suites[t]))
                                          /\ Matches(filters[j], Sanitized(Suites[t]))}
<1>1. t \in DOMAIN Suites /\ Sanitized(Suites[t]) = name
  BY ListedHasTest
<1>2. N \in Nat /\ DOMAIN filters = 1 .. N /\ filters # <<>>
  BY DEF ChecksOK
<1>3. added[t] = Cardinality(Hit)
  BY <1>1, <1>2 DEF ChecksOK, Times
<1>4. i \in Hit
  <2>1. name \in Seq(STRING)
    BY <1>1, SanitizedName
  <2> QED
    BY <1>1, <2>1, MatchesItself
<1>5. Hit \in SUBSET (1 .. N)
  BY <1>2
<1> HIDE DEF t, N, Hit
<1>6. Cardinality(Hit) \in 1 .. N
  <2>1. IsFiniteSet(1 .. N) /\ Cardinality(1 .. N) = N
    BY <1>2, FS_Interval
  <2>2. IsFiniteSet(Hit) /\ Cardinality(Hit) <= N
    BY <1>5, <2>1, FS_Subset
  <2>3. Cardinality(Hit) \in Nat /\ Cardinality(Hit) # 0
    BY <1>4, <2>2, FS_CardinalityType, FS_EmptySet
  <2> QED
    BY <1>2, <2>2, <2>3
<1> QED
  BY <1>3, <1>6 DEF t, N

\* What is listed under a name is found by it, for all enumerations, threads,
\* suites and filters: of an enumeration, once one thread has filled the maps by
\* itself.
THEOREM NamesAlwaysFind == Spec => []NamesFind
<1>1. CoolOK /\ ChecksOK => NamesFind
  BY CoolAnswers, ListedAlwaysFound DEF NamesFind
<1> QED
  BY <1>1, LookupsStay, ChecksStay, PTL

-----------------------------------------------------------------------------
\* A timespec within the second.
IsTimespec(a) == a = [sec |-> a.sec, nsec |-> a.nsec] /\ a.sec \in Int /\ a.nsec \in 0 .. Second - 1

\* There is time in a second.
LEMMA SecondIsPositive == Second \in Nat \ {0}
  BY DEF Second

\* The fields of a sum.
LEMMA SumIs ==
    ASSUME NEW a, NEW b
    PROVE  /\ a.nsec + b.nsec >= Second =>
                  TsPlus(a, b) = [sec |-> a.sec + b.sec + 1, nsec |-> (a.nsec + b.nsec) - Second]
           /\ ~(a.nsec + b.nsec >= Second) =>
                  TsPlus(a, b) = [sec |-> a.sec + b.sec, nsec |-> a.nsec + b.nsec]
<1>1. ASSUME a.nsec + b.nsec >= Second
      PROVE  TsPlus(a, b) = [sec |-> a.sec + b.sec + 1, nsec |-> (a.nsec + b.nsec) - Second]
  BY <1>1 DEF TsPlus, Carries
<1>2. ASSUME ~(a.nsec + b.nsec >= Second)
      PROVE  TsPlus(a, b) = [sec |-> a.sec + b.sec, nsec |-> a.nsec + b.nsec]
  BY <1>2, Zenon DEF TsPlus, Carries
<1> QED
  BY <1>1, <1>2

\* A carry takes a sum back into the second, and a difference undoes it.
LEMMA SumOfTimespecs ==
    ASSUME NEW a, IsTimespec(a), NEW b, IsTimespec(b)
    PROVE  IsTimespec(TsPlus(a, b)) /\ IsTimespec(TsMinus(a, b)) /\ TsMinus(TsPlus(a, b), b) = a
<1> DEFINE s == TsPlus(a, b)
           d == TsMinus(a, b)
           carry == a.nsec + b.nsec >= Second
           borrow == a.nsec < b.nsec
           m == a.nsec
           n == b.nsec
           p == a.sec
           q == b.sec
           sn == IF carry THEN (m + n) - Second ELSE m + n
           ss == IF carry THEN p + q + 1 ELSE p + q
           dn == IF borrow THEN m + Second - n ELSE m - n
           ds == IF borrow THEN p - q - 1 ELSE p - q
<1>1. /\ m \in 0 .. Second - 1 /\ n \in 0 .. Second - 1 /\ p \in Int /\ q \in Int
      /\ a = [sec |-> p, nsec |-> m]
  BY DEF IsTimespec
<1>2. s = [sec |-> ss, nsec |-> sn]
  <2>1. CASE carry
    BY <2>1, SumIs
  <2>2. CASE ~carry
    BY <2>2, SumIs
  <2> QED
    BY <2>1, <2>2
<1>3. d = [sec |-> ds, nsec |-> dn]
  BY DEF TsMinus
<1>4. TsMinus(s, b) = IF s.nsec < n THEN [sec |-> s.sec - q - 1, nsec |-> s.nsec + Second - n]
                      ELSE [sec |-> s.sec - q, nsec |-> s.nsec - n]
  BY DEF TsMinus
<1>5. Second \in Nat
  BY SecondIsPositive
<1>6. /\ sn \in 0 .. Second - 1 /\ ss \in Int /\ dn \in 0 .. Second - 1 /\ ds \in Int
      /\ sn < n => ss - q - 1 = p /\ sn + Second - n = m
      /\ ~(sn < n) => ss - q = p /\ sn - n = m
  <2> HIDE DEF m, n, p, q
  <2>1. carry <=> m + n >= Second
    BY DEF m, n
  <2>2. borrow <=> m < n
    BY DEF m, n
  <2> HIDE DEF carry, borrow
  <2> QED
    BY <1>1, <1>5, <2>1, <2>2
<1> HIDE DEF s, d, m, n, p, q, sn, ss, dn, ds, carry, borrow
<1>7. s.sec = ss /\ s.nsec = sn /\ d.sec = ds /\ d.nsec = dn
  BY <1>2, <1>3
<1>8. TsMinus(s, b) = [sec |-> p, nsec |-> m]
  BY <1>4, <1>6, <1>7
<1> QED
  BY <1>1, <1>2, <1>3, <1>6, <1>7, <1>8 DEF IsTimespec, s, d

\* Sums keep the order of times.
LEMMA SumsInOrder ==
    ASSUME NEW a, IsTimespec(a), NEW b, IsTimespec(b), NEW c, IsTimespec(c)
    PROVE  /\ TsLess(b, c) <=> TsLess(TsPlus(a, b), TsPlus(a, c))
           /\ ~TsLess(c, b) <=> TsLessEq(TsPlus(a, b), TsPlus(a, c))
<1> DEFINE s == TsPlus(a, b)
           u == TsPlus(a, c)
<1>1. /\ a.nsec \in 0 .. Second - 1 /\ b.nsec \in 0 .. Second - 1 /\ c.nsec \in 0 .. Second - 1
      /\ a.sec \in Int /\ b.sec \in Int /\ c.sec \in Int /\ Second \in Nat
  BY SecondIsPositive DEF IsTimespec
<1>2. /\ a.nsec + b.nsec >= Second => s.sec = a.sec + b.sec + 1 /\ s.nsec = (a.nsec + b.nsec) - Second
      /\ ~(a.nsec + b.nsec >= Second) => s.sec = a.sec + b.sec /\ s.nsec = a.nsec + b.nsec
  BY SumIs
<1>3. /\ a.nsec + c.nsec >= Second => u.sec = a.sec + c.sec + 1 /\ u.nsec = (a.nsec + c.nsec) - Second
      /\ ~(a.nsec + c.nsec >= Second) => u.sec = a.sec + c.sec /\ u.nsec = a.nsec + c.nsec
  BY SumIs
<1> HIDE DEF s, u
<1>4. TsLess(b, c) <=> TsLess(s, u)
  BY <1>1, <1>2, <1>3 DEF TsLess
<1>5. ~TsLess(c, b) <=> TsLessEq(s, u)
  BY <1>1, <1>2, <1>3 DEF TsLess, TsLessEq, TsEq
<1> QED
  BY <1>4, <1>5 DEF s, u

\* Sums and differences of timespecs stay within the second, take each other
\* back and keep their order, for all intervals, and however many are added.
THEOREM TimespecsAddUp == Spec => []TimespecAddsUp
<1>1. Init => IsTimespec(ts)
  <2>1. 0 \in 0 .. Second - 1
    BY SecondIsPositive
  <2> QED
    BY <2>1 DEF Init, ConversionsInit, IsTimespec
<1>2. \A i \in Intervals : IsTimespec(i)
  BY IntervalsAssumption DEF IsTimespec
<1>3. IsTimespec(ts) /\ [Next]_vars => IsTimespec(ts')
  <2> SUFFICES ASSUME IsTimespec(ts), [Next]_vars PROVE IsTimespec(ts')
    OBVIOUS
  <2>1. CASE MoveTime
    <3>1. PICK i \in Intervals : ts' \in {TsPlus(ts, i), TsMinus(ts, i)}
      BY <2>1 DEF MoveTime
    <3> QED
      BY <1>2, <3>1, SumOfTimespecs
  <2>2. CASE UNCHANGED ts
    BY <2>2
  <2> QED
    BY <2>1, <2>2 DEF Next, UseDates, UseConversions, UseNames, UseEnvironment, UseEnumeration, UseChecks, UseTable, UsePipeline,
       MoreBytes, Type, NextNumeral, conversions, vars
<1>4. IsTimespec(ts) => TimespecAddsUp
  <2> SUFFICES ASSUME IsTimespec(ts) PROVE TimespecAddsUp
    OBVIOUS
  <2>1. ts.nsec \in 0 .. Second - 1
    BY DEF IsTimespec
  <2>2. ASSUME NEW i \in Intervals
        PROVE  /\ TsMinus(TsPlus(ts, i), i) = ts
               /\ \A j \in Intervals :
                      /\ TsLess(i, j) <=> TsLess(TsPlus(ts, i), TsPlus(ts, j))
                      /\ ~TsLess(j, i) <=> TsLessEq(TsPlus(ts, i), TsPlus(ts, j))
    BY <1>2, SumOfTimespecs, SumsInOrder
  <2> QED
    BY <2>1, <2>2 DEF TimespecAddsUp
<1>5. IsTimespec(ts)' <=> IsTimespec(ts')
  BY DEF IsTimespec
<1>6. IsTimespec(ts) /\ [Next]_vars => IsTimespec(ts)'
  BY <1>3, <1>5
<1> QED
  BY <1>1, <1>4, <1>6, PTL DEF Spec

-----------------------------------------------------------------------------
\* Tables.  The rows of n columns are counted, and a cell of one of them is
\* among the first k rows.
LEMMA Products ==
    ASSUME NEW n \in Nat, NEW a \in Nat, NEW b \in Nat, a <= b
    PROVE  n * a <= n * b /\ n * a \in Nat /\ n * b \in Nat /\ n * (a + 1) = n * a + n
<1>1. PICK d \in Nat : b = a + d
  <2>1. b - a \in Nat /\ b = a + (b - a)
    OBVIOUS
  <2> QED
    BY <2>1
<1>2. n * (a + d) = n * a + n * d /\ n * a \in Nat /\ n * d \in Nat
  OBVIOUS
<1>3. n * (a + 1) = n * a + n
  OBVIOUS
<1> QED
  BY <1>1, <1>2, <1>3

\* A table of k full rows has k rows.
LEMMA CountOfRows ==
    ASSUME NEW n \in Nat \ {0}, NEW k \in Nat
    PROVE  (n * k) \div n = k
  OBVIOUS

\* The index of a cell in row r is below those of the rows behind it.
LEMMA PlaceOfCell ==
    ASSUME NEW n \in Nat \ {0}, NEW c \in 0 .. n - 1, NEW r \in Nat
    PROVE  /\ r * n + c \in Nat /\ r * n = n * r
           /\ \A k \in Nat : r < k <=> r * n + c < n * k
<1>1. r * n = n * r /\ n * r \in Nat
  OBVIOUS
<1>2. ASSUME NEW k \in Nat, r < k PROVE r * n + c < n * k
  <2>1. n * (r + 1) <= n * k /\ n * (r + 1) = n * r + n
    BY <1>2, Products
  <2> HIDE <1>2
  <2>2. n * k \in Nat
    OBVIOUS
  <2> QED
    BY <1>1, <2>1, <2>2
<1>3. ASSUME NEW k \in Nat, k <= r PROVE ~(r * n + c < n * k)
  <2>1. n * k <= n * r
    BY <1>3, Products
  <2>2. n * k \in Nat
    OBVIOUS
  <2> QED
    BY <1>1, <2>1, <2>2
<1> QED
  BY <1>1, <1>2, <1>3

\* Two cells with one index are one cell.
LEMMA OnePlace ==
    ASSUME NEW n \in Nat \ {0}, NEW c \in 0 .. n - 1, NEW r \in Nat, NEW d \in 0 .. n - 1, NEW q \in Nat,
           r * n + c = q * n + d
    PROVE  c = d /\ r = q
<1>1. r * n + c < n * (r + 1) /\ q * n + d < n * (q + 1)
  BY PlaceOfCell
<1>2. ~(q < r) /\ ~(r < q)
  <2>1. ASSUME q < r PROVE FALSE
    <3>1. ~(r * n + c < n * (q + 1))
      BY <2>1, PlaceOfCell
    <3> QED
      BY <1>1, <3>1
  <2>2. ASSUME r < q PROVE FALSE
    <3>1. ~(q * n + d < n * (r + 1))
      BY <2>2, PlaceOfCell
    <3> QED
      BY <1>1, <3>1
  <2> QED
    BY <2>1, <2>2
<1>3. r = q
  BY <1>2
<1> QED
  BY <1>3

\* What the width can hold is not cut off.
LEMMA Within == ASSUME NEW w \in Nat \ {0}, NEW a \in Nat, a < w PROVE a % w = a
  OBVIOUS

\* A function on the first numbers is a sequence.
LEMMA SeqOfFunction ==
    ASSUME NEW S, NEW n \in Nat, NEW f, f \in [1 .. n -> S]
    PROVE  f \in Seq(S) /\ Len(f) = n
  OBVIOUS

-----------------------------------------------------------------------------
\* What is in a cell.  The provers do not know by themselves that these are
\* strings.
Letters == STRING \cup {"_", "q", "r", "n"}
Cells == Seq(Letters)

\* A table of k rows, whose cells the width of the code can count.
Whole(t, k) ==
    /\ t = [cols |-> t.cols, data |-> t.data, hdrs |-> t.hdrs]
    /\ t.cols \in Nat \ {0} /\ k \in Nat
    /\ t.data \in Seq(Cells) /\ Len(t.data) = t.cols * k /\ t.cols * k < Wide

\* The rows behind the first one.
LaterRows(t, k) == [r \in 1 .. k - 1 |-> [c \in 1 .. t.cols |-> CellAt(t, c - 1, r)]]

\* The number of rows, and where a cell is.
LEMMA RowsOfTable ==
    ASSUME NEW t, NEW k, Whole(t, k)
    PROVE  RowCount(t) = k
<1>1. t.cols \in Nat \ {0} /\ k \in Nat /\ Len(t.data) = t.cols * k /\ t.cols # 0
  BY DEF Whole
<1>2. (t.cols * k) \div t.cols = k
  BY <1>1, CountOfRows
<1> QED
  BY <1>1, <1>2 DEF RowCount

\* The index of a cell of a table of k rows is one of its data.
LEMMA IndexOfCell ==
    ASSUME NEW t, NEW k, Whole(t, k), NEW c \in 0 .. t.cols - 1, NEW r \in 0 .. k - 1
    PROVE  /\ Index(t, c, r) = r * t.cols + c /\ Index(t, c, r) + 1 \in 1 .. Len(t.data)
           /\ CellAt(t, c, r) = t.data[r * t.cols + c + 1] /\ CellAt(t, c, r) \in Cells
<1> DEFINE n == t.cols
           p == r * n + c
<1>1. n \in Nat \ {0} /\ k \in Nat /\ Len(t.data) = n * k /\ n * k \in Nat /\ n * k < Wide /\ Wide \in Nat \ {0}
  BY WidthAssumption DEF Whole
<1>2. p \in Nat /\ p < n * k
  <2>1. r \in Nat /\ r < k
    BY <1>1
  <2> QED
    BY <1>1, <2>1, PlaceOfCell
<1> HIDE DEF p, n
<1>3. p < Wide /\ p + 1 \in 1 .. Len(t.data)
  BY <1>1, <1>2
<1>4. p % Wide = p
  BY <1>1, <1>2, <1>3
<1>5. t.data[p + 1] \in Cells
  BY <1>3, ElementOfSeq DEF Whole
<1> QED
  BY <1>3, <1>4, <1>5 DEF p, n, Index, CellAt

\* rows(n) keeps the rows there are and adds empty ones.
LEMMA Resized ==
    ASSUME NEW t, NEW k, Whole(t, k), NEW n \in Nat, n * t.cols < Wide
    PROVE  LET s == SetRows(t, n)
           IN  /\ Whole(s, n) /\ s.cols = t.cols /\ s.hdrs = t.hdrs
               /\ \A c \in 0 .. t.cols - 1, r \in 0 .. n - 1 :
                      CellAt(s, c, r) = IF r < k THEN CellAt(t, c, r) ELSE <<>>
<1> DEFINE m == t.cols
           s == SetRows(t, n)
           d == [i \in 1 .. m * n |-> IF i <= Len(t.data) THEN t.data[i] ELSE <<>>]
<1>1. /\ m \in Nat \ {0} /\ k \in Nat /\ Len(t.data) = m * k /\ t.data \in Seq(Cells)
      /\ Wide \in Nat \ {0} /\ m * n = n * m /\ m * n \in Nat /\ m * k \in Nat
  BY WidthAssumption DEF Whole
<1>2. (m * n) % Wide = m * n
  BY <1>1, Within
<1>3. s = [cols |-> m, data |-> d, hdrs |-> t.hdrs]
  <2>1. s = [t EXCEPT !.data = d]
    BY <1>2 DEF SetRows
  <2>2. t = [cols |-> t.cols, data |-> t.data, hdrs |-> t.hdrs]
    BY DEF Whole
  <2> QED
    BY <2>1, <2>2
<1> HIDE DEF s
<1>4. d \in Seq(Cells) /\ Len(d) = m * n
  <2>1. \A i \in 1 .. m * n : d[i] \in Cells
    <3>1. <<>> \in Cells
      BY EmptySeq DEF Cells
    <3>2. \A i \in 1 .. Len(t.data) : t.data[i] \in Cells
      BY <1>1, ElementOfSeq
    <3> QED
      BY <1>1, <3>1, <3>2
  <2> HIDE DEF d
  <2>2. d = [i \in 1 .. m * n |-> d[i]]
    BY DEF d
  <2> QED
    <3>1. d \in [1 .. m * n -> Cells]
      BY <2>1, <2>2
    <3> HIDE DEF m
    <3> QED
      BY <1>1, <3>1, SeqOfFunction
<1>5. s.cols = m /\ s.data = d /\ s.hdrs = t.hdrs
  BY <1>3
<1>6. Whole(s, n)
  BY <1>1, <1>3, <1>4, <1>5 DEF Whole
<1>7. ASSUME NEW c \in 0 .. m - 1, NEW r \in 0 .. n - 1
      PROVE  CellAt(s, c, r) = IF r < k THEN CellAt(t, c, r) ELSE <<>>
  <2> DEFINE p == r * m + c
  <2>1. CellAt(s, c, r) = d[p + 1]
    <3>1. c \in 0 .. s.cols - 1 /\ p = r * s.cols + c
      BY <1>5
    <3>2. CellAt(s, c, r) = s.data[p + 1]
      BY <1>6, <3>1, IndexOfCell
    <3> QED
      BY <1>5, <3>2
  <2>2. p \in Nat /\ (r < k <=> p < m * k) /\ p < m * n
    <3>1. r \in Nat /\ r < n
      OBVIOUS
    <3> QED
      BY <1>1, <3>1, PlaceOfCell
  <2> HIDE DEF p
  <2>3. p + 1 \in 1 .. m * n /\ (r < k <=> p + 1 <= Len(t.data))
    BY <1>1, <2>2
  <2>4. r < k => CellAt(t, c, r) = t.data[p + 1]
    <3>1. r < k => r \in 0 .. k - 1
      BY <1>1
    <3> QED
      BY <3>1, IndexOfCell DEF p
  <2> QED
    BY <2>1, <2>3, <2>4
<1> QED
  BY <1>5, <1>6, <1>7 DEF s

\* A table grows to the row that is asked for, and one cell of it is set.
LEMMA CellIsSet ==
    ASSUME NEW t, NEW k, Whole(t, k), NEW c \in 0 .. t.cols - 1, NEW r \in Nat, (r + 1) * t.cols < Wide,
           NEW v \in Cells
    PROVE  LET s == SetCell(t, c, r, v)
               l == IF r < k THEN k ELSE r + 1
           IN  /\ Whole(s, l) /\ s.cols = t.cols /\ s.hdrs = t.hdrs
               /\ \A d \in 0 .. t.cols - 1, q \in 0 .. l - 1 :
                      CellAt(s, d, q) = IF d = c /\ q = r THEN v ELSE IF q < k THEN CellAt(t, d, q) ELSE <<>>
<1> DEFINE m == t.cols
           l == IF r < k THEN k ELSE r + 1
           g == Grown(t, r)
           p == r * m + c
           s == SetCell(t, c, r, v)
<1>1. /\ m \in Nat \ {0} /\ k \in Nat /\ Wide \in Nat \ {0} /\ l \in Nat /\ r < l
      /\ RowCount(t) = k
  BY WidthAssumption, RowsOfTable DEF Whole
<1>2. /\ Whole(g, l) /\ g.cols = m /\ g.hdrs = t.hdrs
      /\ \A d \in 0 .. m - 1, q \in 0 .. l - 1 : CellAt(g, d, q) = IF q < k THEN CellAt(t, d, q) ELSE <<>>
  <2>1. CASE r < k
    <3>1. g = t
      BY <1>1, <2>1 DEF Grown
    <3> QED
      BY <1>1, <2>1, <3>1
  <2>2. CASE ~(r < k)
    <3>1. r + 1 < Wide
      <4>1. (r + 1) * m = m * (r + 1) /\ m * (r + 1) = m * r + m /\ m * r \in Nat
        BY <1>1
      <4>2. m * r >= r
        <5>1. PICK e \in Nat : m = e + 1
          <6>1. m - 1 \in Nat /\ m = (m - 1) + 1
            BY <1>1
          <6> QED
            BY <6>1
        <5>2. (e + 1) * r = e * r + r /\ e * r \in Nat
          OBVIOUS
        <5> QED
          BY <5>1, <5>2
      <4> HIDE DEF m
      <4>3. m * r + m < Wide
        BY <4>1 DEF m
      <4> QED
        BY <1>1, <4>1, <4>2, <4>3
    <3>2. (r + 1) % Wide = r + 1
      BY <1>1, <3>1
    <3>3. g = SetRows(t, r + 1) /\ l = r + 1
      BY <1>1, <2>2, <3>2 DEF Grown
    <3>4. r + 1 \in Nat
      OBVIOUS
    <3> QED
      BY <3>3, <3>4, Resized
  <2> QED
    BY <2>1, <2>2
<1>3. r \in 0 .. l - 1
  BY <1>1
<1> HIDE DEF l, g
<1>4. Index(g, c, r) = p /\ p + 1 \in 1 .. Len(g.data) /\ c < g.cols /\ p \in Nat
  <2>1. c \in 0 .. g.cols - 1 /\ p = r * g.cols + c
    BY <1>2
  <2>2. Index(g, c, r) = p /\ p + 1 \in 1 .. Len(g.data)
    BY <1>2, <1>3, <2>1, IndexOfCell
  <2>3. p \in Nat
    BY <1>1, PlaceOfCell
  <2>4. c < g.cols
    <3> HIDE DEF p
    <3> QED
      BY <1>1, <1>2
  <2> QED
    BY <2>2, <2>3, <2>4
<1>5. s = [cols |-> m, data |-> [g.data EXCEPT ![p + 1] = v], hdrs |-> t.hdrs]
  <2>1. g.data \in Seq(Cells) /\ g = [cols |-> g.cols, data |-> g.data, hdrs |-> g.hdrs]
    BY <1>2 DEF Whole
  <2>2. Len(g.data) \in Nat
    BY <2>1, LenProperties
  <2>3. Reaches(g, c, r)
    BY <1>4, <2>2 DEF Reaches
  <2>4. s = [g EXCEPT !.data[p + 1] = v]
    BY <1>4, <2>3 DEF SetCell, g
  <2> QED
    BY <1>2, <2>1, <2>4
<1> DEFINE e == [g.data EXCEPT ![p + 1] = v]
<1>6. e \in Seq(Cells) /\ Len(e) = Len(g.data) /\ \A i \in 1 .. Len(e) : e[i] = IF i = p + 1 THEN v ELSE g.data[i]
  <2>1. g.data \in Seq(Cells)
    BY <1>2 DEF Whole
  <2> QED
    BY <1>4, <2>1, ExceptSeq
<1> HIDE DEF e, s
<1>7. s.cols = m /\ s.data = e /\ s.hdrs = t.hdrs /\ s = [cols |-> m, data |-> e, hdrs |-> t.hdrs]
  BY <1>5 DEF e
<1>8. Whole(s, l)
  <2>1. Len(g.data) = m * l /\ m * l < Wide /\ m \in Nat \ {0}
    BY <1>1, <1>2 DEF Whole
  <2> QED
    BY <1>1, <1>6, <1>7, <2>1 DEF Whole
<1>9. ASSUME NEW d \in 0 .. m - 1, NEW q \in 0 .. l - 1
      PROVE  CellAt(s, d, q) = IF d = c /\ q = r THEN v ELSE IF q < k THEN CellAt(t, d, q) ELSE <<>>
  <2> DEFINE i == q * m + d
  <2>1. CellAt(s, d, q) = e[i + 1] /\ i + 1 \in 1 .. Len(e)
    <3>1. Index(s, d, q) = i /\ Index(s, d, q) + 1 \in 1 .. Len(s.data) /\ CellAt(s, d, q) = s.data[i + 1]
      BY <1>7, <1>8, IndexOfCell
    <3> QED
      BY <1>7, <3>1
  <2>2. CellAt(g, d, q) = g.data[i + 1]
    BY <1>2, IndexOfCell
  <2>3. i = p <=> d = c /\ q = r
    <3>1. i = p => d = c /\ q = r
      <4>1. q \in Nat
        BY <1>1
      <4>2. q * m + d = r * m + c => d = c /\ q = r
        <5>1. c \in 0 .. m - 1 /\ d \in 0 .. m - 1 /\ m \in Nat \ {0} /\ r \in Nat /\ q \in Nat
          BY <1>1, <4>1
        <5> HIDE DEF m
        <5> QED
          BY <5>1, OnePlace
      <4> QED
        BY <4>2
    <3> QED
      BY <3>1
  <2>4. i \in Nat
    <3>1. q \in Nat
      BY <1>1
    <3> QED
      BY <1>1, <3>1, PlaceOfCell
  <2> HIDE DEF i, p
  <2>5. i + 1 = p + 1 <=> i = p
    BY <1>4, <2>4
  <2> QED
    BY <1>2, <1>6, <2>1, <2>2, <2>3, <2>5
<1> QED
  BY <1>7, <1>8, <1>9 DEF s, l

-----------------------------------------------------------------------------
\* A value that is carried through numbered steps: there is a function that has
\* its states.
StepsOf(f, N, S, a, F) ==
    f \in [0 .. N -> S] /\ f[0] = a /\ \A n \in 1 .. N : f[n] = F[<<n, f[n - 1]>>]

\* The states of N steps from a exist, whatever the step.
LEMMA Iterated ==
    ASSUME NEW N \in Nat, NEW S, NEW a \in S, NEW F \in [(1 .. N) \X S -> S]
    PROVE  \E f : StepsOf(f, N, S, a, F)
<1> DEFINE Fits(f, n) == f \in [0 .. n -> S] /\ f[0] = a /\ \A i \in 1 .. n : f[i] = F[<<i, f[i - 1]>>]
           T == {n \in Nat : n <= N => \E f : Fits(f, n)}
<1>1. \A n \in Nat : n \in T <=> (n <= N => \E f : Fits(f, n))
  OBVIOUS
<1> HIDE DEF T
<1>2. 0 \in T
  <2>1. Fits([i \in 0 .. 0 |-> a], 0)
    OBVIOUS
  <2> QED
    BY <1>1, <2>1
<1>3. ASSUME NEW n \in Nat, n \in T PROVE n + 1 \in T
  <2>1. SUFFICES ASSUME n + 1 <= N PROVE \E f : Fits(f, n + 1)
    <3>1. n + 1 \in Nat
      OBVIOUS
    <3> QED
      BY <1>1, <3>1
  <2>2. PICK f : Fits(f, n)
    <3>1. n <= N
      BY <2>1
    <3> QED
      BY <1>1, <1>3, <3>1
  <2> DEFINE b == F[<<n + 1, f[n]>>]
             g == [i \in 0 .. n + 1 |-> IF i = n + 1 THEN b ELSE f[i]]
  <2>3. b \in S
    <3>1. f[n] \in S /\ n + 1 \in 1 .. N
      BY <2>1, <2>2
    <3> QED
      BY <3>1
  <2> HIDE DEF b
  <2>4. \A i \in 0 .. n : g[i] = f[i] /\ f[i] \in S
    BY <2>2
  <2>5. g \in [0 .. n + 1 -> S] /\ g[0] = a /\ g[n + 1] = b
    BY <2>2, <2>3, <2>4
  <2> HIDE DEF g
  <2>6. ASSUME NEW i \in 1 .. n + 1 PROVE g[i] = F[<<i, g[i - 1]>>]
    <3>1. CASE i = n + 1
      <4>1. g[i - 1] = f[n]
        BY <2>4, <3>1
      <4> QED
        BY <2>5, <3>1, <4>1 DEF b
    <3>2. CASE i # n + 1
      <4>1. i \in 1 .. n /\ i - 1 \in 0 .. n /\ i \in 0 .. n
        BY <3>2
      <4>2. g[i] = f[i] /\ g[i - 1] = f[i - 1] /\ f[i] = F[<<i, f[i - 1]>>]
        BY <2>2, <2>4, <4>1
      <4> QED
        BY <4>2
    <3> QED
      BY <3>1, <3>2
  <2>7. Fits(g, n + 1)
    BY <2>5, <2>6
  <2> QED
    BY <2>7
<1>4. PICK f : Fits(f, N)
  <2>1. N \in T
    BY <1>2, <1>3, Induction
  <2> QED
    BY <1>1, <2>1
<1> QED
  BY <1>4 DEF StepsOf

-----------------------------------------------------------------------------
\* The names of the columns are finitely many, one for each column when they
\* are all different.
Different(t) == \A c, d \in 0 .. t.cols - 1 : CellAt(t, c, 0) = CellAt(t, d, 0) => c = d

\* Columns have no more names than there are columns, and as many if their first cells differ.
LEMMA NamesOfColumns ==
    ASSUME NEW t, NEW k, Whole(t, k), k > 0
    PROVE  /\ ColumnNames(t) \subseteq Cells /\ IsFiniteSet(ColumnNames(t))
           /\ Cardinality(ColumnNames(t)) \in Nat /\ Cardinality(ColumnNames(t)) <= t.cols
           /\ Different(t) => Cardinality(ColumnNames(t)) = t.cols
<1> DEFINE m == t.cols
           f == [c \in 0 .. m - 1 |-> CellAt(t, c, 0)]
<1>1. m \in Nat \ {0} /\ k \in Nat
  BY DEF Whole
<1>2. \A c \in 0 .. m - 1 : CellAt(t, c, 0) \in Cells
  <2>1. 0 \in 0 .. k - 1
    BY <1>1
  <2> QED
    BY <2>1, IndexOfCell
<1>3. f \in Surjection(0 .. m - 1, ColumnNames(t))
  <2>1. f \in [0 .. m - 1 -> ColumnNames(t)]
    BY DEF ColumnNames
  <2>2. \A x \in ColumnNames(t) : \E c \in 0 .. m - 1 : f[c] = x
    BY DEF ColumnNames
  <2> QED
    BY <2>1, <2>2 DEF Surjection
<1>4. IsFiniteSet(0 .. m - 1) /\ Cardinality(0 .. m - 1) = m
  <2>1. 0 \in Int /\ m - 1 \in Int /\ ~(0 > m - 1) /\ (m - 1) - 0 + 1 = m
    BY <1>1
  <2> HIDE DEF m
  <2> QED
    BY <2>1, FS_Interval
<1>5. Different(t) => f \in Injection(0 .. m - 1, ColumnNames(t))
  <2>1. SUFFICES ASSUME Different(t) PROVE f \in Injection(0 .. m - 1, ColumnNames(t))
    OBVIOUS
  <2>2. f \in [0 .. m - 1 -> ColumnNames(t)]
    BY DEF ColumnNames
  <2>3. \A c, d \in 0 .. m - 1 : f[c] = f[d] => c = d
    BY <2>1 DEF Different
  <2> HIDE DEF f
  <2> QED
    BY <2>2, <2>3 DEF Injection, IsInjective
<1> HIDE DEF f, m
<1>6. /\ IsFiniteSet(ColumnNames(t)) /\ Cardinality(ColumnNames(t)) <= m
      /\ Cardinality(ColumnNames(t)) = m <=> f \in Injection(0 .. m - 1, ColumnNames(t))
  BY <1>3, <1>4, FS_Surjection
<1>7. ColumnNames(t) \subseteq Cells
  BY <1>2 DEF ColumnNames, m
<1>8. Cardinality(ColumnNames(t)) \in Nat
  BY <1>6, FS_CardinalityType
<1> QED
  BY <1>5, <1>6, <1>7, <1>8 DEF m

\* What is put behind a name.
LEMMA Suffix ==
    ASSUME NEW a \in 0 .. MaxColumns - 1
    PROVE  /\ <<"_", ToString(a)>> \in Seq(Letters) /\ Len(<<"_", ToString(a)>>) = 2
           /\ <<"_", ToString(a)>>[2] = ToString(a)
<1>1. ToString(a) \in Letters
  BY NumeralsAssumption DEF Letters
<1>2. "_" \in Letters
  BY DEF Letters
<1>3. ASSUME NEW S, NEW x \in S, NEW y \in S PROVE <<x, y>> \in Seq(S) /\ Len(<<x, y>>) = 2 /\ <<x, y>>[2] = y
  OBVIOUS
<1> QED
  BY <1>1, <1>2, <1>3

\* The second character of what is put behind a name is found behind it.
LEMMA SecondOfSuffix ==
    ASSUME NEW name \in Seq(Letters), NEW z \in Seq(Letters), Len(z) = 2
    PROVE  (name \o z)[Len(name) + 2] = z[2]
<1>1. /\ Len(name) \in Nat
      /\ \A i \in 1 .. Len(name) + 2 : (name \o z)[i] = IF i <= Len(name) THEN name[i] ELSE z[i - Len(name)]
  <2>1. \A i \in 1 .. Len(name) + Len(z) : (name \o z)[i] = IF i <= Len(name) THEN name[i] ELSE z[i - Len(name)]
    BY ONLY ConcatProperties, name \in Seq(Letters), z \in Seq(Letters)
  <2>2. Len(name) \in Nat
    BY LenProperties
  <2> QED
    BY <2>1, <2>2
<1>2. ASSUME NEW n \in Nat PROVE n + 2 \in 1 .. n + 2 /\ ~(n + 2 <= n) /\ (n + 2) - n = 2
  OBVIOUS
<1> QED
  BY <1>1, <1>2

\* A name with a number differs from the one with another number.
LEMMA NumberedDiffer ==
    ASSUME NEW name \in Cells, NEW a \in 0 .. MaxColumns - 1, NEW b \in 0 .. MaxColumns - 1,
           name \o <<"_", ToString(a)>> = name \o <<"_", ToString(b)>>
    PROVE  a = b
<1> DEFINE x == <<"_", ToString(a)>>
           y == <<"_", ToString(b)>>
<1>1. x \in Seq(Letters) /\ y \in Seq(Letters) /\ Len(x) = 2 /\ Len(y) = 2 /\ x[2] = ToString(a) /\ y[2] = ToString(b)
  BY Suffix
<1>2. name \in Seq(Letters) /\ Len(name) \in Nat
  BY LenProperties DEF Cells
<1> HIDE DEF x, y
<1>3. (name \o x)[Len(name) + 2] = x[2] /\ (name \o y)[Len(name) + 2] = y[2]
  BY <1>1, <1>2, SecondOfSuffix
<1>4. name \o x = name \o y
  BY DEF x, y
<1>5. ToString(a) = ToString(b)
  BY <1>1, <1>3, <1>4
<1> QED
  BY <1>5, NumeralsAssumption

\* There is a new name as long as there are fewer columns than numbers.
LEMMA UniqueIsNew ==
    ASSUME NEW t, NEW k, Whole(t, k), k > 0, t.cols < MaxColumns, NEW name \in Cells
    PROVE  Unique(t, name) \in Cells /\ Unique(t, name) \notin ColumnNames(t)
<1> DEFINE A == 0 .. MaxColumns - 1
           N(a) == name \o <<"_", ToString(a)>>
           free == {a \in A : N(a) \notin ColumnNames(t)}
<1>1. MaxColumns \in Nat \ {0}
  BY WidthAssumption
<1>2. IsFiniteSet(A) /\ Cardinality(A) = MaxColumns
  <2>1. 0 \in Int /\ MaxColumns - 1 \in Int /\ ~(0 > MaxColumns - 1) /\ (MaxColumns - 1) - 0 + 1 = MaxColumns
    BY <1>1
  <2> QED
    BY <2>1, FS_Interval
<1>3. \A a \in A : N(a) \in Cells
  <2> TAKE a \in A
  <2>1. <<"_", ToString(a)>> \in Seq(Letters)
    BY Suffix
  <2> QED
    BY <2>1, ConcatProperties DEF Cells
<1>4. \A a, b \in A : N(a) = N(b) => a = b
  BY NumberedDiffer
<1> HIDE DEF N
<1>5. free # {}
  <2>1. SUFFICES ASSUME free = {} PROVE FALSE
    OBVIOUS
  <2> DEFINE f == [a \in A |-> N(a)]
  <2>2. f \in [A -> ColumnNames(t)]
    BY <2>1
  <2>3. t.cols \in Nat
    BY DEF Whole
  <2>4. IsFiniteSet(ColumnNames(t)) /\ Cardinality(ColumnNames(t)) < Cardinality(A)
    <3>1. IsFiniteSet(ColumnNames(t)) /\ Cardinality(ColumnNames(t)) \in Nat /\ Cardinality(ColumnNames(t)) <= t.cols
      BY NamesOfColumns
    <3> QED
      BY <1>1, <1>2, <2>3, <3>1
  <2>5. \A a, b \in A : f[a] = f[b] => a = b
    BY <1>4
  <2> HIDE DEF A, f
  <2> QED
    BY <1>2, <2>2, <2>4, <2>5, FS_PigeonHole
<1>6. PICK a \in free : \A b \in free : a <= b
  <2>1. free \in SUBSET Nat
    BY <1>1
  <2> HIDE DEF free
  <2> QED
    BY <1>5, <2>1, LeastNumber
<1> DEFINE least == CHOOSE x \in free : \A b \in free : x <= b
<1>7. least \in free
  BY <1>6
<1>8. Unique(t, name) = N(least)
  BY DEF Unique, N
<1> HIDE DEF least
<1> QED
  BY <1>3, <1>7, <1>8

-----------------------------------------------------------------------------
\* makeHeadersUnique_() gives one column another name, and makes no two names
\* the same.
LEMMA OneRow ==
    ASSUME NEW t, NEW k, Whole(t, k), k > 0
    PROVE  (0 + 1) * t.cols < Wide /\ 0 \in 0 .. k - 1 /\ t.cols \in Nat \ {0} /\ k \in Nat
<1>1. t.cols \in Nat \ {0} /\ k \in Nat /\ t.cols * k < Wide /\ Wide \in Nat
  BY WidthAssumption DEF Whole
<1> DEFINE m == t.cols
<1>2. m * 1 <= m * k /\ m * k \in Nat
  <2>1. 1 <= k
    BY <1>1
  <2> QED
    BY <1>1, <2>1, Products
<1>3. m * 1 = m /\ (0 + 1) * m = m
  BY <1>1
<1> QED
  BY <1>1, <1>2, <1>3

\* A column that is compared with a later one has another name in the end, and no other cell is touched.
LEMMA RenameStep ==
    ASSUME NEW t, NEW k, Whole(t, k), k > 0, t.cols < MaxColumns,
           NEW c \in 0 .. t.cols - 1, NEW d \in 0 .. t.cols - 1
    PROVE  LET s == Rename(t, c, d)
           IN  /\ Whole(s, k) /\ s.cols = t.cols /\ s.hdrs = t.hdrs
               /\ \A e \in 0 .. t.cols - 1, q \in 1 .. k - 1 : CellAt(s, e, q) = CellAt(t, e, q)
               /\ c < d => CellAt(s, c, 0) # CellAt(s, d, 0)
               /\ \A e, g \in 0 .. t.cols - 1 :
                      CellAt(t, e, 0) # CellAt(t, g, 0) => CellAt(s, e, 0) # CellAt(s, g, 0)
<1> DEFINE s == Rename(t, c, d)
           m == t.cols
           v == Unique(t, CellAt(t, d, 0))
<1>1. m \in Nat \ {0} /\ k \in Nat /\ 0 \in 0 .. k - 1
  BY OneRow
<1>2. CASE c < d /\ CellAt(t, c, 0) = CellAt(t, d, 0)
  <2>1. s = SetCell(t, d, 0, v)
    BY <1>2 DEF Rename
  <2>2. v \in Cells /\ v \notin ColumnNames(t)
    <3>1. CellAt(t, d, 0) \in Cells
      BY <1>1, IndexOfCell
    <3> QED
      BY <3>1, UniqueIsNew
  <2> HIDE DEF v
  <2>3. /\ Whole(s, k) /\ s.cols = m /\ s.hdrs = t.hdrs
        /\ \A e \in 0 .. m - 1, q \in 0 .. k - 1 :
               CellAt(s, e, q) = IF e = d /\ q = 0 THEN v ELSE IF q < k THEN CellAt(t, e, q) ELSE <<>>
    <3>1. 0 \in Nat /\ (0 + 1) * t.cols < Wide /\ 0 < k
      BY <1>1, OneRow
    <3> QED
      BY <2>1, <2>2, <3>1, CellIsSet
  <2> HIDE DEF s
  <2>4. \A e \in 0 .. m - 1, q \in 1 .. k - 1 : CellAt(s, e, q) = CellAt(t, e, q)
    <3>1. \A q \in 1 .. k - 1 : q \in 0 .. k - 1 /\ q # 0 /\ q < k
      BY <1>1
    <3> QED
      BY <2>3, <3>1
  <2>5. \A e \in 0 .. m - 1 : CellAt(s, e, 0) = IF e = d THEN v ELSE CellAt(t, e, 0)
    <3>1. 0 < k
      OBVIOUS
    <3> QED
      BY <1>1, <2>3, <3>1
  <2>6. \A e \in 0 .. m - 1 : CellAt(t, e, 0) # v
    BY <2>2 DEF ColumnNames
  <2>7. \A e, g \in 0 .. m - 1 : e = d => g = d \/ CellAt(s, e, 0) # CellAt(s, g, 0)
    BY <2>5, <2>6
  <2>8. c < d => CellAt(s, c, 0) # CellAt(s, d, 0)
    BY <2>7
  <2>9. \A e, g \in 0 .. m - 1 : CellAt(t, e, 0) # CellAt(t, g, 0) => CellAt(s, e, 0) # CellAt(s, g, 0)
    BY <2>5, <2>6
  <2> QED
    BY <2>3, <2>4, <2>8, <2>9 DEF s
<1>3. CASE ~(c < d /\ CellAt(t, c, 0) = CellAt(t, d, 0))
  <2>1. s = t
    BY <1>3 DEF Rename
  <2> QED
    BY <1>3, <2>1
<1> QED
  BY <1>2, <1>3

\* The pairs of columns are numbered.
LEMMA NumberOfPair ==
    ASSUME NEW n \in Nat \ {0}
    PROVE  /\ n * n \in Nat
           /\ \A i \in 1 .. n * n : (i - 1) \div n \in 0 .. n - 1 /\ (i - 1) % n \in 0 .. n - 1
           /\ \A c, d \in 0 .. n - 1 : /\ c * n + d + 1 \in 1 .. n * n
                                       /\ (c * n + d + 1 - 1) \div n = c /\ (c * n + d + 1 - 1) % n = d
<1>1. n * n \in Nat
  OBVIOUS
<1>2. ASSUME NEW i \in 1 .. n * n PROVE (i - 1) \div n \in 0 .. n - 1 /\ (i - 1) % n \in 0 .. n - 1
  <2> DEFINE a == i - 1
             q == a \div n
             e == a % n
  <2>1. a \in Nat /\ a < n * n
    BY <1>1
  <2> HIDE DEF a
  <2>2. q \in Nat /\ e \in 0 .. n - 1 /\ a = n * q + e
    BY <2>1
  <2> HIDE DEF q, e
  <2>3. q < n
    <3>1. SUFFICES ASSUME n <= q PROVE FALSE
      BY <2>2
    <3>2. n * n <= n * q
      BY <2>2, <3>1, Products
    <3>3. n * q \in Nat
      BY <2>2
    <3> QED
      BY <1>1, <2>1, <2>2, <3>2, <3>3
  <2> QED
    BY <2>2, <2>3 DEF a, q, e
<1>3. ASSUME NEW c \in 0 .. n - 1, NEW d \in 0 .. n - 1
      PROVE  /\ c * n + d + 1 \in 1 .. n * n
             /\ (c * n + d + 1 - 1) \div n = c /\ (c * n + d + 1 - 1) % n = d
  <2> DEFINE a == c * n + d
  <2>1. c \in Nat /\ c < n /\ n \in Nat \ {0}
    OBVIOUS
  <2>2. a \in Nat /\ a < n * n
    BY <2>1, PlaceOfCell
  <2>3. a \div n = c /\ a % n = d
    <3> DEFINE q == a \div n
               e == a % n
    <3> HIDE DEF a
    <3>1. q \in Nat /\ e \in 0 .. n - 1 /\ a = n * q + e
      BY <2>2
    <3> HIDE DEF q, e
    <3>2. q * n + e = c * n + d
      <4>1. q * n = n * q
        BY <3>1
      <4> QED
        BY <3>1, <4>1 DEF a
    <3>3. c = q /\ d = e
      BY <2>1, <3>1, <3>2, OnePlace
    <3> QED
      BY <3>3 DEF q, e
  <2>4. c * n + d + 1 = a + 1 /\ a + 1 \in 1 .. n * n /\ c * n + d + 1 - 1 = a
    BY <1>1, <2>2
  <2> HIDE DEF a
  <2> QED
    BY <2>3, <2>4
<1> QED
  BY <1>1, <1>2, <1>3

\* makeHeadersUnique_() makes the names of all columns different, and leaves the
\* rows behind the first one alone.
LEMMA HeadersUnique ==
    ASSUME NEW t, NEW k, Whole(t, k), k > 0, t.cols < MaxColumns
    PROVE  LET u == MakeHeadersUnique(t)
           IN  /\ Whole(u, k) /\ u.cols = t.cols /\ u.hdrs = t.hdrs
               /\ \A e \in 0 .. t.cols - 1, q \in 1 .. k - 1 : CellAt(u, e, q) = CellAt(t, e, q)
               /\ Different(u)
<1> DEFINE m == t.cols
           N == m * m
           Same(s) == /\ Whole(s, k) /\ s.cols = m /\ s.hdrs = t.hdrs
                      /\ \A e \in 0 .. m - 1, q \in 1 .. k - 1 : CellAt(s, e, q) = CellAt(t, e, q)
           S == {s \in [cols : {m}, data : Seq(Cells), hdrs : {t.hdrs}] : Same(s)}
           C(n) == (n - 1) \div m
           D(n) == (n - 1) % m
           Body(f) == [n \in 0 .. N |-> IF n = 0 THEN t ELSE Rename(f[n - 1], C(n), D(n))]
           F == [p \in (1 .. N) \X S |-> Rename(p[2], C(p[1]), D(p[1]))]
<1>1. m \in Nat \ {0} /\ k \in Nat /\ m < MaxColumns
  BY DEF Whole
<1>2. /\ N \in Nat
      /\ \A i \in 1 .. N : C(i) \in 0 .. m - 1 /\ D(i) \in 0 .. m - 1
      /\ \A c, d \in 0 .. m - 1 : c * m + d + 1 \in 1 .. N /\ C(c * m + d + 1) = c /\ D(c * m + d + 1) = d
  <2> HIDE DEF m
  <2>1. N \in Nat /\ \A i \in 1 .. N : C(i) \in 0 .. m - 1 /\ D(i) \in 0 .. m - 1
    BY <1>1, NumberOfPair
  <2>2. \A c, d \in 0 .. m - 1 : c * m + d + 1 \in 1 .. N /\ C(c * m + d + 1) = c /\ D(c * m + d + 1) = d
    BY <1>1, NumberOfPair
  <2> QED
    BY <2>1, <2>2
<1>3. \A s : s \in S <=> Same(s)
  <2>1. \A s : Same(s) => s \in [cols : {m}, data : Seq(Cells), hdrs : {t.hdrs}]
    BY DEF Whole
  <2> HIDE DEF Same
  <2> QED
    BY <2>1
<1> HIDE DEF S
<1>4. t \in S
  BY <1>3
<1> HIDE DEF C, D, N
<1>5. ASSUME NEW s \in S, NEW n \in 1 .. N
      PROVE  /\ Rename(s, C(n), D(n)) \in S
             /\ C(n) < D(n) => CellAt(Rename(s, C(n), D(n)), C(n), 0) # CellAt(Rename(s, C(n), D(n)), D(n), 0)
             /\ \A e, g \in 0 .. m - 1 : CellAt(s, e, 0) # CellAt(s, g, 0) =>
                    CellAt(Rename(s, C(n), D(n)), e, 0) # CellAt(Rename(s, C(n), D(n)), g, 0)
  <2>1. Same(s)
    BY <1>3
  <2>2. C(n) \in 0 .. m - 1 /\ D(n) \in 0 .. m - 1
    BY <1>2
  <2> DEFINE r == Rename(s, C(n), D(n))
  <2>3. /\ Whole(r, k) /\ r.cols = m /\ r.hdrs = t.hdrs
        /\ \A e \in 0 .. m - 1, q \in 1 .. k - 1 : CellAt(r, e, q) = CellAt(s, e, q)
        /\ C(n) < D(n) => CellAt(r, C(n), 0) # CellAt(r, D(n), 0)
        /\ \A e, g \in 0 .. m - 1 : CellAt(s, e, 0) # CellAt(s, g, 0) => CellAt(r, e, 0) # CellAt(r, g, 0)
    <3>1. Whole(s, k) /\ s.cols = m /\ s.cols < MaxColumns /\ s.hdrs = t.hdrs
      BY <1>1, <2>1
    <3> QED
      BY <2>2, <3>1, RenameStep
  <2> HIDE DEF r
  <2>4. Same(r)
    BY <2>1, <2>3
  <2> QED
    BY <1>3, <2>3, <2>4 DEF r
<1>6. PICK f : StepsOf(f, N, S, t, F)
  <2>1. F \in [(1 .. N) \X S -> S]
    <3>1. \A p \in (1 .. N) \X S : Rename(p[2], C(p[1]), D(p[1])) \in S
      BY <1>5
    <3> QED
      BY <3>1
  <2> HIDE DEF F
  <2> QED
    BY <1>2, <1>4, <2>1, Iterated
<1>a. f \in [0 .. N -> S] /\ f[0] = t /\ \A n \in 1 .. N : f[n] = F[<<n, f[n - 1]>>]
  BY <1>6 DEF StepsOf
<1>7. \A n \in 1 .. N : f[n] = Rename(f[n - 1], C(n), D(n)) /\ n - 1 \in 0 .. N /\ f[n - 1] \in S
  <2> TAKE n \in 1 .. N
  <2>1. n - 1 \in 0 .. N
    BY <1>2
  <2>2. f[n - 1] \in S
    BY <1>a, <2>1
  <2>3. f[n] = F[<<n, f[n - 1]>>] /\ <<n, f[n - 1]>> \in (1 .. N) \X S
    BY <1>a, <2>2
  <2> QED
    BY <2>1, <2>2, <2>3
<1> HIDE DEF F
<1>8. f = Body(f)
  <2>1. f = [n \in 0 .. N |-> f[n]]
    BY <1>a
  <2>2. \A n \in 0 .. N : f[n] = Body(f)[n]
    <3>1. \A n \in 0 .. N : n # 0 => n \in 1 .. N
      BY <1>2
    <3> QED
      BY <1>a, <1>7, <3>1
  <2> QED
    BY <2>1, <2>2
<1> DEFINE g == CHOOSE h : h = Body(h)
<1>9. g = Body(g)
  BY <1>8
<1>10. MakeHeadersUnique(t) = g[N]
  BY DEF MakeHeadersUnique, N, C, D
<1> HIDE DEF g
<1>11. g[0] = t /\ \A n \in 1 .. N : g[n] = Rename(g[n - 1], C(n), D(n))
  <2>1. \A n \in 0 .. N : g[n] = IF n = 0 THEN t ELSE Rename(g[n - 1], C(n), D(n))
    BY <1>9
  <2>2. 0 \in 0 .. N /\ \A n \in 1 .. N : n \in 0 .. N /\ n # 0
    BY <1>2
  <2> QED
    BY <2>1, <2>2
<1> DEFINE T == {n \in Nat : n <= N =>
                   /\ g[n] \in S
                   /\ \A i \in 1 .. n : C(i) < D(i) => CellAt(g[n], C(i), 0) # CellAt(g[n], D(i), 0)}
<1>12. \A n \in Nat : n \in T <=> (n <= N =>
                   /\ g[n] \in S
                   /\ \A i \in 1 .. n : C(i) < D(i) => CellAt(g[n], C(i), 0) # CellAt(g[n], D(i), 0))
  OBVIOUS
<1> HIDE DEF T
<1>13. 0 \in T
  BY <1>4, <1>11, <1>12
<1>14. ASSUME NEW n \in Nat, n \in T PROVE n + 1 \in T
  <2> DEFINE l == n + 1
  <2>1. l \in Nat /\ l - 1 = n /\ (l <= N => l \in 1 .. N /\ n <= N)
    BY <1>2
  <2> HIDE DEF l
  <2>2. SUFFICES ASSUME l <= N
        PROVE /\ g[l] \in S
              /\ \A i \in 1 .. l : C(i) < D(i) => CellAt(g[l], C(i), 0) # CellAt(g[l], D(i), 0)
    BY <1>12, <2>1 DEF l
  <2>3. /\ g[n] \in S
        /\ \A i \in 1 .. n : C(i) < D(i) => CellAt(g[n], C(i), 0) # CellAt(g[n], D(i), 0)
    BY <1>12, <1>14, <2>1, <2>2
  <2>4. g[l] = Rename(g[n], C(l), D(l))
    BY <1>11, <2>1, <2>2
  <2>5. /\ g[l] \in S
        /\ C(l) < D(l) => CellAt(g[l], C(l), 0) # CellAt(g[l], D(l), 0)
        /\ \A e, h \in 0 .. m - 1 : CellAt(g[n], e, 0) # CellAt(g[n], h, 0) => CellAt(g[l], e, 0) # CellAt(g[l], h, 0)
    BY <1>5, <2>1, <2>2, <2>3, <2>4
  <2>6. ASSUME NEW i \in 1 .. l, C(i) < D(i) PROVE CellAt(g[l], C(i), 0) # CellAt(g[l], D(i), 0)
    <3>1. CASE i = l
      BY <2>5, <2>6, <3>1
    <3>2. CASE i # l
      <4>1. i \in 1 .. n /\ i \in 1 .. N
        <5>1. i \in Nat /\ 1 <= i /\ i <= n
          BY <2>1, <3>2
        <5> QED
          BY <1>2, <2>1, <2>2, <5>1
      <4>2. C(i) \in 0 .. m - 1 /\ D(i) \in 0 .. m - 1
        BY <1>2, <4>1
      <4> QED
        BY <2>3, <2>5, <2>6, <4>1, <4>2
    <3> QED
      BY <3>1, <3>2
  <2> QED
    BY <2>5, <2>6
<1>15. N \in T /\ N <= N
  <2>1. Nat \subseteq T
    BY <1>13, <1>14, Induction
  <2> QED
    BY <1>2, <2>1
<1>16. Same(g[N])
  BY <1>2, <1>3, <1>12, <1>15
<1>17. Different(g[N])
  <2>1. ASSUME NEW c \in 0 .. m - 1, NEW d \in 0 .. m - 1, c < d PROVE CellAt(g[N], c, 0) # CellAt(g[N], d, 0)
    <3> DEFINE i == c * m + d + 1
    <3>1. i \in 1 .. N /\ C(i) = c /\ D(i) = d
      BY <1>2
    <3> HIDE DEF i
    <3> QED
      BY <1>2, <1>12, <1>15, <2>1, <3>1
  <2>2. \A c, d \in 0 .. m - 1 : c = d \/ c < d \/ d < c
    BY <1>1
  <2>3. g[N].cols = m
    BY <1>16
  <2> QED
    BY <2>1, <2>2, <2>3 DEF Different
<1> QED
  BY <1>10, <1>16, <1>17

-----------------------------------------------------------------------------
\* Other headers make no other rows.
LEMMA OtherHeaders ==
    ASSUME NEW t, NEW k, Whole(t, k), NEW h
    PROVE  LET u == [t EXCEPT !.hdrs = h]
           IN  /\ Whole(u, k) /\ u.cols = t.cols /\ u.hdrs = h
               /\ \A c, r : CellAt(u, c, r) = CellAt(t, c, r)
<1> DEFINE u == [t EXCEPT !.hdrs = h]
<1>1. t = [cols |-> t.cols, data |-> t.data, hdrs |-> t.hdrs]
  BY DEF Whole
<1>2. u = [cols |-> t.cols, data |-> t.data, hdrs |-> h]
  BY <1>1
<1> HIDE DEF u
<1>3. u.cols = t.cols /\ u.data = t.data /\ u.hdrs = h /\ u = [cols |-> u.cols, data |-> u.data, hdrs |-> u.hdrs]
  BY <1>2
<1> QED
  BY <1>3 DEF u, Whole, CellAt, Index

\* The headers lead to columns, and each to the one that has its name.
Leading(t) ==
    /\ t.hdrs \in [DOMAIN t.hdrs -> 0 .. t.cols - 1]
    /\ Cardinality(DOMAIN t.hdrs) = t.cols
    /\ \A n \in DOMAIN t.hdrs : CellAt(t, t.hdrs[n], 0) = n

\* readHeaders_() finds them, or has none, and leaves the rows behind the first
\* one alone.
LEMMA HeadersAreRead ==
    ASSUME NEW t, NEW k, Whole(t, k), k > 0, t.cols < MaxColumns
    PROVE  LET u == ReadHeaders(t)
           IN  /\ Whole(u, k) /\ u.cols = t.cols
               /\ \A e \in 0 .. t.cols - 1, q \in 1 .. k - 1 : CellAt(u, e, q) = CellAt(t, e, q)
               /\ u.hdrs = <<>> \/ Leading(u)
<1> DEFINE w == MakeHeadersUnique(t)
           column(n) == CHOOSE c \in 0 .. w.cols - 1 : CellAt(w, c, 0) = n
           h == IF <<>> \in ColumnNames(w) THEN <<>> ELSE [n \in ColumnNames(w) |-> column(n)]
           u == ReadHeaders(t)
<1>1. /\ Whole(w, k) /\ w.cols = t.cols
      /\ \A e \in 0 .. t.cols - 1, q \in 1 .. k - 1 : CellAt(w, e, q) = CellAt(t, e, q)
      /\ Different(w)
  BY HeadersUnique
<1> HIDE DEF w
<1>2. u = [w EXCEPT !.hdrs = h]
  BY DEF ReadHeaders, w
<1> HIDE DEF u, h
<1>3. Whole(u, k) /\ u.cols = w.cols /\ u.hdrs = h /\ \A c, r : CellAt(u, c, r) = CellAt(w, c, r)
  BY <1>1, <1>2, OtherHeaders
<1>4. Whole(u, k) /\ u.cols = t.cols
      /\ \A e \in 0 .. t.cols - 1, q \in 1 .. k - 1 : CellAt(u, e, q) = CellAt(t, e, q)
  BY <1>1, <1>3
<1>5. CASE <<>> \in ColumnNames(w)
  <2>1. u.hdrs = <<>>
    BY <1>3, <1>5 DEF h
  <2> QED
    BY <1>4, <2>1 DEF u
<1>6. CASE <<>> \notin ColumnNames(w)
  <2>1. h = [n \in ColumnNames(w) |-> column(n)] /\ DOMAIN h = ColumnNames(w)
    BY <1>6 DEF h
  <2>2. \A n \in ColumnNames(w) : column(n) \in 0 .. w.cols - 1 /\ CellAt(w, column(n), 0) = n
    BY DEF ColumnNames
  <2> HIDE DEF column
  <2>3. Cardinality(ColumnNames(w)) = w.cols
    BY <1>1, NamesOfColumns
  <2>4. \A n \in ColumnNames(w) : h[n] = column(n)
    BY <2>1
  <2>5. h \in [DOMAIN h -> 0 .. w.cols - 1]
    BY <2>1, <2>2
  <2>6. Leading(u)
    BY <1>3, <2>1, <2>2, <2>3, <2>4, <2>5 DEF Leading
  <2> QED
    BY <1>4, <2>6 DEF u
<1> QED
  BY <1>5, <1>6

\* Rows that are the same behind the first one.
LEMMA SameBehind ==
    ASSUME NEW t, NEW u, NEW k \in Nat, u.cols = t.cols,
           \A e \in 0 .. t.cols - 1, q \in 1 .. k - 1 : CellAt(u, e, q) = CellAt(t, e, q),
           t.cols \in Nat
    PROVE  LaterRows(u, k) = LaterRows(t, k)
<1>1. \A r \in 1 .. k - 1, c \in 1 .. t.cols : CellAt(u, c - 1, r) = CellAt(t, c - 1, r)
  <2>1. \A c \in 1 .. t.cols : c - 1 \in 0 .. t.cols - 1
    OBVIOUS
  <2> QED
    BY <2>1
<1> QED
  BY <1>1 DEF LaterRows

\* What the user expects is what is behind the first row, and the rest of the
\* rows of a table.
LEMMA TailOfRows ==
    ASSUME NEW t, NEW k, Whole(t, k), k > 0
    PROVE  Tail(RowsOf(t)) = LaterRows(t, k)
<1>1. RowCount(t) = k /\ k \in Nat /\ t.cols \in Nat
  BY RowsOfTable DEF Whole
<1> DEFINE R == [r \in 1 .. k |-> [c \in 1 .. t.cols |-> CellAt(t, c - 1, r - 1)]]
           E == UNION {[1 .. t.cols -> {CellAt(t, c, r) : c \in 0 .. t.cols, r \in 0 .. k}]}
<1>2. RowsOf(t) = R
  BY <1>1 DEF RowsOf
<1>3. R \in [1 .. k -> E]
  <2>1. \A r \in 1 .. k : R[r] \in E
    <3> TAKE r \in 1 .. k
    <3>1. r - 1 \in 0 .. k /\ \A c \in 1 .. t.cols : c - 1 \in 0 .. t.cols
      BY <1>1
    <3>2. R[r] = [c \in 1 .. t.cols |-> CellAt(t, c - 1, r - 1)]
      OBVIOUS
    <3> QED
      BY <3>1, <3>2
  <2> HIDE DEF E
  <2> QED
    BY <2>1
<1> HIDE DEF E
<1>4. R \in Seq(E) /\ Len(R) = k /\ R # <<>>
  <2>1. R \in Seq(E) /\ Len(R) = k
    BY <1>1, <1>3, SeqOfFunction
  <2> HIDE DEF R
  <2>2. Len(<<>>) = 0
    OBVIOUS
  <2> QED
    BY <1>1, <2>1, <2>2
<1>5. Tail(R) = [i \in 1 .. k - 1 |-> R[i + 1]]
  <2> HIDE DEF R
  <2>1. Tail(R) \in Seq(E) /\ Len(Tail(R)) = k - 1 /\ \A i \in 1 .. Len(Tail(R)) : Tail(R)[i] = R[i + 1]
    BY <1>4, HeadTailProperties
  <2>2. Tail(R) = [i \in 1 .. Len(Tail(R)) |-> Tail(R)[i]]
    <3>1. Tail(R) \in [1 .. Len(Tail(R)) -> E]
      BY <2>1, LenProperties
    <3> QED
      BY <3>1
  <2> QED
    BY <2>1, <2>2
<1>6. ASSUME NEW i \in 1 .. k - 1 PROVE R[i + 1] = [c \in 1 .. t.cols |-> CellAt(t, c - 1, i)]
  <2>1. i + 1 \in 1 .. k /\ (i + 1) - 1 = i
    BY <1>1
  <2> QED
    BY <2>1
<1> HIDE DEF R
<1> QED
  BY <1>2, <1>5, <1>6 DEF LaterRows

\* The rows behind the first one, one by one.
LEMMA RowsBehind ==
    ASSUME NEW t, NEW k, Whole(t, k), NEW n \in Nat, n = IF k = 0 THEN 0 ELSE k - 1
    PROVE  /\ LaterRows(t, k) = [r \in 1 .. n |-> [c \in 1 .. t.cols |-> CellAt(t, c - 1, r)]]
           /\ Len(LaterRows(t, k)) = n /\ (n = 0 => LaterRows(t, k) = <<>>)
<1> DEFINE row(r) == [c \in 1 .. t.cols |-> CellAt(t, c - 1, r)]
<1>1. k \in Nat /\ 1 .. k - 1 = 1 .. n
  BY DEF Whole
<1>2. LaterRows(t, k) = [r \in 1 .. n |-> row(r)]
  BY <1>1 DEF LaterRows
<1> HIDE DEF row
<1>3. Len(LaterRows(t, k)) = n /\ (n = 0 => LaterRows(t, k) = <<>>)
  BY <1>2
<1> QED
  BY <1>2, <1>3 DEF row

\* A cell that is set changes the rows behind the first one as the user expects.
LEMMA CellIsKept ==
    ASSUME NEW u, NEW k, Whole(u, k), u.cols = table.cols, want = LaterRows(u, k),
           NEW c \in 0 .. u.cols - 1, NEW r \in 0 .. k, (r + 1) * u.cols < Wide, NEW v \in Cells
    PROVE  LaterRows(SetCell(u, c, r, v), IF r < k THEN k ELSE r + 1) = IF r = 0 THEN want ELSE Expect(c, r, v)
<1> DEFINE s == SetCell(u, c, r, v)
           l == IF r < k THEN k ELSE r + 1
           m == u.cols
           row(q) == [d \in 1 .. m |-> CellAt(u, d - 1, q)]
           new(q) == [d \in 1 .. m |-> CellAt(s, d - 1, q)]
<1>1. k \in Nat /\ m \in Nat \ {0} /\ r \in Nat /\ l \in Nat \ {0} /\ r <= k
  BY DEF Whole
<1>2. /\ Whole(s, l) /\ s.cols = m
      /\ \A d \in 0 .. m - 1, q \in 0 .. l - 1 :
             CellAt(s, d, q) = IF d = c /\ q = r THEN v ELSE IF q < k THEN CellAt(u, d, q) ELSE <<>>
  BY <1>1, CellIsSet
<1> HIDE DEF s
<1>3. LaterRows(s, l) = [q \in 1 .. l - 1 |-> new(q)]
  <2>1. l - 1 \in Nat /\ l # 0
    BY <1>1
  <2> HIDE DEF l
  <2> QED
    BY <1>2, <2>1, RowsBehind
<1> DEFINE n == IF k = 0 THEN 0 ELSE k - 1
<1>4. n \in Nat /\ want = [q \in 1 .. n |-> row(q)] /\ Len(want) = n
  <2>1. n \in Nat
    BY <1>1
  <2> HIDE DEF n
  <2>2. n = IF k = 0 THEN 0 ELSE k - 1
    BY DEF n
  <2> QED
    BY <2>1, <2>2, RowsBehind
<1>5. \A d \in 1 .. m : d - 1 \in 0 .. m - 1 /\ (d - 1 = c <=> d = c + 1)
  BY <1>1
<1>6. ASSUME NEW q \in 1 .. l - 1
      PROVE  new(q) = IF q = r THEN [d \in 1 .. m |-> IF d = c + 1 THEN v ELSE IF q < k THEN CellAt(u, d - 1, q) ELSE <<>>]
                      ELSE IF q < k THEN row(q) ELSE [d \in 1 .. m |-> <<>>]
  <2>1. q \in 0 .. l - 1
    BY <1>1
  <2> HIDE DEF l
  <2>2. \A d \in 1 .. m : CellAt(s, d - 1, q) = IF d = c + 1 /\ q = r THEN v ELSE IF q < k THEN CellAt(u, d - 1, q) ELSE <<>>
    BY <1>2, <1>5, <2>1
  <2> QED
    BY <2>2
<1>7. CASE r = 0
  <2>1. l - 1 = n
    BY <1>1, <1>7
  <2>2. \A q \in 1 .. n : q \in 1 .. l - 1 /\ q # r /\ q < k
    BY <1>1, <1>7
  <2> HIDE DEF l, n, row, new
  <2>3. \A q \in 1 .. n : new(q) = row(q)
    BY <1>6, <2>2
  <2> QED
    BY <1>3, <1>4, <1>7, <2>1, <2>3 DEF l, s
<1>8. CASE r # 0
  <2> DEFINE rows == IF r > Len(want) THEN Sized(r) ELSE want
  <2>1. /\ n = k - 1 /\ k # 0 /\ (r > n => r = k /\ l - 1 = r) /\ (~(r > n) => r < k /\ l - 1 = n)
        /\ r \in 1 .. l - 1 /\ (\A q \in Nat : q <= n <=> q < k) /\ l - 1 \in Nat
    BY <1>1, <1>8
  <2> HIDE DEF l, n, row, new
  <2>2. rows = [q \in 1 .. l - 1 |-> IF q < k THEN row(q) ELSE EmptyRow]
    <3>1. CASE r > n
      <4>1. rows = [q \in 1 .. r |-> IF q <= n THEN want[q] ELSE EmptyRow]
        BY <1>4, <3>1 DEF Sized
      <4>2. \A q \in 1 .. r : q <= n => want[q] = row(q)
        BY <1>4
      <4>3. \A q \in 1 .. r : q <= n <=> q < k
        BY <2>1
      <4>4. l - 1 = r
        BY <2>1, <3>1
      <4> HIDE DEF rows
      <4> QED
        BY <4>1, <4>2, <4>3, <4>4
    <3>2. CASE ~(r > n)
      <4>1. rows = want
        BY <1>4, <3>2
      <4>2. \A q \in 1 .. n : q < k
        BY <2>1
      <4>3. l - 1 = n
        BY <2>1, <3>2
      <4> HIDE DEF rows
      <4> QED
        BY <1>4, <4>1, <4>2, <4>3
    <3> QED
      BY <3>1, <3>2
  <2>3. EmptyRow = [d \in 1 .. m |-> <<>>]
    BY DEF EmptyRow
  <2>4. Expect(c, r, v) = [rows EXCEPT ![r][c + 1] = v]
    BY DEF Expect
  <2> HIDE DEF rows
  <2>5. [rows EXCEPT ![r][c + 1] = v] = [q \in 1 .. l - 1 |-> IF q = r THEN [rows[r] EXCEPT ![c + 1] = v] ELSE rows[q]]
    BY <2>2
  <2>6. [rows[r] EXCEPT ![c + 1] = v] = new(r)
    <3>1. rows[r] = [d \in 1 .. m |-> IF r < k THEN CellAt(u, d - 1, r) ELSE <<>>]
      BY <2>1, <2>2, <2>3 DEF row
    <3>2. new(r) = [d \in 1 .. m |-> IF d = c + 1 THEN v ELSE IF r < k THEN CellAt(u, d - 1, r) ELSE <<>>]
      BY <1>6, <2>1
    <3> QED
      BY <3>1, <3>2
  <2>7. \A q \in 1 .. l - 1 : q # r => rows[q] = new(q)
    BY <1>6, <2>2, <2>3
  <2>8. Expect(c, r, v) = [q \in 1 .. l - 1 |-> new(q)]
    BY <2>4, <2>5, <2>6, <2>7
  <2> QED
    BY <1>3, <1>8, <2>8 DEF l, s
<1> QED
  BY <1>7, <1>8

\* So does a table of another number of rows.
LEMMA RowsAreKept ==
    ASSUME NEW k, Whole(table, k), want = LaterRows(table, k), NEW n \in 0 .. k + 1, n * table.cols < Wide
    PROVE  LaterRows(SetRows(table, n), n) = IF n = 0 THEN <<>> ELSE Sized(n - 1)
<1> DEFINE s == SetRows(table, n)
           m == table.cols
           row(q) == [d \in 1 .. m |-> CellAt(table, d - 1, q)]
           new(q) == [d \in 1 .. m |-> CellAt(s, d - 1, q)]
           j == IF k = 0 THEN 0 ELSE k - 1
           i == IF n = 0 THEN 0 ELSE n - 1
<1>1. k \in Nat /\ m \in Nat \ {0} /\ n \in Nat /\ j \in Nat /\ i \in Nat
  BY DEF Whole
<1>2. /\ Whole(s, n) /\ s.cols = m
      /\ \A d \in 0 .. m - 1, q \in 0 .. n - 1 : CellAt(s, d, q) = IF q < k THEN CellAt(table, d, q) ELSE <<>>
  BY <1>1, Resized
<1> HIDE DEF s
<1>3. j = (IF k = 0 THEN 0 ELSE k - 1) /\ i = (IF n = 0 THEN 0 ELSE n - 1)
  OBVIOUS
<1>4. LaterRows(s, n) = [q \in 1 .. i |-> new(q)] /\ (i = 0 => LaterRows(s, n) = <<>>)
  <2> HIDE DEF i
  <2> QED
    BY <1>1, <1>2, <1>3, RowsBehind
<1>5. want = [q \in 1 .. j |-> row(q)] /\ Len(want) = j
  <2> HIDE DEF j
  <2> QED
    BY <1>1, <1>3, RowsBehind
<1>6. CASE n = 0
  BY <1>4, <1>6 DEF s
<1>7. CASE n # 0
  <2>1. i = n - 1 /\ \A q \in 1 .. i : q \in 0 .. n - 1 /\ (q <= j <=> q < k)
    BY <1>1, <1>7
  <2>2. \A d \in 1 .. m : d - 1 \in 0 .. m - 1
    BY <1>1
  <2> HIDE DEF i, j
  <2>3. \A q \in 1 .. i : new(q) = IF q <= j THEN row(q) ELSE EmptyRow
    <3> TAKE q \in 1 .. i
    <3>1. \A d \in 1 .. m : CellAt(s, d - 1, q) = IF q < k THEN CellAt(table, d - 1, q) ELSE <<>>
      BY <1>2, <2>1, <2>2
    <3> QED
      BY <2>1, <3>1 DEF EmptyRow
  <2> HIDE DEF row, new
  <2>4. \A q \in 1 .. i : q <= j => want[q] = row(q)
    <3>1. \A q \in 1 .. i : q <= j => q \in 1 .. j
      BY <1>1
    <3> QED
      BY <1>5, <3>1
  <2>5. Sized(n - 1) = [q \in 1 .. i |-> new(q)]
    BY <1>5, <2>1, <2>3, <2>4 DEF Sized
  <2> QED
    BY <1>4, <1>7, <2>5 DEF s
<1> QED
  BY <1>6, <1>7

\* The first record makes a table of one row, which has its fields.
LEMMA FirstRowIsWhole ==
    ASSUME NEW h \in Seq(Cells), Len(h) > 0, Len(h) < Wide
    PROVE  LET t == FirstRow(NewTable, h)
           IN  /\ Whole(t, 1) /\ t.cols = Len(h) /\ t.hdrs = <<>>
               /\ \A d \in 0 .. Len(h) - 1 : CellAt(t, d, 0) = h[d + 1]
<1> DEFINE N == Len(h)
           a == SetColumns(NewTable, N)
           Good(s, k) == Whole(s, k) /\ s.cols = N /\ s.hdrs = <<>>
           S == {s \in [cols : {N}, data : Seq(Cells), hdrs : {<<>>}] : Good(s, 0) \/ Good(s, 1)}
           Body(f) == [c \in 0 .. N |-> IF c = 0 THEN a ELSE SetCell(f[c - 1], c - 1, 0, h[c])]
           F == [p \in (1 .. N) \X S |-> SetCell(p[2], p[1] - 1, 0, h[p[1]])]
<1>1. N \in Nat \ {0} /\ N < Wide /\ Wide \in Nat
  BY WidthAssumption, LenProperties
<1>2. \A s : s \in S <=> Good(s, 0) \/ Good(s, 1)
  <2>1. \A s : Good(s, 0) \/ Good(s, 1) => s \in [cols : {N}, data : Seq(Cells), hdrs : {<<>>}]
    BY DEF Whole
  <2> HIDE DEF Good
  <2> QED
    BY <2>1
<1> HIDE DEF S
<1>3. \A c \in 1 .. N : h[c] \in Cells
  BY ElementOfSeq
<1> HIDE DEF N
<1>4. a \in S
  <2>1. a = [cols |-> N, data |-> <<>>, hdrs |-> <<>>]
    BY DEF SetColumns, NewTable
  <2>2. <<>> \in Seq(Cells) /\ Len(<<>>) = 0 /\ N * 0 = 0 /\ 0 < Wide
    BY <1>1
  <2> HIDE DEF a
  <2>3. a.cols = N /\ a.data = <<>> /\ a.hdrs = <<>>
    BY <2>1
  <2>4. Good(a, 0)
    BY <1>1, <2>1, <2>2, <2>3 DEF Whole
  <2> QED
    BY <1>2, <2>4
<1>5. ASSUME NEW s \in S, NEW c \in 1 .. N
      PROVE  /\ Good(SetCell(s, c - 1, 0, h[c]), 1) /\ CellAt(SetCell(s, c - 1, 0, h[c]), c - 1, 0) = h[c]
             /\ Good(s, 1) => \A d \in 0 .. c - 2 : CellAt(SetCell(s, c - 1, 0, h[c]), d, 0) = CellAt(s, d, 0)
  <2>1. PICK k \in {0, 1} : Good(s, k)
    BY <1>2
  <2>2. /\ Whole(s, k) /\ s.cols = N /\ s.hdrs = <<>>
        /\ c - 1 \in 0 .. s.cols - 1 /\ 0 \in Nat /\ (0 + 1) * s.cols < Wide /\ h[c] \in Cells
    BY <1>1, <1>3, <2>1
  <2> DEFINE r == SetCell(s, c - 1, 0, h[c])
             l == IF 0 < k THEN k ELSE 0 + 1
  <2>3. /\ Whole(r, l) /\ r.cols = s.cols /\ r.hdrs = s.hdrs
        /\ \A d \in 0 .. s.cols - 1, q \in 0 .. l - 1 :
               CellAt(r, d, q) = IF d = c - 1 /\ q = 0 THEN h[c] ELSE IF q < k THEN CellAt(s, d, q) ELSE <<>>
    BY <2>2, CellIsSet
  <2>4. l = 1 /\ 0 \in 0 .. 1 - 1
    BY <2>1
  <2> HIDE DEF r, l
  <2>5. CellAt(r, c - 1, 0) = h[c]
    BY <2>2, <2>3, <2>4
  <2>6. ASSUME Good(s, 1), NEW d \in 0 .. c - 2 PROVE CellAt(r, d, 0) = CellAt(s, d, 0)
    <3>1. k = 1
      <4>1. Whole(s, 1)
        BY <2>6
      <4> QED
        BY <2>2, <4>1, RowsOfTable
    <3>2. d \in 0 .. s.cols - 1 /\ d # c - 1
      BY <1>1, <2>2
    <3> QED
      BY <2>3, <2>4, <3>1, <3>2
  <2> QED
    BY <2>2, <2>3, <2>4, <2>5, <2>6 DEF r
<1> HIDE DEF Good, a
<1>6. PICK f : StepsOf(f, N, S, a, F)
  <2>1. F \in [(1 .. N) \X S -> S]
    <3>1. \A p \in (1 .. N) \X S : SetCell(p[2], p[1] - 1, 0, h[p[1]]) \in S
      BY <1>2, <1>5
    <3> QED
      BY <3>1
  <2> HIDE DEF F
  <2> QED
    BY <1>1, <1>4, <2>1, Iterated
<1>7. f \in [0 .. N -> S] /\ f[0] = a /\ \A n \in 1 .. N : f[n] = F[<<n, f[n - 1]>>]
  BY <1>6 DEF StepsOf
<1>8. \A n \in 1 .. N : f[n] = SetCell(f[n - 1], n - 1, 0, h[n])
  <2> TAKE n \in 1 .. N
  <2>1. n - 1 \in 0 .. N
    BY <1>1
  <2>2. f[n - 1] \in S
    BY <1>7, <2>1
  <2>3. f[n] = F[<<n, f[n - 1]>>] /\ <<n, f[n - 1]>> \in (1 .. N) \X S
    BY <1>7, <2>2
  <2> QED
    BY <2>3
<1> HIDE DEF F
<1>9. f = Body(f)
  <2>1. f = [n \in 0 .. N |-> f[n]]
    BY <1>7
  <2>2. \A n \in 0 .. N : f[n] = Body(f)[n]
    <3>1. \A n \in 0 .. N : n # 0 => n \in 1 .. N
      BY <1>1
    <3> QED
      BY <1>7, <1>8, <3>1
  <2> QED
    BY <2>1, <2>2
<1> DEFINE g == CHOOSE e : e = Body(e)
<1>10. g = Body(g)
  BY <1>9
<1>11. FirstRow(NewTable, h) = g[N]
  BY DEF FirstRow, N, a
<1> HIDE DEF g
<1>12. g[0] = a /\ \A n \in 1 .. N : g[n] = SetCell(g[n - 1], n - 1, 0, h[n])
  <2>1. \A n \in 0 .. N : g[n] = IF n = 0 THEN a ELSE SetCell(g[n - 1], n - 1, 0, h[n])
    BY <1>10
  <2>2. 0 \in 0 .. N /\ \A n \in 1 .. N : n \in 0 .. N /\ n # 0
    BY <1>1
  <2> QED
    BY <2>1, <2>2
<1> DEFINE Laid(n) == /\ g[n] \in S /\ (n > 0 => Good(g[n], 1))
                         /\ \A d \in 0 .. n - 1 : CellAt(g[n], d, 0) = h[d + 1]
           T == {n \in Nat : n <= N => Laid(n)}
<1>13. \A n \in Nat : n \in T <=> (n <= N => Laid(n))
  OBVIOUS
<1> HIDE DEF T
<1>14. 0 \in T
  BY <1>4, <1>12, <1>13
<1>15. ASSUME NEW n \in Nat, n \in T PROVE n + 1 \in T
  <2>1. n + 1 \in Nat /\ (n + 1) - 1 = n /\ (n + 1 <= N => n + 1 \in 1 .. N /\ n <= N) /\ (n + 1) - 2 = n - 1
    BY <1>1
  <2>2. ASSUME n + 1 <= N PROVE Laid(n + 1)
    <3> DEFINE l == n + 1
    <3>1. Laid(n) /\ l \in 1 .. N
      BY <1>13, <1>15, <2>1, <2>2
    <3>2. g[l] = SetCell(g[n], l - 1, 0, h[l]) /\ l - 1 = n /\ l - 2 = n - 1
      BY <1>12, <2>1, <3>1
    <3>3. l > 0 /\ l \in Nat /\ \A d \in 0 .. l - 1 : d = n \/ (d \in 0 .. n - 1 /\ n > 0)
      OBVIOUS
    <3> HIDE DEF l
    <3>4. /\ Good(g[l], 1) /\ CellAt(g[l], n, 0) = h[l]
          /\ Good(g[n], 1) => \A d \in 0 .. n - 1 : CellAt(g[l], d, 0) = CellAt(g[n], d, 0)
      <4> DEFINE r == SetCell(g[n], l - 1, 0, h[l])
      <4>1. /\ Good(r, 1) /\ CellAt(r, l - 1, 0) = h[l]
            /\ Good(g[n], 1) => \A d \in 0 .. l - 2 : CellAt(r, d, 0) = CellAt(g[n], d, 0)
        BY <1>5, <3>1
      <4> QED
        BY <3>2, <4>1
    <3>5. g[l] \in S
      BY <1>2, <3>4
    <3>6. \A d \in 0 .. l - 1 : CellAt(g[l], d, 0) = h[d + 1]
      BY <3>1, <3>3, <3>4 DEF l
    <3> QED
      BY <3>3, <3>4, <3>5, <3>6 DEF l
  <2> HIDE DEF Laid
  <2> QED
    BY <1>13, <2>1, <2>2
<1>16. N \in T /\ N > 0 /\ N <= N
  <2>1. Nat \subseteq T
    BY <1>14, <1>15, Induction
  <2> QED
    BY <1>1, <2>1
<1>17. Good(g[N], 1) /\ \A d \in 0 .. N - 1 : CellAt(g[N], d, 0) = h[d + 1]
  BY <1>1, <1>13, <1>16
<1> QED
  BY <1>11, <1>17 DEF Good, N

-----------------------------------------------------------------------------
\* What the reader keeps to: before the first record the table is new, and then
\* it has rows and as many columns as the record had fields.  As long as it
\* reads, its fields and its rows are not more than the characters it has read.
ReaderStates == [
    tab : [cols : Nat, data : Seq(Cells), hdrs : {<<>>}], h : Seq(Cells),
    heading : BOOLEAN, quoted : BOOLEAN, f : Cells, col : Nat, row : Nat,
    last : {"startOfRecord", "fieldData", "endQuote", "separator"},
    pos : Nat \ {0}, good : BOOLEAN, error : BOOLEAN]

Filled(t) == \E k \in Nat \ {0} : Whole(t, k) /\ t.hdrs = <<>> /\ t.cols < MaxColumns

Made(st) == IF st.heading THEN st.tab = NewTable ELSE Filled(st.tab)

Bounded(file, st, p) ==
    IF st.heading THEN Len(st.h) <= p
    ELSE st.row <= p /\ st.col < st.tab.cols /\ st.tab.cols <= Len(file) + 1

ReaderOK(file, st) ==
    /\ st \in ReaderStates /\ Made(st)
    /\ st.good /\ ~st.error => Bounded(file, st, st.pos - 1) /\ st.pos <= Len(file) + 1

Between(file, st) ==
    /\ st \in ReaderStates /\ Made(st) /\ Bounded(file, st, st.pos) /\ st.pos <= Len(file) + 1

\* What the reader keeps to is not disturbed by the characters it reads.
LEMMA ReaderGoesOn ==
    ASSUME NEW file \in Seq(STRING), NEW st, Between(file, st), NEW n \in {1, 2}, NEW peeked,
           n = 2 => st.pos + 1 <= Len(file)
    PROVE  ReaderOK(file, Continue(file, st, n, peeked))
<1> DEFINE s == Continue(file, st, n, peeked)
<1>1. Len(file) \in Nat /\ st \in ReaderStates /\ st.pos \in Nat \ {0}
  BY LenProperties DEF Between, ReaderStates
<1>2. /\ s \in ReaderStates /\ s.tab = st.tab /\ s.h = st.h /\ s.heading = st.heading /\ s.col = st.col
      /\ s.row = st.row /\ s.pos = st.pos + n /\ (s.good => st.pos <= Len(file))
  <2> DEFINE g == st.pos <= Len(file) /\ ~(peeked /\ st.pos = Len(file))
             p == st.pos + n
  <2>1. s = [st EXCEPT !.pos = p, !.good = g]
    BY DEF Continue
  <2>2. g \in BOOLEAN /\ (g => st.pos <= Len(file)) /\ p \in Nat \ {0}
    BY <1>1
  <2> HIDE DEF g, s
  <2>3. p = st.pos + n
    OBVIOUS
  <2> HIDE DEF p
  <2> QED
    BY <1>1, <2>1, <2>2, <2>3 DEF ReaderStates
<1> HIDE DEF s
<1>3. Made(s)
  BY <1>2 DEF Between, Made
<1>4. ASSUME s.good PROVE Bounded(file, s, s.pos - 1) /\ s.pos <= Len(file) + 1
  <2>1. /\ s.row \in Nat /\ Len(s.h) \in Nat /\ st.pos <= s.pos - 1 /\ s.pos - 1 \in Nat
    BY <1>1, <1>2, LenProperties DEF ReaderStates
  <2>2. s.pos <= Len(file) + 1
    BY <1>1, <1>2, <1>4
  <2> QED
    BY <1>1, <1>2, <2>1, <2>2 DEF Between, Bounded
<1> QED
  BY <1>2, <1>3, <1>4 DEF s, ReaderOK

\* The same, for the numbers of characters it reads.
LEMMA ReaderGoesOnBy ==
    ASSUME NEW file \in Seq(STRING), NEW st, Between(file, st)
    PROVE  /\ ReaderOK(file, Continue(file, st, 1, FALSE)) /\ ReaderOK(file, Continue(file, st, 1, TRUE))
           /\ st.pos + 1 <= Len(file) => ReaderOK(file, Continue(file, st, 2, FALSE))
<1>1. \A peeked : ReaderOK(file, Continue(file, st, 1, peeked))
  BY ReaderGoesOn
<1>2. st.pos + 1 <= Len(file) => \A peeked : ReaderOK(file, Continue(file, st, 2, peeked))
  BY ReaderGoesOn
<1> QED
  BY <1>1, <1>2, Zenon

\* What has been read so far is short enough.
LEMMA ReadingIsBetween ==
    ASSUME NEW file \in Seq(STRING), NEW st, ReaderOK(file, st), st.good, ~st.error
    PROVE  Between(file, st) /\ Bounded(file, st, st.pos - 1)
<1>1. st \in ReaderStates /\ Made(st) /\ Bounded(file, st, st.pos - 1) /\ st.pos <= Len(file) + 1
  BY DEF ReaderOK
<1>2. st.pos \in Nat /\ st.row \in Nat /\ Len(st.h) \in Nat
  BY <1>1, LenProperties DEF ReaderStates
<1>3. Bounded(file, st, st.pos)
  BY <1>1, <1>2 DEF Bounded
<1> QED
  BY <1>1, <1>3 DEF Between

\* A character that is read is one of the file, and may become part of a cell.
LEMMA CharacterOfFile ==
    ASSUME NEW file \in Seq(STRING), NEW i \in Nat \ {0}, At(file, i) # "end"
    PROVE  i <= Len(file) /\ <<At(file, i)>> \in Cells
<1>1. i <= Len(file)
  BY DEF At
<1>2. file[i] \in STRING
  BY <1>1, ElementOfSeq, LenProperties
<1>3. At(file, i) \in Letters
  BY <1>1, <1>2 DEF At, Letters
<1>4. ASSUME NEW S, NEW x \in S PROVE <<x>> \in Seq(S)
  OBVIOUS
<1> QED
  BY <1>1, <1>3, <1>4 DEF Cells

\* A field that grows is still a cell.
LEMMA FieldIsPushed ==
    ASSUME NEW file \in Seq(STRING), NEW st, Between(file, st), NEW x \in Cells
    PROVE  Between(file, Push(st, x)) /\ Push(st, x).pos = st.pos
<1> DEFINE s == Push(st, x)
           y == st.f \o x
<1>1. st \in ReaderStates
  BY DEF Between
<1>2. y \in Cells
  <2>1. st.f \in Cells
    BY <1>1 DEF ReaderStates
  <2> QED
    BY <2>1, ConcatProperties DEF Cells
<1>3. s = [st EXCEPT !.f = y, !.last = "fieldData"]
  BY DEF Push
<1> HIDE DEF s, y
<1>4. /\ s \in ReaderStates /\ s.tab = st.tab /\ s.h = st.h /\ s.heading = st.heading /\ s.col = st.col
      /\ s.row = st.row /\ s.pos = st.pos
  BY <1>1, <1>2, <1>3 DEF ReaderStates
<1> QED
  BY <1>4 DEF s, Between, Made, Bounded

\* Products grow with their factors.
LEMMA CellCounts ==
    ASSUME NEW n \in Nat, NEW a \in Nat, NEW b \in Nat, a <= n, b <= n
    PROVE  a * b <= n * n /\ a * b \in Nat
<1>1. n * b <= n * n /\ n * b \in Nat /\ n * n \in Nat
  BY Products
<1>2. b * a <= b * n /\ b * a \in Nat /\ b * n \in Nat
  BY Products
<1>3. a * b = b * a /\ n * b = b * n
  OBVIOUS
<1> QED
  BY <1>1, <1>2, <1>3

\* The end of a field makes a field of the header or sets a cell of the table.
LEMMA FieldIsReady ==
    ASSUME NEW file \in Seq(STRING), (Len(file) + 1) * (Len(file) + 1) < Wide,
           NEW st, ReaderOK(file, st), st.good, ~st.error
    PROVE  LET s == FieldReady(st)
           IN  /\ Between(file, s) /\ s.pos = st.pos /\ s.heading = st.heading /\ s.row = st.row /\ s.col = st.col
               /\ IF st.heading THEN Len(s.h) > 0 ELSE s.row <= s.pos - 1 /\ s.tab.cols = st.tab.cols
<1> DEFINE s == FieldReady(st)
           M == Len(file) + 1
<1>1. st \in ReaderStates /\ Made(st) /\ Bounded(file, st, st.pos - 1) /\ st.pos <= Len(file) + 1 /\ M \in Nat
  BY ReadingIsBetween, LenProperties DEF ReaderOK, Between
<1>2. <<>> \in Cells
  BY EmptySeq DEF Cells
<1>3. CASE st.heading
  <2> DEFINE k == Append(st.h, st.f)
  <2>1. s = [st EXCEPT !.h = k, !.f = <<>>]
    BY <1>3 DEF FieldReady
  <2>2. k \in Seq(Cells) /\ Len(k) = Len(st.h) + 1 /\ Len(st.h) \in Nat
    <3>1. st.h \in Seq(Cells) /\ st.f \in Cells
      BY <1>1 DEF ReaderStates
    <3> QED
      BY <3>1, AppendProperties, LenProperties
  <2> HIDE DEF k, s
  <2>3. /\ s \in ReaderStates /\ s.tab = st.tab /\ s.h = k /\ s.heading = st.heading /\ s.col = st.col
        /\ s.row = st.row /\ s.pos = st.pos /\ s.pos \in Nat
    BY <1>1, <1>2, <2>1, <2>2 DEF ReaderStates
  <2>4. Len(st.h) <= st.pos - 1
    BY <1>1, <1>3 DEF Bounded
  <2>5. Len(s.h) <= s.pos /\ Len(s.h) > 0
    BY <2>2, <2>3, <2>4
  <2>6. Between(file, s)
    BY <1>1, <1>3, <2>3, <2>5 DEF Between, Made, Bounded
  <2> QED
    BY <1>3, <2>3, <2>5, <2>6 DEF s
<1>4. CASE ~st.heading
  <2>1. /\ Filled(st.tab) /\ st.row <= st.pos - 1 /\ st.col < st.tab.cols /\ st.tab.cols <= M
        /\ st.col \in Nat /\ st.row \in Nat /\ st.pos \in Nat \ {0} /\ st.f \in Cells /\ st.heading = FALSE
    BY <1>1, <1>4 DEF Made, Bounded, ReaderStates
  <2>2. PICK k \in Nat \ {0} : Whole(st.tab, k) /\ st.tab.hdrs = <<>> /\ st.tab.cols < MaxColumns
    BY <2>1 DEF Filled
  <2> DEFINE t == SetCell(st.tab, st.col, st.row, st.f)
             l == IF st.row < k THEN k ELSE st.row + 1
  <2>3. (st.row + 1) * st.tab.cols < Wide
    <3>1. st.row + 1 <= M /\ st.row + 1 \in Nat /\ st.tab.cols \in Nat
      BY <1>1, <2>1, <2>2 DEF Whole
    <3>2. (st.row + 1) * st.tab.cols <= M * M /\ (st.row + 1) * st.tab.cols \in Nat
      BY <1>1, <2>1, <3>1, CellCounts
    <3>3. M * M < Wide /\ M * M \in Nat /\ Wide \in Nat
      BY <1>1, WidthAssumption
    <3> HIDE DEF M
    <3> QED
      BY <3>2, <3>3
  <2>4. Whole(t, l) /\ t.cols = st.tab.cols /\ t.hdrs = st.tab.hdrs
    <3>1. st.col \in 0 .. st.tab.cols - 1
      BY <2>1, <2>2 DEF Whole
    <3> QED
      BY <2>1, <2>2, <2>3, <3>1, CellIsSet
  <2>5. l \in Nat \ {0}
    BY <2>1
  <2> HIDE DEF l
  <2>6. Filled(t)
    BY <2>2, <2>4, <2>5 DEF Filled
  <2>7. s = [st EXCEPT !.tab = t, !.f = <<>>]
    BY <1>4 DEF FieldReady
  <2>8. t \in [cols : Nat, data : Seq(Cells), hdrs : {<<>>}]
    <3> HIDE DEF t
    <3> QED
      BY <2>2, <2>4 DEF Whole
  <2> HIDE DEF t, s
  <2>9. /\ s \in ReaderStates /\ s.tab = t /\ s.h = st.h /\ s.heading = st.heading /\ s.col = st.col
        /\ s.row = st.row /\ s.pos = st.pos
    BY <1>1, <1>2, <2>7, <2>8 DEF ReaderStates
  <2>10. s.row <= s.pos
    BY <2>1, <2>9
  <2>11. Made(s)
    BY <2>1, <2>6, <2>9 DEF Made
  <2>12. Bounded(file, s, s.pos)
    BY <2>1, <2>4, <2>9, <2>10 DEF Bounded
  <2>13. Between(file, s)
    BY <1>1, <2>9, <2>11, <2>12 DEF Between
  <2> QED
    BY <1>4, <2>1, <2>4, <2>9, <2>13 DEF s
<1> QED
  BY <1>3, <1>4

\* The end of the first record makes a table with one row.
LEMMA HeaderIsReady ==
    ASSUME NEW file \in Seq(STRING), NEW st, Between(file, st), st.heading, Len(st.h) > 0
    PROVE  Between(file, HeaderReady(st)) /\ HeaderReady(st).pos = st.pos
<1> DEFINE s == HeaderReady(st)
<1>1. /\ st \in ReaderStates /\ Made(st) /\ Len(st.h) <= st.pos /\ st.pos <= Len(file) + 1 /\ st.pos \in Nat \ {0}
      /\ st.h \in Seq(Cells) /\ Len(st.h) \in Nat /\ st.tab = NewTable /\ MaxColumns \in Nat /\ MaxColumns < Wide
      /\ Len(file) \in Nat /\ Wide \in Nat
  BY LenProperties, WidthAssumption DEF Between, Bounded, ReaderStates, Made
<1>2. CASE Len(st.h) >= MaxColumns
  <2>1. s = [st EXCEPT !.error = TRUE]
    BY <1>2 DEF HeaderReady, Refused
  <2> HIDE DEF s
  <2>2. /\ s \in ReaderStates /\ s.tab = st.tab /\ s.h = st.h /\ s.heading = st.heading /\ s.col = st.col
        /\ s.row = st.row /\ s.pos = st.pos
    BY <1>1, <2>1 DEF ReaderStates
  <2> QED
    BY <2>2 DEF s, Between, Made, Bounded
<1>3. CASE ~(Len(st.h) >= MaxColumns)
  <2> DEFINE t == FirstRow(NewTable, st.h)
  <2>1. Whole(t, 1) /\ t.cols = Len(st.h) /\ t.hdrs = <<>>
    <3>1. Len(st.h) < Wide
      BY <1>1, <1>3
    <3> QED
      BY <1>1, <3>1, FirstRowIsWhole
  <2>2. s = [st EXCEPT !.tab = t, !.h = <<>>, !.row = 1, !.col = 0, !.heading = FALSE]
    BY <1>1, <1>3 DEF HeaderReady
  <2> HIDE DEF t, s
  <2>3. Filled(t)
    <3>1. t.cols < MaxColumns
      BY <1>1, <1>3, <2>1
    <3> QED
      BY <2>1, <3>1 DEF Filled
  <2>4. t \in [cols : Nat, data : Seq(Cells), hdrs : {<<>>}]
    BY <2>1 DEF Whole
  <2>5. /\ s \in ReaderStates /\ s.tab = t /\ s.heading = FALSE /\ s.col = 0
        /\ s.row = 1 /\ s.pos = st.pos
    <3>1. <<>> \in Seq(Cells)
      BY EmptySeq
    <3> QED
      BY <1>1, <2>2, <2>4, <3>1 DEF ReaderStates
  <2>6. s.row <= s.pos /\ s.col < s.tab.cols /\ s.tab.cols <= Len(file) + 1
    BY <1>1, <2>1, <2>5
  <2> QED
    BY <1>1, <2>3, <2>5, <2>6 DEF s, Between, Made, Bounded
<1> QED
  BY <1>2, <1>3

\* The end of any other record begins a row.
LEMMA RowIsNext ==
    ASSUME NEW file \in Seq(STRING), NEW st, Between(file, st), ~st.heading, st.row <= st.pos - 1
    PROVE  Between(file, NextRow(st)) /\ NextRow(st).pos = st.pos
<1> DEFINE s == NextRow(st)
<1>1. /\ st \in ReaderStates /\ Made(st) /\ st.pos <= Len(file) + 1 /\ st.pos \in Nat \ {0}
      /\ st.row \in Nat /\ st.col \in Nat /\ st.tab.cols \in Nat /\ st.col < st.tab.cols /\ st.tab.cols <= Len(file) + 1
  BY DEF Between, Bounded, ReaderStates
<1>2. CASE st.row = Wide - 1
  <2>1. s = [st EXCEPT !.error = TRUE]
    BY <1>2 DEF NextRow, Refused
  <2> HIDE DEF s
  <2>2. /\ s \in ReaderStates /\ s.tab = st.tab /\ s.h = st.h /\ s.heading = st.heading /\ s.col = st.col
        /\ s.row = st.row /\ s.pos = st.pos
    BY <1>1, <2>1 DEF ReaderStates
  <2> QED
    BY <2>2 DEF s, Between, Made, Bounded
<1>3. CASE st.row # Wide - 1
  <2> DEFINE n == st.row + 1
  <2>1. s = [st EXCEPT !.row = n, !.col = 0] /\ n \in Nat
    BY <1>1, <1>3 DEF NextRow
  <2>2. n <= st.pos /\ 0 < st.tab.cols
    BY <1>1
  <2> HIDE DEF n, s
  <2>3. /\ s \in ReaderStates /\ s.tab = st.tab /\ s.heading = st.heading /\ s.col = 0
        /\ s.row = n /\ s.pos = st.pos
    BY <1>1, <2>1 DEF ReaderStates
  <2> QED
    BY <1>1, <2>2, <2>3 DEF s, Between, Made, Bounded
<1> QED
  BY <1>2, <1>3

\* A state that changes nothing of the table, the header or the position.
LEMMA ReaderIsAsBefore ==
    ASSUME NEW file, NEW st, Between(file, st), NEW s \in ReaderStates, s.tab = st.tab, s.h = st.h,
           s.heading = st.heading, s.col = st.col, s.row = st.row, s.pos = st.pos
    PROVE  Between(file, s)
  BY DEF Between, Made, Bounded

\* The end of the reading keeps the table.
LEMMA ReadingStops ==
    ASSUME NEW file, NEW st \in ReaderStates, Made(st)
    PROVE  ReaderOK(file, Refused(st)) /\ ReaderOK(file, Returned(st))
<1>1. ASSUME NEW s, s = Refused(st) \/ s = Returned(st) PROVE ReaderOK(file, s)
  <2>1. s = [st EXCEPT !.error = TRUE] \/ s = [st EXCEPT !.good = FALSE]
    BY <1>1 DEF Refused, Returned
  <2>2. s \in ReaderStates /\ s.tab = st.tab /\ s.heading = st.heading /\ (s.error \/ ~s.good)
    BY <2>1 DEF ReaderStates
  <2> QED
    BY <2>2 DEF ReaderOK, Made
<1> QED
  BY <1>1

\* A step between quotes keeps to it,
LEMMA StepInQuotes ==
    ASSUME NEW file \in Seq(STRING), NEW st, Between(file, st)
    PROVE  ReaderOK(file, InQuotes(file, st))
<1> DEFINE c == At(file, st.pos)
           e == At(file, st.pos + 1)
<1>1. st \in ReaderStates /\ Made(st) /\ st.pos \in Nat \ {0} /\ st.pos + 1 \in Nat \ {0}
      /\ st.f \in Cells /\ st.quoted \in BOOLEAN
  BY DEF Between, ReaderStates
<1>2. e # "end" => st.pos + 1 <= Len(file)
  BY <1>1, CharacterOfFile
<1>3. c # "end" => <<c>> \in Cells
  BY <1>1, CharacterOfFile
<1>4. <<"r", "n">> \in Cells /\ <<"r">> \in Cells /\ <<"q">> \in Cells
  <2>1. "r" \in Letters /\ "n" \in Letters /\ "q" \in Letters
    BY DEF Letters
  <2>2. ASSUME NEW S, NEW x \in S, NEW y \in S PROVE <<x, y>> \in Seq(S) /\ <<x>> \in Seq(S)
    OBVIOUS
  <2> QED
    BY <2>1, <2>2 DEF Cells
<1>5. ASSUME NEW x \in Cells
      PROVE  /\ ReaderOK(file, Continue(file, Push(st, x), 1, FALSE))
             /\ ReaderOK(file, Continue(file, Push(st, x), 1, TRUE))
             /\ st.pos + 1 <= Len(file) => ReaderOK(file, Continue(file, Push(st, x), 2, FALSE))
  <2> DEFINE s == Push(st, x)
  <2>1. Between(file, s) /\ s.pos = st.pos
    BY FieldIsPushed
  <2> HIDE DEF s
  <2>2. /\ ReaderOK(file, Continue(file, s, 1, FALSE)) /\ ReaderOK(file, Continue(file, s, 1, TRUE))
        /\ s.pos + 1 <= Len(file) => ReaderOK(file, Continue(file, s, 2, FALSE))
    BY <2>1, ReaderGoesOnBy
  <2> QED
    BY <2>1, <2>2 DEF s
<1>6. ReaderOK(file, Refused(st))
  BY <1>1, ReadingStops
<1>7. ReaderOK(file, Continue(file, [st EXCEPT !.quoted = FALSE, !.last = "endQuote"], 1, TRUE))
  <2> DEFINE s == [st EXCEPT !.quoted = FALSE, !.last = "endQuote"]
  <2>1. /\ s \in ReaderStates /\ s.tab = st.tab /\ s.h = st.h /\ s.heading = st.heading /\ s.col = st.col
        /\ s.row = st.row /\ s.pos = st.pos
    BY <1>1 DEF ReaderStates
  <2> HIDE DEF s
  <2>2. Between(file, s)
    BY <2>1, ReaderIsAsBefore
  <2>3. ReaderOK(file, Continue(file, s, 1, TRUE))
    BY <2>2, ReaderGoesOnBy
  <2> QED
    BY <2>3 DEF s
<1> HIDE DEF c, e
<1>8. CASE c \in {"end", "F"}
  BY <1>6, <1>8 DEF InQuotes, c
<1>9. CASE c = "r"
  <2>1. InQuotes(file, st) = IF e = "n" THEN Continue(file, Push(st, <<"r", "n">>), 2, FALSE)
                             ELSE Continue(file, Push(st, <<"r">>), 1, TRUE)
    BY <1>9 DEF InQuotes, c, e
  <2> QED
    BY <1>2, <1>4, <1>5, <2>1
<1>10. CASE c = "q"
  <2>1. InQuotes(file, st) = IF e = "q" THEN Continue(file, Push(st, <<"q">>), 2, FALSE)
                             ELSE Continue(file, [st EXCEPT !.quoted = FALSE, !.last = "endQuote"], 1, TRUE)
    BY <1>10 DEF InQuotes, c, e
  <2> QED
    BY <1>2, <1>4, <1>5, <1>7, <2>1
<1>11. CASE c \notin {"end", "F", "r", "q"}
  <2>1. InQuotes(file, st) = Continue(file, Push(st, <<c>>), 1, FALSE)
    BY <1>11 DEF InQuotes, c
  <2> QED
    BY <1>3, <1>5, <1>11, <2>1
<1> QED
  BY <1>8, <1>9, <1>10, <1>11

\* a step at the end of a record does,
LEMMA StepAtEndOfRecord ==
    ASSUME NEW file \in Seq(STRING), (Len(file) + 1) * (Len(file) + 1) < Wide,
           NEW st, ReaderOK(file, st), st.good, ~st.error
    PROVE  ReaderOK(file, EndOfRecord(file, st))
<1> DEFINE crlf == At(file, st.pos) = "r" /\ At(file, st.pos + 1) = "n"
           n == IF crlf THEN 2 ELSE 1
           peeked == At(file, st.pos) = "r" /\ ~crlf
           s == FieldReady(st)
           ended == IF st.heading THEN HeaderReady(s) ELSE NextRow(s)
           r == [ended EXCEPT !.last = "startOfRecord"]
<1>1. st \in ReaderStates /\ Made(st) /\ st.pos \in Nat \ {0} /\ st.pos + 1 \in Nat \ {0}
  BY DEF ReaderOK, ReaderStates
<1>2. ReaderOK(file, Refused(st)) /\ ReaderOK(file, Returned(st))
  BY <1>1, ReadingStops
<1>3. n \in {1, 2} /\ (n = 2 => st.pos + 1 <= Len(file))
  <2>1. At(file, st.pos + 1) # "end" => st.pos + 1 <= Len(file)
    BY <1>1, CharacterOfFile
  <2>2. n \in {1, 2} /\ (n = 2 => At(file, st.pos + 1) = "n")
    OBVIOUS
  <2> QED
    BY <2>1, <2>2
<1>4. Between(file, ended) /\ ended.pos = st.pos
  <2>1. /\ Between(file, s) /\ s.pos = st.pos /\ s.heading = st.heading
        /\ IF st.heading THEN Len(s.h) > 0 ELSE s.row <= s.pos - 1
    BY FieldIsReady
  <2> HIDE DEF s
  <2>2. CASE st.heading
    BY <2>1, <2>2, HeaderIsReady
  <2>3. CASE ~st.heading
    BY <2>1, <2>3, RowIsNext
  <2> QED
    BY <2>2, <2>3
<1> HIDE DEF ended
<1>5. Between(file, r) /\ r.pos = st.pos
  <2>1. ended \in ReaderStates
    BY <1>4 DEF Between
  <2>2. /\ r \in ReaderStates /\ r.tab = ended.tab /\ r.h = ended.h /\ r.heading = ended.heading
        /\ r.col = ended.col /\ r.row = ended.row /\ r.pos = ended.pos
    BY <2>1 DEF ReaderStates
  <2> HIDE DEF r
  <2> QED
    BY <1>4, <2>2, ReaderIsAsBefore
<1> HIDE DEF r
<1>6. ReaderOK(file, Continue(file, r, n, peeked))
  <2> HIDE DEF n, peeked
  <2> QED
    BY <1>3, <1>5, ReaderGoesOn
<1>7. EndOfRecord(file, st) \in {Refused(st), Returned(st), Continue(file, r, n, peeked)}
  BY DEF EndOfRecord, r, ended
<1> HIDE DEF n, peeked
<1> QED
  BY <1>2, <1>6, <1>7

\* a step at a quote does,
LEMMA StepAtQuote ==
    ASSUME NEW file \in Seq(STRING), NEW st, Between(file, st)
    PROVE  ReaderOK(file, Quote(file, st))
<1> DEFINE a == Continue(file, Push(st, <<"q">>), 1, FALSE)
           b == [st EXCEPT !.quoted = TRUE, !.f = <<>>]
<1>1. st \in ReaderStates /\ Made(st) /\ st.last \in {"startOfRecord", "fieldData", "endQuote", "separator"}
  BY DEF Between, ReaderStates
<1>2. <<>> \in Cells /\ <<"q">> \in Cells
  <2>1. "q" \in Letters
    BY DEF Letters
  <2>2. ASSUME NEW S, NEW x \in S PROVE <<x>> \in Seq(S) /\ <<>> \in Seq(S)
    OBVIOUS
  <2> QED
    BY <2>1, <2>2 DEF Cells
<1>3. ReaderOK(file, a)
  <2> DEFINE s == Push(st, <<"q">>)
  <2>1. Between(file, s) /\ s.pos = st.pos
    BY <1>2, FieldIsPushed
  <2> HIDE DEF s
  <2>2. ReaderOK(file, Continue(file, s, 1, FALSE))
    BY <2>1, ReaderGoesOnBy
  <2> QED
    BY <2>2 DEF s
<1>4. ReaderOK(file, Refused(st))
  BY <1>1, ReadingStops
<1>5. ReaderOK(file, Continue(file, b, 1, FALSE))
  <2>1. /\ b \in ReaderStates /\ b.tab = st.tab /\ b.h = st.h /\ b.heading = st.heading /\ b.col = st.col
        /\ b.row = st.row /\ b.pos = st.pos
    BY <1>1, <1>2 DEF ReaderStates
  <2> HIDE DEF b
  <2>2. Between(file, b)
    BY <2>1, ReaderIsAsBefore
  <2> QED
    BY <2>2, ReaderGoesOnBy
<1>6. Quote(file, st) \in {a, Refused(st), Continue(file, b, 1, FALSE)}
  BY DEF Quote
<1> HIDE DEF a, b
<1> QED
  BY <1>3, <1>4, <1>5, <1>6

\* and a step at a separator does.
LEMMA StepAtSeparator ==
    ASSUME NEW file \in Seq(STRING), (Len(file) + 1) * (Len(file) + 1) < Wide,
           NEW st, ReaderOK(file, st), st.good, ~st.error
    PROVE  ReaderOK(file, Separator(file, st))
<1> DEFINE s == FieldReady(st)
           r == [s EXCEPT !.last = "separator"]
           n == r.col + 1
           d == [r EXCEPT !.col = n]
<1>1. /\ Between(file, s) /\ s.pos = st.pos /\ s.heading = st.heading /\ s.col = st.col
      /\ (~st.heading => s.tab.cols = st.tab.cols)
  BY FieldIsReady
<1> HIDE DEF s
<1>2. Between(file, r) /\ r.pos = st.pos /\ r.heading = st.heading /\ r.col = st.col /\ r.tab = s.tab
  <2>1. s \in ReaderStates
    BY <1>1 DEF Between
  <2>2. /\ r \in ReaderStates /\ r.tab = s.tab /\ r.h = s.h /\ r.heading = s.heading /\ r.col = s.col
        /\ r.row = s.row /\ r.pos = s.pos
    BY <2>1 DEF ReaderStates
  <2> HIDE DEF r
  <2> QED
    BY <1>1, <2>2, ReaderIsAsBefore
<1> HIDE DEF r
<1>3. ReaderOK(file, Continue(file, r, 1, FALSE))
  BY <1>2, ReaderGoesOnBy
<1>4. ReaderOK(file, Refused(r))
  BY <1>2, ReadingStops DEF Between
<1>5. CASE ~st.heading /\ ~(st.col + 1 >= st.tab.cols)
  <2>1. r \in ReaderStates /\ Made(r) /\ Bounded(file, r, r.pos) /\ r.col \in Nat /\ r.tab.cols \in Nat /\ r.pos <= Len(file) + 1
    BY <1>2 DEF Between, ReaderStates
  <2>2. n \in Nat /\ n < r.tab.cols
    BY <1>1, <1>2, <1>5, <2>1
  <2> HIDE DEF n
  <2>3. /\ d \in ReaderStates /\ d.tab = r.tab /\ d.h = r.h /\ d.heading = r.heading /\ d.col = n
        /\ d.row = r.row /\ d.pos = r.pos
    BY <2>1, <2>2 DEF ReaderStates
  <2> HIDE DEF d
  <2>4. Between(file, d)
    BY <2>1, <2>2, <2>3 DEF Between, Made, Bounded
  <2>5. ReaderOK(file, Continue(file, d, 1, FALSE))
    BY <2>4, ReaderGoesOnBy
  <2>6. Separator(file, st) = Continue(file, d, 1, FALSE)
    BY <1>5 DEF Separator, d, n, r, s
  <2> QED
    BY <2>5, <2>6
<1>6. CASE st.heading \/ st.col + 1 >= st.tab.cols
  <2>1. Separator(file, st) \in {Continue(file, r, 1, FALSE), Refused(r)}
    BY <1>6 DEF Separator, r, s
  <2> QED
    BY <1>3, <1>4, <2>1
<1> QED
  BY <1>5, <1>6

\* A step of the reader.
LEMMA StepOfReader ==
    ASSUME NEW file \in Seq(STRING), (Len(file) + 1) * (Len(file) + 1) < Wide, NEW st, ReaderOK(file, st)
    PROVE  ReaderOK(file, NextState(file, st))
<1> DEFINE c == At(file, st.pos)
           mark == st.heading /\ st.last = "startOfRecord" /\ c = "h"
<1>1. CASE ~(st.good /\ ~st.error)
  BY <1>1 DEF NextState
<1>2. CASE st.good /\ ~st.error
  <2>1. Between(file, st) /\ st.pos \in Nat \ {0} /\ st.quoted \in BOOLEAN
    BY <1>2, ReadingIsBetween DEF ReaderOK, ReaderStates
  <2>2. NextState(file, st) = Step(file, st)
    BY <1>2 DEF NextState
  <2>3. ReaderOK(file, Continue(file, st, 1, FALSE))
    BY <2>1, ReaderGoesOnBy
  <2>4. ReaderOK(file, InQuotes(file, st)) /\ ReaderOK(file, Quote(file, st))
    BY <2>1, StepInQuotes, StepAtQuote
  <2>5. ReaderOK(file, EndOfRecord(file, st)) /\ ReaderOK(file, Separator(file, st))
    BY <1>2, StepAtEndOfRecord, StepAtSeparator
  <2>6. c # "end" => ReaderOK(file, Continue(file, Push(st, <<c>>), 1, FALSE))
    <3> DEFINE s == Push(st, <<c>>)
    <3>1. c # "end" => Between(file, s)
      BY <2>1, CharacterOfFile, FieldIsPushed
    <3> HIDE DEF s
    <3>2. c # "end" => ReaderOK(file, Continue(file, s, 1, FALSE))
      BY <3>1, ReaderGoesOnBy
    <3> QED
      BY <3>2 DEF s
  <2> HIDE DEF c
  <2>7. CASE mark
    BY <2>2, <2>3, <2>7 DEF Step, c
  <2>8. CASE ~mark
    <3>1. Step(file, st) = CASE st.quoted -> InQuotes(file, st)
                             [] ~st.quoted /\ c \in {"r", "n", "end", "F"} -> EndOfRecord(file, st)
                             [] ~st.quoted /\ c = "q" -> Quote(file, st)
                             [] ~st.quoted /\ c = "s" -> Separator(file, st)
                             [] OTHER -> Continue(file, Push(st, <<c>>), 1, FALSE)
      BY <2>8 DEF Step, c
    <3>2. CASE st.quoted
      BY <2>2, <2>4, <3>1, <3>2
    <3>3. CASE ~st.quoted /\ c \in {"r", "n", "end", "F"}
      BY <2>2, <2>5, <3>1, <3>3
    <3>4. CASE ~st.quoted /\ c = "q"
      BY <2>2, <2>4, <3>1, <3>4
    <3>5. CASE ~st.quoted /\ c = "s"
      BY <2>2, <2>5, <3>1, <3>5
    <3>6. CASE ~st.quoted /\ c \notin {"r", "n", "end", "F", "q", "s"}
      BY <2>2, <2>6, <3>1, <3>6
    <3> QED
      BY <3>2, <3>3, <3>4, <3>5, <3>6
  <2> QED
    BY <2>7, <2>8
<1> QED
  BY <1>1, <1>2

\* The states of the reader are all as it keeps to: what it returns is new, or
\* has rows that the width of the code counts.
ReadingIn(g, file) ==
    /\ g[0] = Start /\ ReadCSV(file) = g[Len(file) + 1]
    /\ \A n \in 1 .. Len(file) + 1 : g[n] = NextState(file, g[n - 1])
    /\ \A n \in 0 .. Len(file) + 1 : ReaderOK(file, g[n])

\* There are such states for every file,
LEMMA StatesOfReading ==
    ASSUME NEW file \in Seq(STRING), (Len(file) + 1) * (Len(file) + 1) < Wide
    PROVE  \E g : ReadingIn(g, file)
<1> DEFINE N == Len(file) + 1
           S == {s \in ReaderStates : ReaderOK(file, s)}
           Body(f) == [i \in 0 .. N |-> IF i = 0 THEN Start ELSE NextState(file, f[i - 1])]
           F == [p \in (1 .. N) \X S |-> NextState(file, p[2])]
<1>1. N \in Nat \ {0} /\ Len(file) \in Nat
  BY LenProperties
<1>2. \A s : s \in S <=> ReaderOK(file, s)
  BY DEF ReaderOK
<1> HIDE DEF S
<1>3. Start \in S
  <2>1. Start \in ReaderStates
    <3>1. <<>> \in Seq(Cells) /\ <<>> \in Cells
      BY EmptySeq DEF Cells
    <3>2. NewTable \in [cols : Nat, data : Seq(Cells), hdrs : {<<>>}]
      BY <3>1 DEF NewTable
    <3> QED
      BY <3>1, <3>2 DEF Start, ReaderStates
  <2>2. Made(Start) /\ Start.heading /\ Start.pos = 1 /\ Start.h = <<>>
    BY DEF Start, Made
  <2>3. Len(Start.h) <= Start.pos - 1 /\ Start.pos <= N
    BY <1>1, <2>2
  <2> QED
    BY <1>2, <2>1, <2>2, <2>3 DEF ReaderOK, Bounded
<1>4. \A s \in S : NextState(file, s) \in S
  BY <1>2, StepOfReader
<1> HIDE DEF N
<1>5. PICK f : StepsOf(f, N, S, Start, F)
  <2>1. F \in [(1 .. N) \X S -> S]
    BY <1>4
  <2> HIDE DEF F
  <2> QED
    BY <1>1, <1>3, <2>1, Iterated
<1>6. f \in [0 .. N -> S] /\ f[0] = Start /\ \A n \in 1 .. N : f[n] = F[<<n, f[n - 1]>>]
  BY <1>5 DEF StepsOf
<1>7. \A n \in 1 .. N : f[n] = NextState(file, f[n - 1])
  <2> TAKE n \in 1 .. N
  <2>1. n - 1 \in 0 .. N
    BY <1>1
  <2>2. f[n - 1] \in S
    BY <1>6, <2>1
  <2>3. f[n] = F[<<n, f[n - 1]>>] /\ <<n, f[n - 1]>> \in (1 .. N) \X S
    BY <1>6, <2>2
  <2> QED
    BY <2>3
<1> HIDE DEF F
<1>8. f = Body(f)
  <2>1. f = [n \in 0 .. N |-> f[n]]
    BY <1>6
  <2>2. \A n \in 0 .. N : f[n] = Body(f)[n]
    <3>1. \A n \in 0 .. N : n # 0 => n \in 1 .. N
      BY <1>1
    <3> QED
      BY <1>6, <1>7, <3>1
  <2> QED
    BY <2>1, <2>2
<1> DEFINE g == CHOOSE e : e = Body(e)
<1>9. g = Body(g)
  BY <1>8
<1>10. ReadCSV(file) = g[N]
  BY DEF ReadCSV, N
<1> HIDE DEF g
<1>11. g[0] = Start /\ \A n \in 1 .. N : g[n] = NextState(file, g[n - 1])
  <2>1. \A n \in 0 .. N : g[n] = IF n = 0 THEN Start ELSE NextState(file, g[n - 1])
    BY <1>9
  <2>2. 0 \in 0 .. N /\ \A n \in 1 .. N : n \in 0 .. N /\ n # 0
    BY <1>1
  <2> QED
    BY <2>1, <2>2
<1> DEFINE T == {n \in Nat : n <= N => g[n] \in S}
<1>12. \A n \in Nat : n \in T <=> (n <= N => g[n] \in S)
  OBVIOUS
<1> HIDE DEF T
<1>13. 0 \in T
  BY <1>3, <1>11, <1>12
<1>14. ASSUME NEW n \in Nat, n \in T PROVE n + 1 \in T
  <2>1. n + 1 \in Nat /\ (n + 1) - 1 = n /\ (n + 1 <= N => n + 1 \in 1 .. N /\ n <= N)
    BY <1>1
  <2>2. ASSUME n + 1 <= N PROVE g[n + 1] \in S
    <3>1. g[n + 1] = NextState(file, g[n]) /\ g[n] \in S
      BY <1>11, <1>12, <1>14, <2>1, <2>2
    <3> QED
      BY <1>4, <3>1
  <2> QED
    BY <1>12, <2>1, <2>2
<1>15. \A n \in 0 .. N : ReaderOK(file, g[n])
  <2>1. Nat \subseteq T
    BY <1>13, <1>14, Induction
  <2>2. \A n \in 0 .. N : n \in Nat /\ n <= N
    BY <1>1
  <2> QED
    BY <1>2, <1>12, <2>1, <2>2
<1> QED
  BY <1>10, <1>11, <1>15 DEF ReadingIn, N

\* and the last of them is what the reader returns.
LEMMA FileIsRead ==
    ASSUME NEW file \in Seq(STRING), (Len(file) + 1) * (Len(file) + 1) < Wide
    PROVE  ReaderOK(file, ReadCSV(file))
<1>1. PICK g : ReadingIn(g, file)
  BY StatesOfReading
<1>2. Len(file) + 1 \in 0 .. Len(file) + 1
  BY LenProperties
<1> QED
  BY <1>1, <1>2 DEF ReadingIn

\* What the user's table keeps to.  Its rows are those the user expects; the
\* names lead to columns, and to their own as long as they have not been
\* overwritten.
Held(k) ==
    /\ Whole(table, k) /\ table.cols < MaxColumns /\ want = LaterRows(table, k)
    /\ table.hdrs = <<>> \/ table.hdrs \in [DOMAIN table.hdrs -> 0 .. table.cols - 1]
    /\ fresh /\ table.hdrs # <<>> => k > 0 /\ Leading(table)

TableOK == (table.cols = 0 /\ table.hdrs = <<>>) \/ \E k \in Nat : Held(k)

\* What cells are set to are cells.
LEMMA ValuesAreCells == ASSUME NEW v \in CellValues PROVE v \in Cells
<1>1. v \in Seq(STRING)
  BY ValuesAssumption
<1>2. v \in [1 .. Len(v) -> STRING] /\ Len(v) \in Nat
  BY <1>1, LenProperties
<1>3. v \in [1 .. Len(v) -> Letters]
  BY <1>2 DEF Letters
<1> QED
  BY <1>2, <1>3, SeqOfFunction DEF Cells

\* Names lead where they led if the first row has not changed.
LEMMA StillLeading ==
    ASSUME NEW t, NEW s, Leading(t), s.cols = t.cols, s.hdrs = t.hdrs,
           \A c \in 0 .. t.cols - 1 : CellAt(s, c, 0) = CellAt(t, c, 0)
    PROVE  Leading(s)
  BY DEF Leading

\* The files are what the reader reads, and short enough.
LEMMA GivenIsFile ==
    ASSUME NEW file \in Given
    PROVE  file \in Seq(STRING \ {"end"}) /\ file \in Seq(STRING) /\ (Len(file) + 1) * (Len(file) + 1) < Wide
<1>1. file \in Seq(STRING \ {"end"}) /\ (Len(file) + 1) * (Len(file) + 1) < Wide
  BY GivenAssumption
<1>2. file \in [1 .. Len(file) -> STRING \ {"end"}] /\ Len(file) \in Nat
  BY <1>1, LenProperties
<1>3. file \in [1 .. Len(file) -> STRING]
  BY <1>2
<1> QED
  BY <1>1, <1>2, <1>3, SeqOfFunction

\* Each action keeps to it: the reading of a file,
LEMMA ReadStep == ReadGiven => TableOK'
<1> SUFFICES ASSUME ReadGiven PROVE TableOK'
  OBVIOUS
<1>1. /\ table' = ReadCSV(source').tab /\ source' \in Seq(STRING)
      /\ (Len(source') + 1) * (Len(source') + 1) < Wide
      /\ want' = IF RowCount(table') = 0 THEN <<>> ELSE Tail(RowsOf(table'))
  BY GivenIsFile DEF ReadGiven
<1>2. Made(ReadCSV(source'))
  BY <1>1, FileIsRead DEF ReaderOK
<1>3. CASE table' = NewTable
  BY <1>3 DEF TableOK, NewTable
<1>4. CASE Filled(table')
  <2>1. PICK k \in Nat \ {0} : Whole(table', k) /\ table'.hdrs = <<>> /\ table'.cols < MaxColumns
    BY <1>4 DEF Filled
  <2>2. RowCount(table') = k /\ k > 0 /\ k \in Nat
    BY <2>1, RowsOfTable
  <2>3. Tail(RowsOf(table')) = LaterRows(table', k)
    BY <2>1, <2>2, TailOfRows
  <2>4. want' = LaterRows(table', k)
    BY <1>1, <2>2, <2>3
  <2>5. Held(k)'
    BY <2>1, <2>4 DEF Held
  <2> QED
    BY <2>2, <2>5 DEF TableOK
<1> QED
  BY <1>1, <1>2, <1>3, <1>4 DEF Made

\* A cell of a table u that has the same columns as the one before.
LEMMA CellStep ==
    ASSUME NEW u, NEW k, Whole(u, k), u.cols = table.cols, u.cols < MaxColumns, want = LaterRows(u, k),
           u.hdrs = <<>> \/ u.hdrs \in [DOMAIN u.hdrs -> 0 .. u.cols - 1],
           fresh /\ u.hdrs # <<>> => k > 0 /\ Leading(u),
           NEW c \in 0 .. table.cols - 1, NEW r \in 0 .. k, (r + 1) * table.cols < Wide, NEW v \in CellValues,
           table' = SetCell(u, c, r, v), CellSet(c, r, v)
    PROVE  TableOK'
<1> DEFINE l == IF r < k THEN k ELSE r + 1
<1>1. v \in Cells /\ k \in Nat /\ r \in Nat
  BY ValuesAreCells DEF Whole
<1>2. /\ Whole(table', l) /\ table'.cols = u.cols /\ table'.hdrs = u.hdrs
      /\ \A d \in 0 .. u.cols - 1, q \in 0 .. l - 1 :
             CellAt(table', d, q) = IF d = c /\ q = r THEN v ELSE IF q < k THEN CellAt(u, d, q) ELSE <<>>
  BY <1>1, CellIsSet
<1>3. LaterRows(table', l) = want'
  <2>1. LaterRows(SetCell(u, c, r, v), l) = IF r = 0 THEN want ELSE Expect(c, r, v)
    BY <1>1, CellIsKept
  <2> HIDE DEF l
  <2> QED
    BY <2>1 DEF CellSet
<1>4. ASSUME fresh', table'.hdrs # <<>> PROVE l > 0 /\ Leading(table')
  <2>1. fresh /\ r # 0 /\ u.hdrs # <<>>
    BY <1>2, <1>4 DEF CellSet
  <2>2. k > 0 /\ Leading(u)
    BY <2>1
  <2>3. \A d \in 0 .. u.cols - 1 : CellAt(table', d, 0) = CellAt(u, d, 0)
    <3>1. 0 \in 0 .. l - 1 /\ 0 # r /\ 0 < k
      BY <1>1, <2>1, <2>2
    <3> HIDE DEF l
    <3> QED
      BY <1>2, <3>1
  <2>4. l > 0
    BY <1>1
  <2> HIDE DEF l
  <2> QED
    BY <1>2, <2>2, <2>3, <2>4, StillLeading
<1>5. l \in Nat
  BY <1>1
<1> HIDE DEF l
<1>6. Held(l)'
  BY <1>2, <1>3, <1>4 DEF Held
<1> QED
  BY <1>5, <1>6 DEF TableOK

\* the setting of a cell by its number,
LEMMA UseCellStep == TableOK /\ UseCell => TableOK'
<1> SUFFICES ASSUME TableOK, UseCell PROVE TableOK'
  OBVIOUS
<1>1. PICK c \in 0 .. table.cols - 1, r \in 0 .. RowCount(table), v \in CellValues :
          /\ table.cols > 0 /\ (r + 1) * table.cols < Wide /\ table' = SetCell(table, c, r, v) /\ CellSet(c, r, v)
  BY DEF UseCell, Using
<1>2. PICK k \in Nat : Held(k)
  BY <1>1 DEF TableOK
<1>3. RowCount(table) = k
  BY <1>2, RowsOfTable DEF Held
<1> QED
  BY <1>1, <1>2, <1>3, CellStep DEF Held

\* the setting of a cell by the name of its column,
LEMMA UseNamedStep == TableOK /\ UseNamed => TableOK'
<1> SUFFICES ASSUME TableOK, UseNamed PROVE TableOK'
  OBVIOUS
<1>1. PICK name \in KnownNames, r \in 0 .. RowCount(table), v \in CellValues :
          /\ table.cols > 0 /\ (r + 1) * table.cols < Wide /\ table' = SetNamed(table, name, r, v)
          /\ IF name \in DOMAIN table'.hdrs THEN CellSet(table'.hdrs[name], r, v) ELSE UNCHANGED <<want, fresh>>
  BY DEF UseNamed, Using
<1>2. PICK k \in Nat : Held(k)
  BY <1>1 DEF TableOK
<1>3. RowCount(table) = k
  BY <1>2, RowsOfTable DEF Held
<1>4. k > 0
  BY <1>1, <1>2, <1>3 DEF KnownNames
<1> DEFINE u == WithHeaders(table)
<1>5. /\ Whole(u, k) /\ u.cols = table.cols /\ u.cols < MaxColumns /\ want = LaterRows(u, k)
      /\ u.hdrs = <<>> \/ u.hdrs \in [DOMAIN u.hdrs -> 0 .. u.cols - 1]
      /\ fresh /\ u.hdrs # <<>> => k > 0 /\ Leading(u)
  <2>1. CASE table.hdrs # <<>>
    BY <1>2, <2>1 DEF WithHeaders, Held
  <2>2. CASE table.hdrs = <<>>
    <3>1. u = ReadHeaders(table)
      BY <2>2 DEF WithHeaders
    <3>2. Whole(table, k) /\ table.cols < MaxColumns /\ want = LaterRows(table, k) /\ table.cols \in Nat
      BY <1>2 DEF Held, Whole
    <3> HIDE DEF u
    <3>3. /\ Whole(u, k) /\ u.cols = table.cols
          /\ \A e \in 0 .. table.cols - 1, q \in 1 .. k - 1 : CellAt(u, e, q) = CellAt(table, e, q)
          /\ u.hdrs = <<>> \/ Leading(u)
      BY <1>4, <3>1, <3>2, HeadersAreRead
    <3>4. LaterRows(u, k) = LaterRows(table, k)
      BY <3>2, <3>3, SameBehind
    <3> QED
      BY <1>4, <3>2, <3>3, <3>4 DEF Leading
  <2> QED
    BY <2>1, <2>2
<1>6. table' = IF name \in DOMAIN u.hdrs THEN SetCell(u, u.hdrs[name], r, v) ELSE u
  BY <1>1 DEF SetNamed
<1> HIDE DEF u
<1>7. CASE name \in DOMAIN u.hdrs
  <2>1. u.hdrs # <<>>
    <3>1. DOMAIN <<>> = {}
      OBVIOUS
    <3> QED
      BY <1>7, <3>1
  <2>2. u.hdrs[name] \in 0 .. table.cols - 1
    BY <1>5, <1>7, <2>1
  <2>3. table' = SetCell(u, u.hdrs[name], r, v) /\ v \in Cells /\ r \in Nat /\ (r + 1) * u.cols < Wide
    BY <1>1, <1>3, <1>5, <1>6, <1>7, ValuesAreCells
  <2>4. table'.hdrs = u.hdrs
    BY <1>5, <2>2, <2>3, CellIsSet
  <2>5. CellSet(u.hdrs[name], r, v)
    BY <1>1, <1>7, <2>4
  <2> QED
    BY <1>1, <1>3, <1>5, <2>2, <2>3, <2>5, CellStep
<1>8. CASE name \notin DOMAIN u.hdrs
  <2>1. table' = u /\ want' = want /\ fresh' = fresh
    BY <1>1, <1>6, <1>8
  <2>2. Held(k)'
    BY <1>5, <2>1 DEF Held
  <2> QED
    BY <2>2 DEF TableOK
<1> QED
  BY <1>7, <1>8

\* the setting of the number of rows,
LEMMA UseRowsStep == TableOK /\ UseRows => TableOK'
<1> SUFFICES ASSUME TableOK, UseRows PROVE TableOK'
  OBVIOUS
<1>1. PICK n \in 0 .. RowCount(table) + 1 :
          /\ table.cols > 0 /\ n * table.cols < Wide /\ table' = SetRows(table, n)
          /\ want' = IF n = 0 THEN <<>> ELSE Sized(n - 1)
          /\ fresh' = (fresh /\ n > 0)
  BY DEF UseRows, Using
<1>2. PICK k \in Nat : Held(k)
  BY <1>1 DEF TableOK
<1>3. RowCount(table) = k /\ Whole(table, k) /\ n \in 0 .. k + 1 /\ n \in Nat
  BY <1>1, <1>2, RowsOfTable DEF Held
<1>4. /\ Whole(table', n) /\ table'.cols = table.cols /\ table'.hdrs = table.hdrs
      /\ \A c \in 0 .. table.cols - 1, r \in 0 .. n - 1 :
             CellAt(table', c, r) = IF r < k THEN CellAt(table, c, r) ELSE <<>>
  BY <1>1, <1>3, Resized
<1>5. want' = LaterRows(table', n)
  BY <1>1, <1>2, <1>3, RowsAreKept DEF Held
<1>6. ASSUME fresh', table'.hdrs # <<>> PROVE n > 0 /\ Leading(table')
  <2>1. fresh /\ n > 0 /\ k > 0 /\ Leading(table)
    BY <1>1, <1>2, <1>4, <1>6 DEF Held
  <2>2. 0 \in 0 .. n - 1 /\ 0 < k
    BY <1>3, <2>1
  <2>3. \A c \in 0 .. table.cols - 1 : CellAt(table', c, 0) = CellAt(table, c, 0)
    BY <1>4, <2>2
  <2> QED
    BY <1>4, <2>1, <2>3, StillLeading
<1>7. Held(n)'
  BY <1>2, <1>4, <1>5, <1>6 DEF Held
<1> QED
  BY <1>3, <1>7 DEF TableOK

\* and so does every step.
LEMMA TableStep == TableOK /\ (TableNext \/ UNCHANGED tabling) => TableOK'
<1>1. TableOK /\ UNCHANGED tabling => TableOK'
  <2> SUFFICES ASSUME TableOK, UNCHANGED tabling PROVE TableOK'
    OBVIOUS
  <2>1. table' = table /\ want' = want /\ fresh' = fresh
    BY DEF tabling
  <2> QED
    BY <2>1 DEF TableOK, Held
<1> QED
  BY <1>1, ReadStep, UseCellStep, UseNamedStep, UseRowsStep DEF TableNext

\* The rows the user expects are there, and the names lead to their columns.
LEMMA TableAgrees == TableOK => CellsAreKept /\ NamesLeadToColumns
<1> SUFFICES ASSUME TableOK PROVE CellsAreKept /\ NamesLeadToColumns
  OBVIOUS
<1>1. CASE table.cols = 0 /\ table.hdrs = <<>>
  BY <1>1 DEF CellsAreKept, NamesLeadToColumns, RowCount
<1>2. CASE \E k \in Nat : Held(k)
  <2>1. PICK k \in Nat : Held(k)
    BY <1>2
  <2>2. Whole(table, k) /\ want = LaterRows(table, k) /\ RowCount(table) = k
    BY <2>1, RowsOfTable DEF Held
  <2>3. k > 0 => Tail(RowsOf(table)) = want
    BY <2>2, TailOfRows
  <2>4. fresh /\ table.hdrs # <<>> => Leading(table)
    BY <2>1 DEF Held
  <2> QED
    BY <2>2, <2>3, <2>4 DEF CellsAreKept, NamesLeadToColumns, Leading
<1> QED
  BY <1>1, <1>2 DEF TableOK

\* The invariant of the table.
LEMMA TableStays == Spec => []TableOK
<1>1. Init => TableOK
  <2>1. NewTable.cols = 0 /\ NewTable.hdrs = <<>>
    BY DEF NewTable
  <2> QED
    BY <2>1 DEF Init, TableInit, TableOK
<1>2. TableOK /\ [Next]_vars => TableOK'
  <2>1. [Next]_vars => TableNext \/ UNCHANGED tabling
    BY DEF Next, UseDates, UseConversions, UseNames, UseEnvironment, UseEnumeration, UseChecks, UseTable, UsePipeline, vars
  <2> QED
    BY <2>1, TableStep
<1> QED
  BY <1>1, <1>2, PTL DEF Spec

\* What was put into a cell behind the first row of a table is there until it
\* is set again, whatever names the columns got and however the table grew.
THEOREM CellsAlwaysKept == Spec => []CellsAreKept
  BY TableStays, TableAgrees, PTL

\* The names of the headers lead to their columns, one for each.
THEOREM NamesAlwaysLead == Spec => []NamesLeadToColumns
  BY TableStays, TableAgrees, PTL

-----------------------------------------------------------------------------
\* Data.  The places of what has been read: in the fields of the first record,
\* or in the table that it has made.
PlacesOf(c, r, x) == {<<c, r, i>> : i \in DataIn(x)}
Free(S, c, r) == \A i : <<c, r, i>> \notin S
HeaderData(h) == UNION {PlacesOf(c, 0, h[c + 1]) : c \in 0 .. Len(h) - 1}
Placed(st) == IF st.heading THEN HeaderData(st.h) ELSE DataOf(st.tab)

\* The data in front of a position of the file.
Upto(file, p) == {i \in 1 .. Len(file) : i < p /\ file[i] = "d"}

\* A field has finitely many places of data,
LEMMA DataIsFinite ==
    ASSUME NEW x \in Cells
    PROVE  /\ IsFiniteSet(DataIn(x)) /\ Cardinality(DataIn(x)) \in Nat /\ Len(x) \in Nat
           /\ DataIn(x) \in SUBSET (1 .. Len(x))
<1>1. Len(x) \in Nat
  BY LenProperties DEF Cells
<1>2. IsFiniteSet(1 .. Len(x))
  BY <1>1, FS_Interval
<1>3. DataIn(x) \in SUBSET (1 .. Len(x))
  BY DEF DataIn
<1> QED
  BY <1>1, <1>2, <1>3, FS_Subset, FS_CardinalityType

\* and an empty one has none.
LEMMA NoDataInEmpty == DataIn(<<>>) = {} /\ Cardinality(DataIn(<<>>)) = 0
<1>1. DataIn(<<>>) = {}
  BY DEF DataIn
<1> QED
  BY <1>1, FS_EmptySet

\* What is put behind a field adds its data.
LEMMA DataOfConcat ==
    ASSUME NEW x \in Cells, NEW y \in Cells
    PROVE  x \o y \in Cells /\ Cardinality(DataIn(x \o y)) = Cardinality(DataIn(x)) + Cardinality(DataIn(y))
<1> DEFINE z == x \o y
           n == Len(x)
           f == [i \in DataIn(y) |-> n + i]
           T == {n + i : i \in DataIn(y)}
<1>1. /\ z \in Cells /\ Len(z) = n + Len(y) /\ n \in Nat /\ Len(y) \in Nat
      /\ \A i \in 1 .. n + Len(y) : z[i] = IF i <= n THEN x[i] ELSE y[i - n]
  BY ConcatProperties, LenProperties DEF Cells
<1> HIDE DEF z, n
<1>2. DataIn(z) = DataIn(x) \cup T
  <2>1. ASSUME NEW i \in DataIn(z) PROVE i \in DataIn(x) \cup T
    <3>1. i \in 1 .. n + Len(y) /\ z[i] = "d"
      BY <1>1, <2>1 DEF DataIn
    <3>2. CASE i <= n
      BY <1>1, <3>1, <3>2 DEF DataIn, n
    <3>3. CASE ~(i <= n)
      <4>1. i - n \in 1 .. Len(y) /\ y[i - n] = "d" /\ i = n + (i - n)
        BY <1>1, <3>1, <3>3
      <4>2. i - n \in DataIn(y)
        BY <4>1 DEF DataIn
      <4> QED
        BY <4>1, <4>2
    <3> QED
      BY <3>2, <3>3
  <2>2. ASSUME NEW i \in DataIn(x) PROVE i \in DataIn(z)
    <3>1. i \in 1 .. n /\ x[i] = "d"
      BY <2>2 DEF DataIn, n
    <3>2. i \in 1 .. n + Len(y) /\ i <= n
      BY <1>1, <3>1
    <3> QED
      BY <1>1, <3>1, <3>2 DEF DataIn
  <2>3. ASSUME NEW i \in DataIn(y) PROVE n + i \in DataIn(z)
    <3>1. i \in 1 .. Len(y) /\ y[i] = "d"
      BY <2>3 DEF DataIn
    <3>2. n + i \in 1 .. n + Len(y) /\ ~(n + i <= n) /\ (n + i) - n = i
      BY <1>1, <3>1
    <3> QED
      BY <1>1, <3>1, <3>2 DEF DataIn
  <2> QED
    BY <2>1, <2>2, <2>3
<1>3. DataIn(x) \cap T = {}
  <2>1. \A i \in DataIn(x) : i \in 1 .. n
    BY DEF DataIn, n
  <2>2. \A i \in DataIn(y) : i \in 1 .. Len(y)
    BY DEF DataIn
  <2>3. \A i \in DataIn(x), j \in DataIn(y) : i # n + j
    <3> TAKE i \in DataIn(x), j \in DataIn(y)
    <3>1. i \in 1 .. n /\ j \in 1 .. Len(y)
      BY <2>1, <2>2
    <3> QED
      BY <1>1, <3>1
  <2> QED
    BY <2>3
<1>4. IsFiniteSet(T) /\ Cardinality(T) = Cardinality(DataIn(y))
  <2>1. f \in Bijection(DataIn(y), T)
    <3>1. \A i, j \in DataIn(y) : n + i = n + j => i = j
      <4>1. \A i \in DataIn(y) : i \in Nat
        BY DEF DataIn
      <4> QED
        BY <1>1, <4>1
    <3>2. f \in [DataIn(y) -> T] /\ \A t \in T : \E i \in DataIn(y) : f[i] = t
      OBVIOUS
    <3>3. \A i, j \in DataIn(y) : f[i] = f[j] => i = j
      BY <3>1
    <3> HIDE DEF f, T
    <3> QED
      BY <3>2, <3>3 DEF Bijection, Injection, Surjection, IsInjective
  <2>2. ExistsBijection(DataIn(y), T)
    BY <2>1 DEF ExistsBijection
  <2> QED
    BY <2>2, DataIsFinite, FS_Bijection
<1> HIDE DEF T
<1>5. Cardinality(DataIn(x) \cup T) = Cardinality(DataIn(x)) + Cardinality(T)
  <2>1. IsFiniteSet(DataIn(x)) /\ Cardinality(DataIn(x)) \in Nat /\ Cardinality(T) \in Nat /\ Cardinality({}) = 0
    BY <1>4, DataIsFinite, FS_EmptySet
  <2>2. Cardinality(DataIn(x) \cup T) = Cardinality(DataIn(x)) + Cardinality(T) - Cardinality({})
    BY <1>3, <1>4, <2>1, FS_Union
  <2> QED
    BY <2>1, <2>2
<1> QED
  BY <1>1, <1>2, <1>4, <1>5 DEF z

\* A field that is put where there is none adds its data.
LEMMA FieldIsPlaced ==
    ASSUME NEW S, IsFiniteSet(S), NEW x \in Cells, NEW c, NEW r, Free(S, c, r),
           NEW U, U = S \cup PlacesOf(c, r, x)
    PROVE  IsFiniteSet(U) /\ Cardinality(U) = Cardinality(S) + Cardinality(DataIn(x))
<1> DEFINE T == PlacesOf(c, r, x)
           f == [i \in DataIn(x) |-> <<c, r, i>>]
<1>1. IsFiniteSet(T) /\ Cardinality(T) = Cardinality(DataIn(x))
  <2>1. f \in [DataIn(x) -> T] /\ (\A t \in T : \E i \in DataIn(x) : f[i] = t)
        /\ \A i, j \in DataIn(x) : f[i] = f[j] => i = j
    BY DEF PlacesOf
  <2> HIDE DEF f, T
  <2>2. ExistsBijection(DataIn(x), T)
    BY <2>1 DEF ExistsBijection, Bijection, Injection, Surjection, IsInjective
  <2> QED
    BY <2>2, DataIsFinite, FS_Bijection
<1>2. S \cap T = {} /\ IsFiniteSet(S)
  BY DEF PlacesOf, Free
<1> HIDE DEF T
<1>3. Cardinality(S) \in Nat /\ Cardinality(T) \in Nat /\ Cardinality({}) = 0
  BY <1>1, <1>2, FS_CardinalityType, FS_EmptySet
<1>4. IsFiniteSet(S \cup T) /\ Cardinality(S \cup T) = Cardinality(S) + Cardinality(T) - Cardinality({})
  BY ONLY <1>1, <1>2, <1>3, FS_Union
<1> QED
  BY <1>1, <1>3, <1>4 DEF T

\* The data in front of the next character of a file.
LEMMA DataInFront ==
    ASSUME NEW file \in Seq(STRING \ {"end"}), NEW p \in Nat \ {0}
    PROVE  /\ IsFiniteSet(Upto(file, p)) /\ Cardinality(Upto(file, p)) \in Nat
           /\ Cardinality(Upto(file, p + 1)) = Cardinality(Upto(file, p)) + (IF At(file, p) = "d" THEN 1 ELSE 0)
           /\ p > Len(file) => Upto(file, p) = DataIn(file)
<1>1. Len(file) \in Nat
  BY LenProperties
<1>2. IsFiniteSet(Upto(file, p))
  <2>1. IsFiniteSet(1 .. Len(file)) /\ Upto(file, p) \in SUBSET (1 .. Len(file))
    BY <1>1, FS_Interval DEF Upto
  <2> QED
    BY <2>1, FS_Subset
<1>3. Cardinality(Upto(file, p)) \in Nat
  BY <1>2, FS_CardinalityType
<1>4. \A i \in Nat : i < p + 1 <=> i < p \/ i = p
  OBVIOUS
<1>5. CASE At(file, p) = "d"
  <2>1. p \in 1 .. Len(file) /\ file[p] = "d"
    BY <1>1, <1>5 DEF At
  <2>2. Upto(file, p + 1) = Upto(file, p) \cup {p} /\ p \notin Upto(file, p)
    BY <1>4, <2>1 DEF Upto
  <2> QED
    BY <1>1, <1>2, <1>3, <1>5, <2>1, <2>2, FS_AddElement
<1>6. CASE At(file, p) # "d"
  <2>1. ~(p \in 1 .. Len(file) /\ file[p] = "d")
    BY <1>1, <1>6 DEF At
  <2>2. Upto(file, p + 1) = Upto(file, p)
    BY <1>4, <2>1 DEF Upto
  <2>3. p > Len(file) => Upto(file, p) = DataIn(file)
    BY <1>1 DEF Upto, DataIn
  <2> QED
    BY <1>2, <1>3, <1>6, <2>2, <2>3
<1> QED
  BY <1>5, <1>6

\* The places of a table, one by one.
LEMMA DataOfWhole ==
    ASSUME NEW t, NEW k, Whole(t, k), NEW p
    PROVE  p \in DataOf(t) <=> \E c \in 0 .. t.cols - 1, r \in 0 .. k - 1 : \E i \in DataIn(CellAt(t, c, r)) : p = <<c, r, i>>
<1>1. RowCount(t) = k
  BY RowsOfTable
<1> DEFINE G(c, r) == PlacesOf(c, r, CellAt(t, c, r))
<1>2. DataOf(t) = UNION {G(c, r) : c \in 0 .. t.cols - 1, r \in 0 .. k - 1}
  BY <1>1 DEF DataOf, PlacesOf
<1>3. \A c, r : p \in G(c, r) <=> \E i \in DataIn(CellAt(t, c, r)) : p = <<c, r, i>>
  BY DEF PlacesOf
<1> HIDE DEF G
<1>4. p \in DataOf(t) <=> \E c \in 0 .. t.cols - 1, r \in 0 .. k - 1 : p \in G(c, r)
  BY <1>2
<1> QED
  BY <1>3, <1>4

\* A field that is put into an empty cell adds its place to those of the table,
\* whose other cells it leaves alone.
LEMMA CellIsPlaced ==
    ASSUME NEW t, NEW k, Whole(t, k), NEW c \in 0 .. t.cols - 1, NEW r \in Nat, (r + 1) * t.cols < Wide,
           NEW v \in Cells, r < k => CellAt(t, c, r) = <<>>
    PROVE  /\ DataOf(SetCell(t, c, r, v)) = DataOf(t) \cup PlacesOf(c, r, v)
           /\ Free(DataOf(t), c, r)
<1> DEFINE s == SetCell(t, c, r, v)
           l == IF r < k THEN k ELSE r + 1
           T == PlacesOf(c, r, v)
<1>1. k \in Nat /\ l \in Nat /\ r \in 0 .. l - 1 /\ (\A q \in 0 .. k - 1 : q \in 0 .. l - 1 /\ q < k) /\ t.cols \in Nat
  BY DEF Whole
<1>2. /\ Whole(s, l) /\ s.cols = t.cols
      /\ \A d \in 0 .. t.cols - 1, q \in 0 .. l - 1 :
             CellAt(s, d, q) = IF d = c /\ q = r THEN v ELSE IF q < k THEN CellAt(t, d, q) ELSE <<>>
  BY CellIsSet
<1>3. \A q \in 0 .. l - 1 : q < k => q \in 0 .. k - 1
  BY <1>1
<1> HIDE DEF s, l
<1>4. ASSUME NEW p \in DataOf(s) PROVE p \in DataOf(t) \cup T
  <2>0. PICK d \in 0 .. t.cols - 1, q \in 0 .. l - 1 : \E i \in DataIn(CellAt(s, d, q)) : p = <<d, q, i>>
    BY <1>2, <1>4, DataOfWhole
  <2>1. PICK i \in DataIn(CellAt(s, d, q)) : p = <<d, q, i>>
    BY <2>0
  <2>2. CASE d = c /\ q = r
    BY <1>2, <2>1, <2>2 DEF PlacesOf
  <2>3. CASE ~(d = c /\ q = r)
    <3>1. q < k
      <4>1. SUFFICES ASSUME ~(q < k) PROVE FALSE
        OBVIOUS
      <4>2. CellAt(s, d, q) = <<>>
        BY <1>2, <2>1, <2>3, <4>1
      <4> QED
        BY <2>1, <4>2, NoDataInEmpty
    <3>2. q \in 0 .. k - 1 /\ CellAt(s, d, q) = CellAt(t, d, q)
      BY <1>2, <1>3, <2>1, <2>3, <3>1
    <3>3. p \in DataOf(t)
      BY <2>1, <3>2, DataOfWhole
    <3> QED
      BY <3>3
  <2> QED
    BY <2>2, <2>3
<1>5. \A i : <<c, r, i>> \notin DataOf(t)
  <2> TAKE i
  <2>1. SUFFICES ASSUME <<c, r, i>> \in DataOf(t) PROVE FALSE
    OBVIOUS
  <2>0. PICK d \in 0 .. t.cols - 1, q \in 0 .. k - 1 : \E j \in DataIn(CellAt(t, d, q)) : <<c, r, i>> = <<d, q, j>>
    BY <2>1, DataOfWhole
  <2>2. PICK j \in DataIn(CellAt(t, d, q)) : <<c, r, i>> = <<d, q, j>>
    BY <2>0
  <2>3. CellAt(t, c, r) = <<>> /\ j \in DataIn(CellAt(t, c, r))
    BY <1>1, <2>2
  <2> QED
    BY <2>3, NoDataInEmpty
<1>6. ASSUME NEW p \in DataOf(t) PROVE p \in DataOf(s)
  <2>0. PICK d \in 0 .. t.cols - 1, q \in 0 .. k - 1 : \E i \in DataIn(CellAt(t, d, q)) : p = <<d, q, i>>
    BY <1>6, DataOfWhole
  <2>1. PICK i \in DataIn(CellAt(t, d, q)) : p = <<d, q, i>>
    BY <2>0
  <2>2. ~(d = c /\ q = r)
    BY <1>5, <1>6, <2>1
  <2>3. q \in 0 .. l - 1 /\ q < k
    BY <1>1
  <2>4. CellAt(s, d, q) = CellAt(t, d, q)
    BY <1>2, <2>2, <2>3
  <2>5. \E d1 \in 0 .. s.cols - 1, q1 \in 0 .. l - 1 : \E i1 \in DataIn(CellAt(s, d1, q1)) : p = <<d1, q1, i1>>
    BY <1>2, <2>1, <2>3, <2>4
  <2> QED
    BY <1>2, <2>5, DataOfWhole
<1>7. ASSUME NEW p \in T PROVE p \in DataOf(s)
  <2>1. PICK i \in DataIn(v) : p = <<c, r, i>>
    BY <1>7 DEF PlacesOf
  <2>2. CellAt(s, c, r) = v
    BY <1>1, <1>2
  <2>3. \E d1 \in 0 .. s.cols - 1, q1 \in 0 .. l - 1 : \E i1 \in DataIn(CellAt(s, d1, q1)) : p = <<d1, q1, i1>>
    BY <1>1, <1>2, <2>1, <2>2
  <2> QED
    BY <1>2, <2>3, DataOfWhole
<1> HIDE DEF T
<1>8. DataOf(s) = DataOf(t) \cup T
  BY <1>4, <1>6, <1>7
<1> QED
  BY <1>5, <1>8 DEF s, T, Free

\* The cells behind a column of a row have nothing in them.
Empty(t, c, r) == \A d \in 0 .. t.cols - 1, q \in 0 .. RowCount(t) - 1 :
    q > r \/ (q = r /\ d >= c) => CellAt(t, d, q) = <<>>

\* Setting the next cell leaves those behind it empty.
LEMMA CellsStayEmpty ==
    ASSUME NEW t, NEW k, Whole(t, k), NEW c \in 0 .. t.cols - 1, NEW r \in Nat, (r + 1) * t.cols < Wide,
           NEW v \in Cells, Empty(t, c, r)
    PROVE  LET s == SetCell(t, c, r, v)
           IN  /\ r < k => CellAt(t, c, r) = <<>>
               /\ Empty(s, c + 1, r) /\ Empty(s, 0, r + 1)
<1> DEFINE s == SetCell(t, c, r, v)
           l == IF r < k THEN k ELSE r + 1
<1>1. k \in Nat /\ l \in Nat /\ t.cols \in Nat /\ c \in Nat
  BY DEF Whole
<1>2. /\ Whole(s, l) /\ s.cols = t.cols
      /\ \A d \in 0 .. t.cols - 1, q \in 0 .. l - 1 :
             CellAt(s, d, q) = IF d = c /\ q = r THEN v ELSE IF q < k THEN CellAt(t, d, q) ELSE <<>>
  BY CellIsSet
<1> HIDE DEF s, l
<1>3. RowCount(t) = k /\ RowCount(s) = l
  BY <1>2, RowsOfTable
<1>4. r < k => CellAt(t, c, r) = <<>>
  BY <1>1, <1>3 DEF Empty
<1>5. ASSUME NEW d \in 0 .. t.cols - 1, NEW q \in 0 .. l - 1, q > r \/ (q = r /\ d >= c + 1)
      PROVE  CellAt(s, d, q) = <<>>
  <2>1. ~(d = c /\ q = r) /\ (q > r \/ (q = r /\ d >= c)) /\ (q < k => q \in 0 .. k - 1)
    BY <1>1, <1>5
  <2>2. q < k => CellAt(t, d, q) = <<>>
    BY <1>3, <2>1 DEF Empty
  <2> QED
    BY <1>2, <2>1, <2>2
<1>6. Empty(s, c + 1, r)
  BY <1>2, <1>3, <1>5 DEF Empty
<1>7. Empty(s, 0, r + 1)
  <2>1. \A q \in 0 .. l - 1 : q > r + 1 \/ q = r + 1 => q > r
    BY <1>1
  <2> QED
    BY <1>2, <1>3, <1>5, <2>1 DEF Empty
<1> QED
  BY <1>4, <1>6, <1>7 DEF s

\* The places of a header, one by one.
LEMMA DataOfHeader ==
    ASSUME NEW h, NEW p
    PROVE  p \in HeaderData(h) <=> \E c \in 0 .. Len(h) - 1 : \E i \in DataIn(h[c + 1]) : p = <<c, 0, i>>
<1> DEFINE G(c) == PlacesOf(c, 0, h[c + 1])
<1>1. HeaderData(h) = UNION {G(c) : c \in 0 .. Len(h) - 1}
  BY DEF HeaderData
<1>2. \A c : p \in G(c) <=> \E i \in DataIn(h[c + 1]) : p = <<c, 0, i>>
  BY DEF PlacesOf
<1> HIDE DEF G
<1>3. p \in HeaderData(h) <=> \E c \in 0 .. Len(h) - 1 : p \in G(c)
  BY <1>1
<1> QED
  BY <1>2, <1>3

\* A field of the first record has a place behind the others.
LEMMA FieldOfHeader ==
    ASSUME NEW h \in Seq(Cells), NEW f \in Cells
    PROVE  /\ HeaderData(Append(h, f)) = HeaderData(h) \cup PlacesOf(Len(h), 0, f)
           /\ Free(HeaderData(h), Len(h), 0)
<1> DEFINE g == Append(h, f)
           n == Len(h)
           T == PlacesOf(n, 0, f)
<1>1. n \in Nat /\ Len(g) = n + 1 /\ g[n + 1] = f /\ \A c \in 0 .. n - 1 : g[c + 1] = h[c + 1]
  <2>1. n \in Nat
    BY LenProperties
  <2>2. Len(g) = n + 1 /\ (\A i \in 1 .. n : g[i] = h[i]) /\ g[n + 1] = f
    BY AppendProperties
  <2> HIDE DEF g, n
  <2>3. \A c \in 0 .. n - 1 : c + 1 \in 1 .. n
    BY <2>1
  <2> QED
    BY <2>1, <2>2, <2>3
<1> HIDE DEF g
<1>2. \A i : <<n, 0, i>> \notin HeaderData(h)
  <2>1. \A c \in 0 .. n - 1 : c # n
    BY <1>1
  <2> QED
    BY <2>1, DataOfHeader
<1>3. ASSUME NEW p PROVE p \in HeaderData(g) <=> p \in HeaderData(h) \/ p \in T
  <2>1. p \in HeaderData(g) <=> \E c \in 0 .. n : \E i \in DataIn(g[c + 1]) : p = <<c, 0, i>>
    <3>1. 0 .. Len(g) - 1 = 0 .. n
      BY <1>1
    <3> QED
      BY <3>1, DataOfHeader
  <2>2. p \in HeaderData(h) <=> \E c \in 0 .. n - 1 : \E i \in DataIn(g[c + 1]) : p = <<c, 0, i>>
    BY <1>1, DataOfHeader
  <2>3. p \in T <=> \E i \in DataIn(g[n + 1]) : p = <<n, 0, i>>
    BY <1>1 DEF PlacesOf
  <2>4. \A c : c \in 0 .. n <=> c \in 0 .. n - 1 \/ c = n
    BY <1>1
  <2> HIDE DEF T, n
  <2> QED
    BY <2>1, <2>2, <2>3, <2>4
<1> QED
  BY <1>2, <1>3 DEF g, Free

\* The first row of a table has what the first record had.
LEMMA DataOfFirstRow ==
    ASSUME NEW h \in Seq(Cells), Len(h) > 0, Len(h) < Wide
    PROVE  DataOf(FirstRow(NewTable, h)) = HeaderData(h) /\ Empty(FirstRow(NewTable, h), 0, 1)
<1> DEFINE t == FirstRow(NewTable, h)
<1>1. Whole(t, 1) /\ t.cols = Len(h) /\ \A d \in 0 .. Len(h) - 1 : CellAt(t, d, 0) = h[d + 1]
  BY FirstRowIsWhole
<1> HIDE DEF t
<1>2. RowCount(t) = 1 /\ \A r : r \in 0 .. 1 - 1 <=> r = 0
  BY <1>1, RowsOfTable
<1>3. ASSUME NEW p PROVE p \in DataOf(t) <=> p \in HeaderData(h)
  <2>1. p \in DataOf(t) <=> \E c \in 0 .. t.cols - 1, r \in 0 .. 1 - 1 : \E i \in DataIn(CellAt(t, c, r)) : p = <<c, r, i>>
    BY <1>1, DataOfWhole
  <2>2. p \in DataOf(t) <=> \E c \in 0 .. t.cols - 1 : \E i \in DataIn(CellAt(t, c, 0)) : p = <<c, 0, i>>
    BY <1>2, <2>1
  <2> QED
    BY <1>1, <2>2, DataOfHeader
<1>4. Empty(t, 0, 1)
  BY <1>2 DEF Empty
<1> QED
  BY <1>3, <1>4 DEF t

-----------------------------------------------------------------------------
\* What is counted as long as there is no error: the data that has a place and
\* that of the field are those in front of a position.  A field and a header are
\* empty before they begin, and so are the cells that are still to be set.
Counted(file, st, p) ==
    /\ IsFiniteSet(Placed(st))
    /\ Cardinality(Placed(st)) + Cardinality(DataIn(st.f)) = Cardinality(Upto(file, p))
    /\ st.heading /\ st.last = "startOfRecord" => st.h = <<>>
    /\ ~st.quoted /\ st.last \in {"startOfRecord", "separator"} => st.f = <<>>
    /\ ~st.heading => Empty(st.tab, st.col, st.row)

Over(file, st, p) == st.f = <<>> /\ (st.heading => st.h = <<>>) /\ Upto(file, p) = DataIn(file)

\* Behind a position q, as the reader goes on.
Kept(file, q, st) ==
    ~st.error => Counted(file, st, st.pos) /\ IF st.good THEN st.pos > q ELSE Over(file, st, st.pos)

\* The cell that the reader sets next.
LEMMA NextCell ==
    ASSUME NEW file \in Seq(STRING), (Len(file) + 1) * (Len(file) + 1) < Wide,
           NEW st, ReaderOK(file, st), st.good, ~st.error, ~st.heading
    PROVE  /\ \E k \in Nat \ {0} : Whole(st.tab, k) /\ st.tab.hdrs = <<>> /\ st.tab.cols < MaxColumns
           /\ st.col \in 0 .. st.tab.cols - 1 /\ st.row \in Nat /\ (st.row + 1) * st.tab.cols < Wide
           /\ st.f \in Cells
<1> DEFINE M == Len(file) + 1
<1>1. st \in ReaderStates /\ Made(st) /\ Bounded(file, st, st.pos - 1) /\ st.pos <= M /\ M \in Nat
  BY ReadingIsBetween, LenProperties DEF ReaderOK, Between
<1>2. /\ Filled(st.tab) /\ st.row <= st.pos - 1 /\ st.col < st.tab.cols /\ st.tab.cols <= M
      /\ st.col \in Nat /\ st.row \in Nat /\ st.pos \in Nat \ {0} /\ st.f \in Cells
  BY <1>1 DEF Made, Bounded, ReaderStates
<1>3. PICK k \in Nat \ {0} : Whole(st.tab, k) /\ st.tab.hdrs = <<>> /\ st.tab.cols < MaxColumns
  BY <1>2 DEF Filled
<1>4. (st.row + 1) * st.tab.cols < Wide
  <2>1. st.row + 1 <= M /\ st.row + 1 \in Nat /\ st.tab.cols \in Nat
    BY <1>1, <1>2, <1>3 DEF Whole
  <2>2. (st.row + 1) * st.tab.cols <= M * M /\ (st.row + 1) * st.tab.cols \in Nat
    BY <1>1, <1>2, <2>1, CellCounts
  <2>3. M * M < Wide /\ M * M \in Nat /\ Wide \in Nat
    BY <1>1, WidthAssumption
  <2> HIDE DEF M
  <2> QED
    BY <2>2, <2>3
<1>5. st.col \in 0 .. st.tab.cols - 1
  BY <1>2, <1>3 DEF Whole
<1> QED
  BY <1>2, <1>3, <1>4, <1>5

\* A field that is ready gets a place.
LEMMA FieldIsCounted ==
    ASSUME NEW file \in Seq(STRING), (Len(file) + 1) * (Len(file) + 1) < Wide,
           NEW st, ReaderOK(file, st), st.good, ~st.error, NEW p, Counted(file, st, p)
    PROVE  LET s == FieldReady(st)
           IN  /\ IsFiniteSet(Placed(s)) /\ Cardinality(Placed(s)) = Cardinality(Upto(file, p)) /\ s.f = <<>>
               /\ ~st.heading => Empty(s.tab, st.col + 1, st.row) /\ Empty(s.tab, 0, st.row + 1)
<1> DEFINE s == FieldReady(st)
<1>1. st \in ReaderStates /\ st.f \in Cells /\ st.h \in Seq(Cells)
  BY DEF ReaderOK, ReaderStates
<1>2. CASE st.heading
  <2> DEFINE k == Append(st.h, st.f)
  <2>1. s = [st EXCEPT !.h = k, !.f = <<>>]
    BY <1>2 DEF FieldReady
  <2> HIDE DEF k, s
  <2>2. s.h = k /\ s.heading = st.heading /\ s.f = <<>>
    BY <1>1, <2>1 DEF ReaderStates
  <2>3. Placed(st) = HeaderData(st.h) /\ Placed(s) = HeaderData(k)
    BY <1>2, <2>2 DEF Placed
  <2>4. /\ Placed(s) = Placed(st) \cup PlacesOf(Len(st.h), 0, st.f)
        /\ Free(Placed(st), Len(st.h), 0)
    BY <1>1, <2>3, FieldOfHeader DEF k
  <2>5. IsFiniteSet(Placed(s)) /\ Cardinality(Placed(s)) = Cardinality(Placed(st)) + Cardinality(DataIn(st.f))
    <3>1. IsFiniteSet(Placed(st))
      BY DEF Counted
    <3> QED
      BY ONLY <1>1, <2>4, <3>1, FieldIsPlaced
  <2> QED
    BY <1>2, <2>2, <2>5 DEF s, Counted
<1>3. CASE ~st.heading
  <2>1. /\ st.col \in 0 .. st.tab.cols - 1 /\ st.row \in Nat /\ (st.row + 1) * st.tab.cols < Wide
        /\ \E k \in Nat \ {0} : Whole(st.tab, k)
    BY <1>3, NextCell
  <2>2. PICK k \in Nat \ {0} : Whole(st.tab, k)
    BY <2>1
  <2> DEFINE t == SetCell(st.tab, st.col, st.row, st.f)
  <2>3. Empty(st.tab, st.col, st.row)
    BY <1>3 DEF Counted
  <2>4. /\ st.row < k => CellAt(st.tab, st.col, st.row) = <<>>
        /\ Empty(t, st.col + 1, st.row) /\ Empty(t, 0, st.row + 1)
    BY <1>1, <2>1, <2>2, <2>3, CellsStayEmpty
  <2>5. /\ DataOf(t) = DataOf(st.tab) \cup PlacesOf(st.col, st.row, st.f)
        /\ Free(DataOf(st.tab), st.col, st.row)
    BY <1>1, <2>1, <2>2, <2>4, CellIsPlaced
  <2>6. s = [st EXCEPT !.tab = t, !.f = <<>>]
    BY <1>3 DEF FieldReady
  <2> HIDE DEF t, s
  <2>7. s.tab = t /\ s.heading = st.heading /\ s.f = <<>>
    BY <1>1, <2>6 DEF ReaderStates
  <2>8. Placed(st) = DataOf(st.tab) /\ Placed(s) = DataOf(t)
    BY <1>3, <2>7 DEF Placed
  <2>9. IsFiniteSet(Placed(s)) /\ Cardinality(Placed(s)) = Cardinality(Placed(st)) + Cardinality(DataIn(st.f))
    <3>1. IsFiniteSet(DataOf(st.tab))
      BY <2>8 DEF Counted
    <3>2. IsFiniteSet(DataOf(t)) /\ Cardinality(DataOf(t)) = Cardinality(DataOf(st.tab)) + Cardinality(DataIn(st.f))
      BY ONLY <1>1, <2>5, <3>1, FieldIsPlaced
    <3> QED
      BY <2>8, <3>2
  <2> QED
    BY <2>4, <2>7, <2>9 DEF s, Counted
<1> QED
  BY <1>2, <1>3

\* Only a record that has ended may be the last one.
RecordRead(file, st) == st.pos > Len(file) => st.f = <<>> /\ (st.heading => st.h = <<>>)

\* An error ends the reading, and nothing is promised.
LEMMA KeptByError ==
    ASSUME NEW file, NEW st \in ReaderStates, st.error, NEW n, NEW peeked
    PROVE  \A q : Kept(file, q, Continue(file, st, n, peeked)) /\ Kept(file, q, st)
<1> DEFINE s == Continue(file, st, n, peeked)
<1>1. s.error = st.error
  BY DEF Continue, ReaderStates
<1> HIDE DEF s
<1> QED
  BY <1>1 DEF Kept, s

\* What is counted up to the characters that are read is kept by reading them.
LEMMA KeptByReading ==
    ASSUME NEW file \in Seq(STRING \ {"end"}), NEW st \in ReaderStates, NEW n \in {1, 2}, NEW peeked,
           Counted(file, st, st.pos + n), RecordRead(file, st), peeked => st.pos # Len(file)
    PROVE  Kept(file, st.pos, Continue(file, st, n, peeked))
<1> DEFINE s == Continue(file, st, n, peeked)
           g == st.pos <= Len(file) /\ ~(peeked /\ st.pos = Len(file))
           p == st.pos + n
<1>1. Len(file) \in Nat /\ st.pos \in Nat \ {0} /\ p \in Nat \ {0} /\ st.pos < p
  BY LenProperties DEF ReaderStates
<1>2. s = [st EXCEPT !.pos = p, !.good = g]
  BY DEF Continue
<1>3. ~g => st.pos > Len(file)
  BY <1>1
<1> HIDE DEF s, g
<1>4. p > Len(file) => Upto(file, p) = DataIn(file)
  BY <1>1, DataInFront
<1>5. st.pos > Len(file) => p > Len(file)
  BY <1>1
<1> HIDE DEF p
<1>6. /\ s.tab = st.tab /\ s.h = st.h /\ s.heading = st.heading /\ s.col = st.col /\ s.row = st.row
      /\ s.f = st.f /\ s.last = st.last /\ s.quoted = st.quoted /\ s.pos = p /\ s.good = g
  BY <1>2 DEF ReaderStates
<1>7. Counted(file, s, p)
  BY <1>6 DEF Counted, Placed, p
<1>8. ~s.good => Over(file, s, p)
  BY <1>3, <1>4, <1>5, <1>6 DEF Over, RecordRead
<1>9. p > st.pos
  BY <1>1
<1> QED
  BY <1>6, <1>7, <1>8, <1>9 DEF Kept, s

\* The same, for the numbers of characters that the reader reads.
LEMMA KeptBy ==
    ASSUME NEW file \in Seq(STRING \ {"end"}), NEW st \in ReaderStates, RecordRead(file, st)
    PROVE  /\ Counted(file, st, st.pos + 1) =>
                  /\ Kept(file, st.pos, Continue(file, st, 1, FALSE))
                  /\ st.pos # Len(file) => Kept(file, st.pos, Continue(file, st, 1, TRUE))
           /\ Counted(file, st, st.pos + 2) => Kept(file, st.pos, Continue(file, st, 2, FALSE))
<1>1. \A peeked : Counted(file, st, st.pos + 1) /\ (peeked => st.pos # Len(file)) => Kept(file, st.pos, Continue(file, st, 1, peeked))
  BY KeptByReading
<1>2. \A peeked : Counted(file, st, st.pos + 2) /\ (peeked => st.pos # Len(file)) => Kept(file, st.pos, Continue(file, st, 2, peeked))
  BY KeptByReading
<1> QED
  BY <1>1, <1>2, Zenon

\* What a step of the reader starts from.
Going(file, st) == ReaderOK(file, st) /\ Counted(file, st, st.pos) /\ st.good /\ ~st.error

\* The data of a character.
LEMMA DataOfCharacter ==
    ASSUME NEW c, <<c>> \in Cells
    PROVE  Cardinality(DataIn(<<c>>)) = IF c = "d" THEN 1 ELSE 0
<1>1. CASE c = "d"
  <2>1. DataIn(<<c>>) = {1}
    BY <1>1 DEF DataIn
  <2> QED
    BY <1>1, <2>1, FS_Singleton
<1>2. CASE c # "d"
  <2>1. DataIn(<<c>>) = {}
    BY <1>2 DEF DataIn
  <2> QED
    BY <1>2, <2>1, FS_EmptySet
<1> QED
  BY <1>1, <1>2

\* The end of a line is no data.
LEMMA NoDataInLineEnd == Cardinality(DataIn(<<"r", "n">>)) = 0
<1>1. DataIn(<<"r", "n">>) = {}
  BY DEF DataIn
<1> QED
  BY <1>1, FS_EmptySet

\* What is put behind the field is counted.
LEMMA PushedIsCounted ==
    ASSUME NEW file, NEW st \in ReaderStates, NEW p, Counted(file, st, p), NEW x \in Cells, NEW q,
           Cardinality(Upto(file, q)) = Cardinality(Upto(file, p)) + Cardinality(DataIn(x))
    PROVE  Counted(file, Push(st, x), q) /\ Push(st, x) \in ReaderStates /\ Push(st, x).pos = st.pos
<1> DEFINE s == Push(st, x)
           y == st.f \o x
<1>1. st.f \in Cells
  BY DEF ReaderStates
<1>2. y \in Cells /\ Cardinality(DataIn(y)) = Cardinality(DataIn(st.f)) + Cardinality(DataIn(x))
  BY <1>1, DataOfConcat
<1>3. s = [st EXCEPT !.f = y, !.last = "fieldData"]
  BY DEF Push
<1> HIDE DEF s, y
<1>4. /\ s.tab = st.tab /\ s.h = st.h /\ s.heading = st.heading /\ s.col = st.col /\ s.row = st.row
      /\ s.f = y /\ s.last = "fieldData" /\ s \in ReaderStates /\ s.pos = st.pos
  BY <1>2, <1>3 DEF ReaderStates
<1>5. Placed(s) = Placed(st)
  BY <1>4 DEF Placed
<1>6. IsFiniteSet(Placed(st)) /\ Cardinality(Placed(st)) \in Nat /\ Cardinality(DataIn(st.f)) \in Nat /\ Cardinality(DataIn(x)) \in Nat
  BY <1>1, DataIsFinite, FS_CardinalityType DEF Counted
<1>7. Cardinality(Placed(s)) + Cardinality(DataIn(s.f)) = Cardinality(Upto(file, q))
  BY <1>2, <1>4, <1>5, <1>6 DEF Counted
<1> QED
  BY <1>4, <1>5, <1>6, <1>7 DEF s, Counted

\* Each step keeps the data: one between quotes,
LEMMA KeptInQuotes ==
    ASSUME NEW file \in Seq(STRING \ {"end"}), file \in Seq(STRING), file[Len(file)] = "n", NEW st, Going(file, st)
    PROVE  Kept(file, st.pos, InQuotes(file, st))
<1> DEFINE c == At(file, st.pos)
           e == At(file, st.pos + 1)
           U(p) == Cardinality(Upto(file, p))
<1>1. st \in ReaderStates /\ st.pos \in Nat \ {0} /\ st.pos + 1 \in Nat \ {0} /\ Counted(file, st, st.pos) /\ st.f \in Cells
  BY DEF Going, ReaderOK, ReaderStates
<1>2. c # "end" => st.pos <= Len(file) /\ <<c>> \in Cells
  BY <1>1, CharacterOfFile
<1>3. /\ U(st.pos) \in Nat /\ U(st.pos + 1) = U(st.pos) + (IF c = "d" THEN 1 ELSE 0)
      /\ U(st.pos + 2) = U(st.pos + 1) + (IF e = "d" THEN 1 ELSE 0)
  <2>1. U(st.pos) \in Nat /\ U(st.pos + 1) = U(st.pos) + (IF c = "d" THEN 1 ELSE 0)
    BY <1>1, DataInFront
  <2>2. U(st.pos + 1 + 1) = U(st.pos + 1) + (IF e = "d" THEN 1 ELSE 0)
    BY <1>1, DataInFront
  <2>3. st.pos + 1 + 1 = st.pos + 2
    BY <1>1
  <2> QED
    BY <2>1, <2>2, <2>3
<1>4. c # "end" => RecordRead(file, st) /\ (c # "n" => st.pos # Len(file))
  <2>1. st.pos <= Len(file) => ~(st.pos > Len(file))
    BY <1>1, LenProperties
  <2> QED
    BY <1>2, <2>1 DEF RecordRead, At
<1> HIDE DEF c, e, U
<1>5. ASSUME c # "end", NEW x \in Cells
      PROVE  /\ U(st.pos + 1) = U(st.pos) + Cardinality(DataIn(x)) =>
                    /\ Kept(file, st.pos, Continue(file, Push(st, x), 1, FALSE))
                    /\ c # "n" => Kept(file, st.pos, Continue(file, Push(st, x), 1, TRUE))
             /\ U(st.pos + 2) = U(st.pos) + Cardinality(DataIn(x)) => Kept(file, st.pos, Continue(file, Push(st, x), 2, FALSE))
  <2> DEFINE s == Push(st, x)
  <2>1. s \in ReaderStates /\ s.pos = st.pos
    <3>1. st.f \o x \in Cells
      BY <1>1, DataOfConcat
    <3> QED
      BY <1>1, <3>1 DEF Push, ReaderStates
  <2>2. /\ U(st.pos + 1) = U(st.pos) + Cardinality(DataIn(x)) => Counted(file, s, st.pos + 1)
        /\ U(st.pos + 2) = U(st.pos) + Cardinality(DataIn(x)) => Counted(file, s, st.pos + 2)
    BY <1>1, PushedIsCounted DEF U
  <2> HIDE DEF s
  <2>3. RecordRead(file, s)
    <3>1. ~(st.pos > Len(file))
      BY <1>1, <1>2, <1>5, LenProperties
    <3> QED
      BY <2>1, <3>1 DEF RecordRead
  <2> QED
    BY <1>4, <1>5, <2>1, <2>2, <2>3, KeptBy DEF s
<1>6. Kept(file, st.pos, Refused(st))
  <2>1. Refused(st) \in ReaderStates /\ Refused(st).error
    BY <1>1 DEF Refused, ReaderStates
  <2> QED
    BY <2>1, KeptByError
<1>7. c = "q" => Kept(file, st.pos, Continue(file, [st EXCEPT !.quoted = FALSE, !.last = "endQuote"], 1, TRUE))
  <2> SUFFICES ASSUME c = "q" PROVE Kept(file, st.pos, Continue(file, [st EXCEPT !.quoted = FALSE, !.last = "endQuote"], 1, TRUE))
    OBVIOUS
  <2> DEFINE s == [st EXCEPT !.quoted = FALSE, !.last = "endQuote"]
  <2>1. /\ s \in ReaderStates /\ s.tab = st.tab /\ s.h = st.h /\ s.heading = st.heading /\ s.col = st.col
        /\ s.row = st.row /\ s.pos = st.pos /\ s.f = st.f /\ s.last = "endQuote"
    BY <1>1 DEF ReaderStates
  <2> HIDE DEF s
  <2>2. U(st.pos + 1) = U(st.pos)
    BY <1>3
  <2>3. Counted(file, s, st.pos + 1)
    BY <1>1, <2>1, <2>2 DEF Counted, Placed, U
  <2>4. RecordRead(file, s) /\ s.pos # Len(file)
    BY <1>4, <2>1 DEF RecordRead
  <2> QED
    BY <2>1, <2>3, <2>4, KeptBy DEF s
<1>8. CASE c \in {"end", "F"}
  BY <1>6, <1>8 DEF InQuotes, c
<1>9. CASE c = "r"
  <2>1. InQuotes(file, st) = IF e = "n" THEN Continue(file, Push(st, <<"r", "n">>), 2, FALSE)
                             ELSE Continue(file, Push(st, <<"r">>), 1, TRUE)
    BY <1>9 DEF InQuotes, c, e
  <2>2. <<"r", "n">> \in Cells
    <3>1. "r" \in Letters /\ "n" \in Letters
      BY DEF Letters
    <3>2. ASSUME NEW S, NEW x \in S, NEW y \in S PROVE <<x, y>> \in Seq(S)
      OBVIOUS
    <3> QED
      BY <3>1, <3>2 DEF Cells
  <2>3. <<"r">> \in Cells /\ Cardinality(DataIn(<<"r">>)) = 0
    BY <1>2, <1>9, DataOfCharacter
  <2>4. U(st.pos + 1) = U(st.pos) + 0 /\ (e = "n" => U(st.pos + 2) = U(st.pos) + 0)
    BY <1>3, <1>9
  <2>5. CASE e = "n"
    BY <1>5, <1>9, <2>1, <2>2, <2>4, <2>5, NoDataInLineEnd
  <2>6. CASE e # "n"
    BY <1>5, <1>9, <2>1, <2>3, <2>4, <2>6
  <2> QED
    BY <2>5, <2>6
<1>10. CASE c = "q"
  <2>1. InQuotes(file, st) = IF e = "q" THEN Continue(file, Push(st, <<"q">>), 2, FALSE)
                             ELSE Continue(file, [st EXCEPT !.quoted = FALSE, !.last = "endQuote"], 1, TRUE)
    BY <1>10 DEF InQuotes, c, e
  <2>2. <<"q">> \in Cells /\ Cardinality(DataIn(<<"q">>)) = 0
    BY <1>2, <1>10, DataOfCharacter
  <2>3. e = "q" => U(st.pos + 2) = U(st.pos) + 0
    BY <1>3, <1>10
  <2>4. CASE e = "q"
    BY <1>5, <1>10, <2>1, <2>2, <2>3, <2>4
  <2>5. CASE e # "q"
    BY <1>7, <1>10, <2>1, <2>5
  <2> QED
    BY <2>4, <2>5
<1>11. CASE c \notin {"end", "F", "r", "q"}
  <2>1. InQuotes(file, st) = Continue(file, Push(st, <<c>>), 1, FALSE)
    BY <1>11 DEF InQuotes, c
  <2>2. <<c>> \in Cells /\ U(st.pos + 1) = U(st.pos) + Cardinality(DataIn(<<c>>))
    BY <1>2, <1>3, <1>11, DataOfCharacter
  <2> QED
    BY <1>5, <1>11, <2>1, <2>2
<1> QED
  BY <1>8, <1>9, <1>10, <1>11

\* A step that reads a character that is no data.
LEMMA NextIsNoData ==
    ASSUME NEW file \in Seq(STRING \ {"end"}), NEW st, Going(file, st), At(file, st.pos) # "d"
    PROVE  /\ Cardinality(Upto(file, st.pos + 1)) = Cardinality(Upto(file, st.pos))
           /\ At(file, st.pos + 1) = "n" => Cardinality(Upto(file, st.pos + 2)) = Cardinality(Upto(file, st.pos))
<1> DEFINE U(p) == Cardinality(Upto(file, p))
<1>1. st.pos \in Nat \ {0} /\ st.pos + 1 \in Nat \ {0}
  BY DEF Going, ReaderOK, ReaderStates
<1>2. U(st.pos) \in Nat /\ U(st.pos + 1) = U(st.pos) + 0
  BY <1>1, DataInFront
<1>3. At(file, st.pos + 1) = "n" => U(st.pos + 1 + 1) = U(st.pos + 1) + 0
  BY <1>1, DataInFront
<1>4. st.pos + 1 + 1 = st.pos + 2
  BY <1>1
<1> QED
  BY <1>2, <1>3, <1>4

\* A character that is read is not behind the end, and at the end only if it is a newline.
LEMMA EndingInFile ==
    ASSUME NEW file \in Seq(STRING), NEW st, Going(file, st), At(file, st.pos) # "end",
           NEW s, s.pos = st.pos
    PROVE  RecordRead(file, s) /\ (file[Len(file)] = "n" /\ At(file, st.pos) # "n" => st.pos # Len(file))
<1>1. st.pos \in Nat \ {0} /\ Len(file) \in Nat
  BY LenProperties DEF Going, ReaderOK, ReaderStates
<1>2. st.pos <= Len(file)
  BY <1>1, CharacterOfFile
<1>3. ~(st.pos > Len(file)) /\ At(file, st.pos) = file[st.pos]
  BY <1>1, <1>2 DEF At
<1> QED
  BY <1>3 DEF RecordRead

\* one at a quote,
LEMMA KeptAtQuote ==
    ASSUME NEW file \in Seq(STRING \ {"end"}), file \in Seq(STRING), NEW st, Going(file, st),
           ~st.quoted, At(file, st.pos) = "q"
    PROVE  Kept(file, st.pos, Quote(file, st))
<1> DEFINE U(p) == Cardinality(Upto(file, p))
           s == Push(st, <<"q">>)
           b == [st EXCEPT !.quoted = TRUE, !.f = <<>>]
<1>1. /\ st \in ReaderStates /\ Counted(file, st, st.pos) /\ U(st.pos + 1) = U(st.pos) /\ U(st.pos) \in Nat
      /\ st.last \in {"startOfRecord", "fieldData", "endQuote", "separator"} /\ st.pos \in Nat \ {0}
  BY NextIsNoData, DataInFront DEF Going, ReaderOK, ReaderStates
<1> HIDE DEF U
<1>2. CASE st.last = "fieldData"
  <2>1. <<"q">> \in Cells /\ Cardinality(DataIn(<<"q">>)) = 0
    <3>1. <<At(file, st.pos)>> \in Cells
      BY <1>1, CharacterOfFile
    <3> QED
      BY <3>1, DataOfCharacter
  <2>2. U(st.pos + 1) = U(st.pos) + Cardinality(DataIn(<<"q">>))
    BY <1>1, <2>1
  <2>3. Counted(file, s, st.pos + 1) /\ s \in ReaderStates /\ s.pos = st.pos
    BY <1>1, <2>1, <2>2, PushedIsCounted DEF U
  <2> HIDE DEF s
  <2>4. RecordRead(file, s)
    BY <2>3, EndingInFile
  <2>5. Kept(file, st.pos, Continue(file, s, 1, FALSE))
    BY <2>3, <2>4, KeptBy
  <2> QED
    BY <1>2, <2>5 DEF Quote, s
<1>3. CASE st.last = "endQuote"
  <2>1. Refused(st) \in ReaderStates /\ Refused(st).error
    BY <1>1 DEF Refused, ReaderStates
  <2>2. Quote(file, st) = Refused(st)
    BY <1>3 DEF Quote
  <2> QED
    BY <2>1, <2>2, KeptByError
<1>4. CASE st.last \in {"startOfRecord", "separator"}
  <2>1. st.f = <<>>
    BY <1>1, <1>4 DEF Counted
  <2>2. <<>> \in Cells
    BY EmptySeq DEF Cells
  <2>3. /\ b \in ReaderStates /\ b.tab = st.tab /\ b.h = st.h /\ b.heading = st.heading /\ b.col = st.col
        /\ b.row = st.row /\ b.pos = st.pos /\ b.f = st.f /\ b.last = st.last /\ b.quoted = TRUE
    BY <1>1, <2>1, <2>2 DEF ReaderStates
  <2>4. Quote(file, st) = Continue(file, b, 1, FALSE)
    BY <1>4 DEF Quote
  <2> HIDE DEF b
  <2>5. Counted(file, b, st.pos + 1)
    BY <1>1, <2>3 DEF Counted, Placed, U
  <2>6. RecordRead(file, b)
    BY <2>3, EndingInFile
  <2> QED
    BY <2>3, <2>4, <2>5, <2>6, KeptBy
<1> QED
  BY <1>1, <1>2, <1>3, <1>4

\* and one at a separator.
LEMMA KeptAtSeparator ==
    ASSUME NEW file \in Seq(STRING \ {"end"}), file \in Seq(STRING), (Len(file) + 1) * (Len(file) + 1) < Wide,
           NEW st, Going(file, st), At(file, st.pos) = "s"
    PROVE  Kept(file, st.pos, Separator(file, st))
<1> DEFINE U(p) == Cardinality(Upto(file, p))
           s == FieldReady(st)
           r == [s EXCEPT !.last = "separator"]
           n == r.col + 1
           d == [r EXCEPT !.col = n]
<1>1. /\ st \in ReaderStates /\ Counted(file, st, st.pos) /\ U(st.pos + 1) = U(st.pos) /\ U(st.pos) \in Nat
      /\ st.pos \in Nat \ {0} /\ ReaderOK(file, st) /\ st.good /\ ~st.error /\ st.col \in Nat
  BY NextIsNoData, DataInFront DEF Going, ReaderOK, ReaderStates
<1> HIDE DEF U
<1>2. /\ s \in ReaderStates /\ s.pos = st.pos /\ s.heading = st.heading /\ s.col = st.col /\ s.row = st.row
  BY <1>1, FieldIsReady DEF Between
<1>3. /\ IsFiniteSet(Placed(s)) /\ Cardinality(Placed(s)) = U(st.pos) /\ s.f = <<>>
      /\ ~st.heading => Empty(s.tab, st.col + 1, st.row)
  BY <1>1, FieldIsCounted DEF U
<1> HIDE DEF s
<1>4. /\ r \in ReaderStates /\ r.tab = s.tab /\ r.h = s.h /\ r.heading = s.heading /\ r.col = s.col
      /\ r.row = s.row /\ r.pos = s.pos /\ r.f = s.f /\ r.last = "separator"
  BY <1>2 DEF ReaderStates
<1> HIDE DEF r
<1>5. CASE st.heading
  <2>1. Separator(file, st) = Continue(file, r, 1, FALSE)
    BY <1>5 DEF Separator, r, s
  <2>2. Counted(file, r, st.pos + 1)
    BY <1>1, <1>2, <1>3, <1>4, <1>5, NoDataInEmpty DEF Counted, Placed, U
  <2>3. RecordRead(file, r)
    BY <1>2, <1>4, EndingInFile
  <2> QED
    BY <1>2, <1>4, <2>1, <2>2, <2>3, KeptBy
<1>6. CASE ~st.heading /\ st.col + 1 >= st.tab.cols
  <2>1. Refused(r) \in ReaderStates /\ Refused(r).error
    BY <1>4 DEF Refused, ReaderStates
  <2>2. Separator(file, st) = Refused(r)
    BY <1>6 DEF Separator, r, s
  <2> QED
    BY <2>1, <2>2, KeptByError
<1>7. CASE ~st.heading /\ ~(st.col + 1 >= st.tab.cols)
  <2>1. Separator(file, st) = Continue(file, d, 1, FALSE)
    BY <1>7 DEF Separator, d, n, r, s
  <2>2. n \in Nat /\ n = st.col + 1
    BY <1>1, <1>2, <1>4
  <2> HIDE DEF n
  <2>3. /\ d \in ReaderStates /\ d.tab = r.tab /\ d.h = r.h /\ d.heading = r.heading /\ d.col = n
        /\ d.row = r.row /\ d.pos = r.pos /\ d.f = r.f /\ d.last = r.last
    BY <1>4, <2>2 DEF ReaderStates
  <2> HIDE DEF d
  <2>4. Placed(d) = Placed(s) /\ ~d.heading
    BY <1>2, <1>4, <1>7, <2>3 DEF Placed
  <2>5. Counted(file, d, st.pos + 1)
    BY <1>1, <1>2, <1>3, <1>4, <1>7, <2>2, <2>3, <2>4, NoDataInEmpty DEF Counted, U
  <2>6. RecordRead(file, d)
    BY <1>2, <1>4, <2>3, EndingInFile
  <2> QED
    BY <1>2, <1>4, <2>1, <2>3, <2>5, <2>6, KeptBy
<1> QED
  BY <1>5, <1>6, <1>7

\* The state behind the end of a record.
EndedRecord(st) ==
    [(IF st.heading THEN HeaderReady(FieldReady(st)) ELSE NextRow(FieldReady(st))) EXCEPT !.last = "startOfRecord"]

\* All that was read has a place behind the end of a record, unless it is refused.
LEMMA RecordIsCounted ==
    ASSUME NEW file \in Seq(STRING), (Len(file) + 1) * (Len(file) + 1) < Wide,
           NEW st, Going(file, st), NEW p, Cardinality(Upto(file, p)) = Cardinality(Upto(file, st.pos)),
           Cardinality(Upto(file, st.pos)) \in Nat, NEW r, r = EndedRecord(st)
    PROVE  r \in ReaderStates /\ r.pos = st.pos /\ (r.error \/ (Counted(file, r, p) /\ ~r.heading /\ r.f = <<>>))
<1> DEFINE s == FieldReady(st)
           ended == IF st.heading THEN HeaderReady(s) ELSE NextRow(s)
           m == Cardinality(Upto(file, st.pos))
<1>1. st \in ReaderStates /\ Counted(file, st, st.pos) /\ ReaderOK(file, st) /\ st.good /\ ~st.error
  BY DEF Going, ReaderOK
<1>2. /\ Between(file, s) /\ s.pos = st.pos /\ s.heading = st.heading /\ s.col = st.col /\ s.row = st.row
      /\ IF st.heading THEN Len(s.h) > 0 ELSE s.row <= s.pos - 1
  BY <1>1, FieldIsReady
<1>3. /\ IsFiniteSet(Placed(s)) /\ Cardinality(Placed(s)) = m /\ s.f = <<>>
      /\ ~st.heading => Empty(s.tab, 0, st.row + 1)
  BY <1>1, FieldIsCounted
<1> HIDE DEF m, s
<1>4. s \in ReaderStates /\ s.h \in Seq(Cells) /\ s.row \in Nat
  BY <1>2 DEF Between, ReaderStates
<1>5. Between(file, ended) /\ ended.pos = st.pos
  BY <1>2, HeaderIsReady, RowIsNext
<1>6. ended.error \/ (/\ ~ended.heading /\ ended.f = <<>> /\ Placed(ended) = Placed(s)
                      /\ Empty(ended.tab, ended.col, ended.row))
  <2>1. CASE st.heading /\ Len(s.h) >= MaxColumns
    <3>1. ended = [s EXCEPT !.error = TRUE]
      BY <2>1 DEF HeaderReady, Refused
    <3> HIDE DEF ended
    <3> QED
      BY <1>4, <3>1 DEF ReaderStates
  <2>2. CASE st.heading /\ ~(Len(s.h) >= MaxColumns)
    <3> DEFINE t == FirstRow(s.tab, s.h)
    <3>1. ended = [s EXCEPT !.tab = t, !.h = <<>>, !.row = 1, !.col = 0, !.heading = FALSE]
      BY <2>2 DEF HeaderReady
    <3>2. s.tab = NewTable
      BY <1>2, <2>2 DEF Between, Made
    <3>3. DataOf(t) = HeaderData(s.h) /\ Empty(t, 0, 1)
      <4>1. Len(s.h) < Wide
        BY <1>4, <2>2, WidthAssumption, LenProperties
      <4> QED
        BY <1>2, <1>4, <2>2, <3>2, <4>1, DataOfFirstRow
    <3> HIDE DEF t, ended
    <3>4. ended.tab = t /\ ended.heading = FALSE /\ ended.col = 0 /\ ended.row = 1 /\ ended.f = s.f
      BY <1>4, <3>1 DEF ReaderStates
    <3> QED
      BY <1>2, <1>3, <2>2, <3>3, <3>4 DEF Placed
  <2>3. CASE ~st.heading /\ s.row = Wide - 1
    <3>1. ended = [s EXCEPT !.error = TRUE]
      BY <2>3 DEF NextRow, Refused
    <3> HIDE DEF ended
    <3> QED
      BY <1>4, <3>1 DEF ReaderStates
  <2>4. CASE ~st.heading /\ s.row # Wide - 1
    <3> DEFINE n == s.row + 1
    <3>1. ended = [s EXCEPT !.row = n, !.col = 0]
      BY <2>4 DEF NextRow
    <3>2. n = st.row + 1
      BY <1>2
    <3> HIDE DEF n, ended
    <3>3. ended.tab = s.tab /\ ended.heading = s.heading /\ ended.col = 0 /\ ended.row = n /\ ended.f = s.f
      BY <1>4, <3>1 DEF ReaderStates
    <3> QED
      BY <1>2, <1>3, <2>4, <3>2, <3>3 DEF Placed
  <2> QED
    BY <2>1, <2>2, <2>3, <2>4
<1>7. r = [ended EXCEPT !.last = "startOfRecord"]
  BY DEF s, EndedRecord
<1> HIDE DEF ended
<1>8. /\ r \in ReaderStates /\ r.tab = ended.tab /\ r.h = ended.h /\ r.heading = ended.heading /\ r.col = ended.col
      /\ r.row = ended.row /\ r.pos = ended.pos /\ r.f = ended.f /\ r.error = ended.error
  <2>1. ended \in ReaderStates
    BY <1>5 DEF Between
  <2> QED
    BY <1>7, <2>1 DEF ReaderStates
<1>9. ASSUME ~ended.error PROVE Counted(file, r, p)
  <2>1. Placed(r) = Placed(s)
    BY <1>6, <1>8, <1>9 DEF Placed
  <2>2. Cardinality(Upto(file, p)) = m /\ m \in Nat
    BY DEF m
  <2>3. Cardinality(Placed(r)) + Cardinality(DataIn(r.f)) = Cardinality(Upto(file, p))
    BY <1>3, <1>6, <1>8, <1>9, <2>1, <2>2, NoDataInEmpty
  <2> QED
    BY <1>3, <1>6, <1>8, <1>9, <2>1, <2>3 DEF Counted
<1> QED
  BY <1>5, <1>6, <1>8, <1>9

\* A step at the end of a record, or of the file, keeps the data.
LEMMA KeptAtEndOfRecord ==
    ASSUME NEW file \in Seq(STRING \ {"end"}), file \in Seq(STRING), (Len(file) + 1) * (Len(file) + 1) < Wide,
           file[Len(file)] = "n", NEW st, Going(file, st),
           ~st.quoted, At(file, st.pos) \in {"r", "n", "end", "F"}
    PROVE  Kept(file, st.pos, EndOfRecord(file, st))
<1> DEFINE crlf == At(file, st.pos) = "r" /\ At(file, st.pos + 1) = "n"
           n == IF crlf THEN 2 ELSE 1
           peeked == At(file, st.pos) = "r" /\ ~crlf
           r == EndedRecord(st)
           e == Returned(st)
           p == st.pos + n
<1>1. /\ st \in ReaderStates /\ Counted(file, st, st.pos) /\ st.pos \in Nat \ {0} /\ Len(file) \in Nat
      /\ Cardinality(Upto(file, st.pos)) \in Nat /\ At(file, st.pos) # "d"
  BY DataInFront, LenProperties DEF Going, ReaderOK, ReaderStates
<1>2. n \in {1, 2} /\ p \in Nat \ {0} /\ Cardinality(Upto(file, p)) = Cardinality(Upto(file, st.pos))
  BY <1>1, NextIsNoData
<1>3. EndOfRecord(file, st) = IF st.last = "startOfRecord"
                              THEN IF At(file, p) # "end" THEN Refused(st) ELSE e
                              ELSE Continue(file, r, n, peeked)
  BY DEF EndOfRecord, EndedRecord
<1>4. CASE st.last = "startOfRecord" /\ At(file, p) # "end"
  <2>1. Refused(st) \in ReaderStates /\ Refused(st).error
    BY <1>1 DEF Refused, ReaderStates
  <2> QED
    BY <1>3, <1>4, <2>1, KeptByError
<1>5. CASE st.last = "startOfRecord" /\ At(file, p) = "end"
  <2>1. p > Len(file)
    <3>1. SUFFICES ASSUME p <= Len(file) PROVE FALSE
      BY <1>1, <1>2
    <3>2. file[p] \in STRING \ {"end"}
      BY <1>2, <3>1, ElementOfSeq
    <3> QED
      BY <1>5, <3>1, <3>2 DEF At
  <2>2. Upto(file, st.pos) = DataIn(file)
    <3>1. ASSUME NEW i \in 1 .. Len(file), file[i] = "d" PROVE i < st.pos
      <4>1. i # st.pos
        BY <1>1, <3>1 DEF At
      <4>2. ~(crlf /\ i = st.pos + 1)
        BY <1>1, <3>1 DEF At
      <4>3. i <= Len(file) /\ i \in Nat
        BY <1>1
      <4>4. p = IF crlf THEN st.pos + 2 ELSE st.pos + 1
        OBVIOUS
      <4> HIDE DEF p, crlf
      <4> QED
        BY <1>1, <2>1, <4>1, <4>2, <4>3, <4>4
    <3> QED
      BY <3>1 DEF Upto, DataIn
  <2>3. e = [st EXCEPT !.good = FALSE]
    BY DEF Returned
  <2>4. /\ e.tab = st.tab /\ e.h = st.h /\ e.heading = st.heading /\ e.col = st.col /\ e.row = st.row
        /\ e.pos = st.pos /\ e.f = st.f /\ e.last = st.last /\ e.quoted = st.quoted /\ e.good = FALSE
    BY <1>1, <2>3 DEF ReaderStates
  <2> HIDE DEF e
  <2>5. Counted(file, e, e.pos)
    BY <1>1, <2>4 DEF Counted, Placed
  <2>6. Over(file, e, e.pos)
    BY <1>1, <1>5, <2>2, <2>4 DEF Over, Counted
  <2> QED
    BY <1>3, <1>5, <2>4, <2>5, <2>6 DEF Kept
<1>6. CASE st.last # "startOfRecord"
  <2>0. r = EndedRecord(st)
    OBVIOUS
  <2>2. peeked => st.pos # Len(file)
    BY <1>1 DEF At
  <2>3. EndOfRecord(file, st) = Continue(file, r, n, peeked)
    BY <1>3, <1>6
  <2>7. Cardinality(Upto(file, p)) = Cardinality(Upto(file, st.pos)) /\ Cardinality(Upto(file, st.pos)) \in Nat
    BY <1>1, <1>2
  <2> HIDE DEF r, p, n, peeked
  <2>1. r \in ReaderStates /\ r.pos = st.pos /\ (r.error \/ (Counted(file, r, p) /\ ~r.heading /\ r.f = <<>>))
    BY <2>0, <2>7, RecordIsCounted
  <2>4. CASE r.error
    BY <2>1, <2>3, <2>4, KeptByError
  <2>5. CASE ~r.error
    <3>1. RecordRead(file, r) /\ Counted(file, r, r.pos + n)
      BY <2>1, <2>5 DEF RecordRead, p
    <3>2. peeked => r.pos # Len(file)
      BY <2>1, <2>2
    <3>3. Kept(file, r.pos, Continue(file, r, n, peeked))
      BY ONLY <1>2, <2>1, <3>1, <3>2, KeptByReading, file \in Seq(STRING \ {"end"})
    <3> QED
      BY <2>1, <2>3, <3>3
  <2> QED
    BY <2>4, <2>5
<1> QED
  BY <1>4, <1>5, <1>6

\* Every step keeps the data, and goes on or ends.
LEMMA KeptByStep ==
    ASSUME NEW file \in Seq(STRING \ {"end"}), file \in Seq(STRING), (Len(file) + 1) * (Len(file) + 1) < Wide,
           file[Len(file)] = "n", NEW st, Going(file, st)
    PROVE  Kept(file, st.pos, NextState(file, st))
<1> DEFINE c == At(file, st.pos)
           mark == st.heading /\ st.last = "startOfRecord" /\ c = "h"
<1>1. st \in ReaderStates /\ Counted(file, st, st.pos) /\ st.pos \in Nat \ {0} /\ st.quoted \in BOOLEAN
  BY DEF Going, ReaderOK, ReaderStates
<1>2. NextState(file, st) = Step(file, st)
  BY DEF NextState, Going
<1>3. CASE mark
  <2>1. Cardinality(Upto(file, st.pos + 1)) = Cardinality(Upto(file, st.pos))
    BY <1>3, NextIsNoData
  <2>2. Counted(file, st, st.pos + 1)
    BY <1>1, <2>1 DEF Counted
  <2>3. RecordRead(file, st)
    BY <1>3, EndingInFile
  <2>4. Kept(file, st.pos, Continue(file, st, 1, FALSE))
    BY <1>1, <2>2, <2>3, KeptBy
  <2> QED
    BY <1>2, <1>3, <2>4 DEF Step
<1>4. CASE ~mark
  <2>1. st.quoted => Kept(file, st.pos, InQuotes(file, st))
    BY KeptInQuotes
  <2>2. ~st.quoted /\ c \in {"r", "n", "end", "F"} => Kept(file, st.pos, EndOfRecord(file, st))
    BY KeptAtEndOfRecord
  <2>3. ~st.quoted /\ c = "q" => Kept(file, st.pos, Quote(file, st))
    BY KeptAtQuote
  <2>4. ~st.quoted /\ c = "s" => Kept(file, st.pos, Separator(file, st))
    BY KeptAtSeparator
  <2>5. ASSUME c # "end" PROVE Kept(file, st.pos, Continue(file, Push(st, <<c>>), 1, FALSE))
    <3> DEFINE x == <<c>>
               s == Push(st, x)
    <3>1. x \in Cells
      BY <1>1, <2>5, CharacterOfFile
    <3>2. Cardinality(Upto(file, st.pos + 1)) = Cardinality(Upto(file, st.pos)) + Cardinality(DataIn(x))
      BY <1>1, <3>1, DataOfCharacter, DataInFront
    <3> HIDE DEF x
    <3>3. Counted(file, s, st.pos + 1) /\ s \in ReaderStates /\ s.pos = st.pos
      BY <1>1, <3>1, <3>2, PushedIsCounted
    <3> HIDE DEF s
    <3>4. RecordRead(file, s)
      BY <2>5, <3>3, EndingInFile
    <3>5. Kept(file, s.pos, Continue(file, s, 1, FALSE))
      BY <3>3, <3>4, KeptBy
    <3> QED
      BY <3>3, <3>5 DEF s, x
  <2> HIDE DEF c
  <2>6. Step(file, st) = CASE st.quoted -> InQuotes(file, st)
                           [] ~st.quoted /\ c \in {"r", "n", "end", "F"} -> EndOfRecord(file, st)
                           [] ~st.quoted /\ c = "q" -> Quote(file, st)
                           [] ~st.quoted /\ c = "s" -> Separator(file, st)
                           [] OTHER -> Continue(file, Push(st, <<c>>), 1, FALSE)
    BY <1>4 DEF Step, c
  <2>7. CASE st.quoted
    BY <1>2, <2>1, <2>6, <2>7
  <2>8. CASE ~st.quoted /\ c \in {"r", "n", "end", "F"}
    BY <1>2, <2>2, <2>6, <2>8
  <2>9. CASE ~st.quoted /\ c = "q"
    BY <1>2, <2>3, <2>6, <2>9
  <2>10. CASE ~st.quoted /\ c = "s"
    BY <1>2, <2>4, <2>6, <2>10
  <2>11. CASE ~st.quoted /\ c \notin {"r", "n", "end", "F", "q", "s"}
    BY <1>2, <2>5, <2>6, <2>11
  <2> QED
    BY <1>1, <2>7, <2>8, <2>9, <2>10, <2>11
<1> QED
  BY <1>3, <1>4

\* A new table has no data, and a header without fields has none,
LEMMA NothingIsPlaced == HeaderData(<<>>) = {} /\ DataOf(NewTable) = {}
<1>1. \A c : c \notin 0 .. Len(<<>>) - 1 /\ c \notin 0 .. NewTable.cols - 1
  BY DEF NewTable
<1>2. HeaderData(<<>>) = {}
  BY <1>1, DataOfHeader
<1>3. DataOf(NewTable) = {}
  <2> DEFINE G(c, r) == {<<c, r, i>> : i \in DataIn(CellAt(NewTable, c, r))}
  <2>1. DataOf(NewTable) = UNION {G(c, r) : c \in 0 .. NewTable.cols - 1, r \in 0 .. RowCount(NewTable) - 1}
    BY DEF DataOf
  <2> HIDE DEF G
  <2> QED
    BY <1>1, <2>1
<1> QED
  BY <1>2, <1>3

\* and so nothing is counted before the first step.
LEMMA KeptAtStart ==
    ASSUME NEW file \in Seq(STRING \ {"end"})
    PROVE  Kept(file, 0, Start)
<1>1. Start.pos = 1 /\ Start.good /\ Start.heading /\ Start.h = <<>> /\ Start.f = <<>>
  BY DEF Start
<1>2. Upto(file, 1) = {}
  BY DEF Upto
<1>3. Counted(file, Start, 1)
  <2>1. Placed(Start) = {}
    BY <1>1, NothingIsPlaced DEF Placed
  <2>2. Cardinality({}) = 0 /\ IsFiniteSet({})
    BY FS_EmptySet
  <2>3. Cardinality(Placed(Start)) + Cardinality(DataIn(Start.f)) = Cardinality(Upto(file, 1))
    <3>1. Cardinality(DataIn(Start.f)) = 0
      BY <1>1, NoDataInEmpty
    <3>2. Cardinality(Placed(Start)) = 0 /\ Cardinality(Upto(file, 1)) = 0
      BY <1>2, <2>1, <2>2
    <3> QED
      BY <3>1, <3>2
  <2> QED
    BY <1>1, <2>1, <2>2, <2>3 DEF Counted
<1> QED
  BY <1>1, <1>3 DEF Kept

\* What the reader returns without an error has the data of the file.
LEMMA DataOfFile ==
    ASSUME NEW file \in Seq(STRING \ {"end"}), file \in Seq(STRING), (Len(file) + 1) * (Len(file) + 1) < Wide,
           file[Len(file)] = "n", ~ReadCSV(file).error
    PROVE  Cardinality(DataOf(ReadCSV(file).tab)) = Cardinality(DataIn(file))
<1> DEFINE N == Len(file) + 1
<1>1. PICK g : ReadingIn(g, file)
  BY StatesOfReading
<1>2. /\ g[0] = Start /\ ReadCSV(file) = g[N] /\ N \in Nat
      /\ \A n \in 1 .. N : g[n] = NextState(file, g[n - 1])
      /\ \A n \in 0 .. N : ReaderOK(file, g[n])
  BY <1>1, LenProperties DEF ReadingIn
<1> DEFINE T == {n \in Nat : n <= N => Kept(file, n, g[n])}
<1>3. \A n \in Nat : n \in T <=> (n <= N => Kept(file, n, g[n]))
  OBVIOUS
<1> HIDE DEF T, N
<1>4. 0 \in T
  BY <1>2, <1>3, KeptAtStart
<1>5. ASSUME NEW n \in Nat, n \in T PROVE n + 1 \in T
  <2>1. n + 1 \in Nat /\ (n + 1 <= N => n + 1 \in 1 .. N /\ n \in 0 .. N /\ n + 1 \in 0 .. N /\ n <= N) /\ (n + 1) - 1 = n
    BY <1>2
  <2>2. ASSUME n + 1 <= N PROVE Kept(file, n + 1, g[n + 1])
    <3>1. /\ g[n + 1] = NextState(file, g[n]) /\ Kept(file, n, g[n])
          /\ ReaderOK(file, g[n]) /\ ReaderOK(file, g[n + 1])
      BY <1>2, <1>3, <1>5, <2>1, <2>2
    <3> DEFINE a == g[n]
               b == g[n + 1]
    <3>2. a.pos \in Nat /\ b.pos \in Nat
      BY <3>1 DEF ReaderOK, ReaderStates
    <3> HIDE DEF a, b
    <3>3. CASE a.good /\ ~a.error
      <4>1. Kept(file, a.pos, b) /\ a.pos > n
        BY <3>1, <3>3, KeptByStep DEF a, b, Going, Kept
      <4>2. b.pos > a.pos => b.pos > n + 1
        BY <3>2, <4>1
      <4> QED
        BY <4>1, <4>2 DEF Kept, b
    <3>4. CASE ~(a.good /\ ~a.error)
      BY <3>1, <3>4 DEF NextState, Kept, a
    <3> QED
      BY <3>3, <3>4
  <2> QED
    BY <1>3, <2>1, <2>2
<1> DEFINE s == g[N]
<1>6. Kept(file, N, s) /\ ReaderOK(file, s) /\ ~s.error
  <2>1. Nat \subseteq T
    BY <1>4, <1>5, Induction
  <2>2. N \in T /\ N <= N /\ N \in 0 .. N
    BY <1>2, <2>1
  <2> QED
    BY <1>2, <1>3, <2>2
<1> HIDE DEF s
<1>7. ~s.good
  <2>1. s.pos \in Nat /\ (s.good => s.pos <= N /\ s.pos > N)
    BY <1>6 DEF ReaderOK, ReaderStates, Kept, N
  <2> QED
    BY <1>2, <2>1
<1>8. /\ IsFiniteSet(Placed(s)) /\ s.f = <<>> /\ (s.heading => s.h = <<>> /\ s.tab = NewTable)
      /\ Cardinality(Placed(s)) + Cardinality(DataIn(s.f)) = Cardinality(DataIn(file))
  BY <1>6, <1>7 DEF Kept, Counted, Over, ReaderOK, Made
<1>9. Placed(s) = DataOf(s.tab)
  BY <1>8, NothingIsPlaced DEF Placed
<1> QED
  BY <1>2, <1>8, <1>9, NoDataInEmpty, FS_CardinalityType DEF s

\* The reader is where it starts, or at the end of the file it was given.
Sourced == source = <<>> \/ (source \in Given /\ reader = ReadCSV(source))

\* Nothing but the reader changes the file and what was read of it.
LEMMA SourceStays == Spec => []Sourced
<1>1. Init => Sourced
  BY DEF Init, TableInit, Sourced
<1>2. Sourced /\ [Next]_vars => Sourced'
  <2>1. [Next]_vars => ReadGiven \/ UNCHANGED <<source, reader>>
    BY DEF Next, UseDates, UseConversions, UseNames, UseEnvironment, UseEnumeration, UseChecks, UseTable, UsePipeline, vars,
           TableNext, UseCell, UseNamed, UseRows, tabling
  <2>2. ReadGiven => Sourced'
    BY DEF ReadGiven, Sourced
  <2>3. Sourced /\ UNCHANGED <<source, reader>> => Sourced'
    BY DEF Sourced
  <2> QED
    BY <2>1, <2>2, <2>3
<1> QED
  BY <1>1, <1>2, PTL DEF Spec

\* No character of data is lost or doubled on its way into the table, whatever
\* its quotes, separators and ends of records, if the reader accepts the file
\* and it ends with a newline.
THEOREM DataAlwaysKept == Spec => []DataIsKept
<1>1. Sourced => DataIsKept
  <2> SUFFICES ASSUME Sourced, ~reader.error, source # <<>>, Last(source) = "n"
               PROVE  Cardinality(DataOf(reader.tab)) = Cardinality(DataIn(source))
    BY DEF DataIsKept
  <2>1. source \in Given /\ reader = ReadCSV(source) /\ source[Len(source)] = "n"
    BY DEF Sourced, Last
  <2> QED
    BY <2>1, GivenIsFile, DataOfFile
<1> QED
  BY <1>1, SourceStays, PTL

-----------------------------------------------------------------------------
\* Base64.  The states of the decoder.
DecodeStates == [data : Seq(Nat), b : Nat, offset : 0 .. 3, over : BOOLEAN, error : BOOLEAN]

\* The decoder goes through them, one for each character.
DecodingIn(g, str) ==
    /\ g[0] = DecodeStart /\ Decode(str) = g[Len(str)]
    /\ \A n \in 1 .. Len(str) : g[n] = DecodeStep(g[n - 1], str[n])
    /\ \A n \in 0 .. Len(str) : g[n] \in DecodeStates

\* A character of four gives all its bits.
LEMMA StepOfDecoder ==
    ASSUME NEW st \in DecodeStates, NEW c \in 0 .. 66
    PROVE  DecodeStep(st, c) \in DecodeStates
<1>1. st.data \in Seq(Nat) /\ st.b \in Nat /\ st.offset \in 0 .. 3 /\ st.over \in BOOLEAN /\ st.error \in BOOLEAN
  BY DEF DecodeStates
<1>2. CASE st.over \/ st.error \/ c = LineEnd
  BY <1>2, Zenon DEF DecodeStep
<1>3. CASE ~(st.over \/ st.error \/ c = LineEnd) /\ c = Pad
  <2> DEFINE o == st.offset > 1
             e == st.offset <= 1
  <2>1. DecodeStep(st, c) = [st EXCEPT !.over = o, !.error = e]
    BY <1>3, Zenon DEF DecodeStep
  <2>2. o \in BOOLEAN /\ e \in BOOLEAN
    BY <1>1
  <2> HIDE DEF o, e
  <2> QED
    BY <2>1, <2>2 DEF DecodeStates
<1>4. CASE ~(st.over \/ st.error \/ c = LineEnd) /\ c = Unknown
  <2>1. DecodeStep(st, c) = [st EXCEPT !.error = TRUE]
    <3>1. c # Pad
      BY <1>4 DEF Pad, Unknown
    <3> QED
      BY <1>4, <3>1, Zenon DEF DecodeStep
  <2> QED
    BY <2>1 DEF DecodeStates
<1>5. CASE ~(st.over \/ st.error \/ c = LineEnd) /\ c # Unknown /\ c # Pad
  <2>1. DecodeStep(st, c) = DecodeValue(st, c)
    BY <1>5, Zenon DEF DecodeStep
  <2> DEFINE With(n, b) == [st EXCEPT !.offset = n, !.b = b]
             More(n, d, b) == [st EXCEPT !.offset = n, !.data = Append(@, d), !.b = b]
  <2>2. ASSUME NEW d \in Nat, NEW b \in Nat, NEW n \in 0 .. 3
        PROVE  More(n, d, b) \in DecodeStates /\ With(n, b) \in DecodeStates
    <3>1. Append(st.data, d) \in Seq(Nat)
      BY <1>1
    <3> QED
      BY <3>1 DEF DecodeStates
  <2>4. /\ (c * 4) % 256 \in Nat /\ (c * 16) % 256 \in Nat /\ (c * 64) % 256 \in Nat
        /\ st.b + c \div 16 \in Nat /\ st.b + c \div 4 \in Nat /\ st.b + c \in Nat
        /\ 0 \in 0 .. 3 /\ 1 \in 0 .. 3 /\ 2 \in 0 .. 3 /\ 3 \in 0 .. 3 /\ 0 \in Nat
    BY <1>1
  <2>5. CASE st.offset = 0
    <3>1. DecodeValue(st, c) = With(1, (c * 4) % 256)
      BY <2>5 DEF DecodeValue
    <3> HIDE DEF With, More
    <3> QED
      BY <2>1, <2>2, <2>4, <3>1
  <2>6. CASE st.offset = 1
    <3>1. DecodeValue(st, c) = More(2, st.b + c \div 16, (c * 16) % 256)
      BY <2>6 DEF DecodeValue
    <3> HIDE DEF With, More
    <3> QED
      BY <2>1, <2>2, <2>4, <3>1
  <2>7. CASE st.offset = 2
    <3>1. DecodeValue(st, c) = More(3, st.b + c \div 4, (c * 64) % 256)
      BY <2>7 DEF DecodeValue
    <3> HIDE DEF With, More
    <3> QED
      BY <2>1, <2>2, <2>4, <3>1
  <2>8. CASE st.offset = 3
    <3>1. DecodeValue(st, c) = More(0, st.b + c, 0)
      BY <2>8 DEF DecodeValue
    <3> HIDE DEF With, More
    <3> QED
      BY <2>1, <2>2, <2>4, <3>1
  <2> QED
    BY <1>1, <2>5, <2>6, <2>7, <2>8
<1> QED
  BY <1>2, <1>3, <1>4, <1>5

\* The decoder has such states for every text of characters it knows or does not.
LEMMA StatesOfDecoding ==
    ASSUME NEW str \in Seq(0 .. 66)
    PROVE  \E g : DecodingIn(g, str)
<1> DEFINE N == Len(str)
           S == DecodeStates
           Body(f) == [i \in 0 .. N |-> IF i = 0 THEN DecodeStart ELSE DecodeStep(f[i - 1], str[i])]
           F == [p \in (1 .. N) \X S |-> DecodeStep(p[2], str[p[1]])]
<1>1. N \in Nat /\ \A n \in 1 .. N : str[n] \in 0 .. 66
  BY LenProperties, ElementOfSeq
<1>2. DecodeStart \in S
  <2>1. <<>> \in Seq(Nat)
    BY EmptySeq
  <2> QED
    BY <2>1 DEF DecodeStart, DecodeStates
<1>3. \A n \in 1 .. N : \A s \in S : DecodeStep(s, str[n]) \in S
  BY <1>1, StepOfDecoder
<1> HIDE DEF N, S
<1>4. PICK f : StepsOf(f, N, S, DecodeStart, F)
  <2>1. F \in [(1 .. N) \X S -> S]
    BY <1>3
  <2> HIDE DEF F
  <2> QED
    BY <1>1, <1>2, <2>1, Iterated
<1>5. f \in [0 .. N -> S] /\ f[0] = DecodeStart /\ \A n \in 1 .. N : f[n] = F[<<n, f[n - 1]>>]
  BY <1>4 DEF StepsOf
<1>6. \A n \in 1 .. N : f[n] = DecodeStep(f[n - 1], str[n])
  <2> TAKE n \in 1 .. N
  <2>1. n - 1 \in 0 .. N
    BY <1>1
  <2>2. f[n - 1] \in S
    BY <1>5, <2>1
  <2>3. f[n] = F[<<n, f[n - 1]>>] /\ <<n, f[n - 1]>> \in (1 .. N) \X S
    BY <1>5, <2>2
  <2> QED
    BY <2>3
<1> HIDE DEF F
<1>7. f = Body(f)
  <2>1. f = [n \in 0 .. N |-> f[n]]
    BY <1>5
  <2>2. \A n \in 0 .. N : f[n] = Body(f)[n]
    <3>1. \A n \in 0 .. N : n # 0 => n \in 1 .. N
      BY <1>1
    <3> QED
      BY <1>5, <1>6, <3>1
  <2> QED
    BY <2>1, <2>2
<1> DEFINE g == CHOOSE e : e = Body(e)
<1>8. g = Body(g)
  BY <1>7
<1>9. Decode(str) = g[N]
  BY DEF Decode, N
<1> HIDE DEF g
<1>10. g[0] = DecodeStart /\ \A n \in 1 .. N : g[n] = DecodeStep(g[n - 1], str[n])
  <2>1. \A n \in 0 .. N : g[n] = IF n = 0 THEN DecodeStart ELSE DecodeStep(g[n - 1], str[n])
    BY <1>8
  <2>2. 0 \in 0 .. N /\ \A n \in 1 .. N : n \in 0 .. N /\ n # 0
    BY <1>1
  <2> QED
    BY <2>1, <2>2
<1> DEFINE T == {n \in Nat : n <= N => g[n] \in S}
<1>11. \A n \in Nat : n \in T <=> (n <= N => g[n] \in S)
  OBVIOUS
<1> HIDE DEF T
<1>12. 0 \in T
  BY <1>2, <1>10, <1>11
<1>13. ASSUME NEW n \in Nat, n \in T PROVE n + 1 \in T
  <2>1. n + 1 \in Nat /\ (n + 1) - 1 = n /\ (n + 1 <= N => n + 1 \in 1 .. N /\ n <= N)
    BY <1>1
  <2>2. ASSUME n + 1 <= N PROVE g[n + 1] \in S
    <3>1. g[n + 1] = DecodeStep(g[n], str[n + 1]) /\ g[n] \in S /\ n + 1 \in 1 .. N
      BY <1>10, <1>11, <1>13, <2>1, <2>2
    <3> QED
      BY <1>3, <3>1
  <2> QED
    BY <1>11, <2>1, <2>2
<1>14. \A n \in 0 .. N : g[n] \in S
  <2>1. Nat \subseteq T
    BY <1>12, <1>13, Induction
  <2>2. \A n \in 0 .. N : n \in Nat /\ n <= N
    BY <1>1
  <2> QED
    BY <1>11, <2>1, <2>2
<1> QED
  BY <1>9, <1>10, <1>14 DEF DecodingIn, N, S

\* The bytes of the data, and zeros behind them; the first n of them; and what
\* the first i characters have of the next byte.
ByteOf(data, i) == IF i <= Len(data) THEN data[i] ELSE 0
FirstBytes(data, n) == [p \in 1 .. n |-> ByteOf(data, p)]
Begun(data, i) ==
    IF i % 4 = 0 THEN 0
    ELSE IF i % 4 = 1 THEN (ByteOf(data, 3 * (i \div 4) + 1) \div 4) * 4
    ELSE IF i % 4 = 2 THEN (ByteOf(data, 3 * (i \div 4) + 2) \div 16) * 16
    ELSE (ByteOf(data, 3 * (i \div 4) + 3) \div 64) * 64

\* What the decoder has after i characters.
Decoded(st, data, i) ==
    st = [data |-> FirstBytes(data, (3 * i) \div 4), b |-> Begun(data, i), offset |-> i % 4,
          over |-> FALSE, error |-> FALSE]

\* What is behind the end of the data counts as a byte.
LEMMA ByteIsByte ==
    ASSUME NEW data \in Seq(0 .. 255), NEW i \in Nat \ {0}
    PROVE  ByteOf(data, i) \in 0 .. 255
<1>1. i <= Len(data) => data[i] \in 0 .. 255
  BY ElementOfSeq
<1> QED
  BY <1>1 DEF ByteOf

\* One more byte makes the first n the first n + 1.
LEMMA NextByte ==
    ASSUME NEW data, NEW n \in Nat
    PROVE  Append(FirstBytes(data, n), ByteOf(data, n + 1)) = FirstBytes(data, n + 1)
<1> DEFINE h == FirstBytes(data, n)
           b == ByteOf(data, n + 1)
<1>1. \A p : p \in 1 .. n + 1 <=> p \in 1 .. n \/ p = n + 1
  OBVIOUS
<1>2. Append(h, b) = [p \in 1 .. n + 1 |-> IF p <= n THEN h[p] ELSE b]
  BY DEF FirstBytes
<1>3. \A p \in 1 .. n + 1 : (IF p <= n THEN h[p] ELSE b) = ByteOf(data, p)
  BY DEF FirstBytes
<1> QED
  BY <1>2, <1>3 DEF FirstBytes

\* The state of the decoder when bits have been appended and others begun.
LEMMA BitsAppended ==
    ASSUME NEW h, NEW y, NEW o, NEW d, NEW x, NEW q, NEW u, NEW v
    PROVE  [[data |-> h, b |-> y, offset |-> o, over |-> u, error |-> v] EXCEPT !.offset = q, !.data = d, !.b = x] =
           [data |-> d, b |-> x, offset |-> q, over |-> u, error |-> v]
<1> DEFINE R(a, b, c) == [data |-> a, b |-> b, offset |-> c, over |-> u, error |-> v]
<1>1. [R(h, y, o) EXCEPT !.offset = q] = R(h, y, q)
  OBVIOUS
<1>2. [R(h, y, q) EXCEPT !.data = d] = R(d, y, q)
  OBVIOUS
<1>3. [R(d, y, q) EXCEPT !.b = x] = R(d, x, q)
  OBVIOUS
<1>4. [R(h, y, o) EXCEPT !.offset = q, !.data = d, !.b = x] = R(d, x, q)
  <2> HIDE DEF R
  <2> QED
    BY <1>1, <1>2, <1>3, Zenon
<1> QED
  BY <1>4

\* The bits of three bytes in four characters.
BitsOf(a, b, c, g) ==
    /\ g[1] \in 0 .. 63 /\ g[2] \in 0 .. 63 /\ g[3] \in 0 .. 63 /\ g[4] \in 0 .. 63
    /\ (g[1] * 4) % 256 = (a \div 4) * 4
    /\ (a \div 4) * 4 + g[2] \div 16 = a /\ (g[2] * 16) % 256 = (b \div 16) * 16
    /\ (b \div 16) * 16 + g[3] \div 4 = b /\ (g[3] * 64) % 256 = (c \div 64) * 64
    /\ (c \div 64) * 64 + g[4] = c

\* Four characters have the bits of the three bytes they are made of.
LEMMA BitsOfGroup ==
    ASSUME NEW a \in 0 .. 255, NEW b \in 0 .. 255, NEW c \in 0 .. 255
    PROVE  BitsOf(a, b, c, EncodeGroup(a, b, c))
<1> DEFINE g == EncodeGroup(a, b, c)
<1>1. /\ a \div 4 \in 0 .. 63 /\ a % 4 \in 0 .. 3 /\ a = 4 * (a \div 4) + (a % 4)
      /\ b \div 16 \in 0 .. 15 /\ b % 16 \in 0 .. 15 /\ b = 16 * (b \div 16) + (b % 16)
      /\ c \div 64 \in 0 .. 3 /\ c % 64 \in 0 .. 63 /\ c = 64 * (c \div 64) + (c % 64)
  OBVIOUS
<1> DEFINE a1 == a \div 4
           a2 == a % 4
           b1 == b \div 16
           b2 == b % 16
           c1 == c \div 64
           c2 == c % 64
<1>2. g = <<a1, a2 * 16 + b1, b2 * 4 + c1, c2>>
  BY DEF EncodeGroup
<1>3. /\ a1 \in 0 .. 63 /\ a2 \in 0 .. 3 /\ a = 4 * a1 + a2
      /\ b1 \in 0 .. 15 /\ b2 \in 0 .. 15 /\ b = 16 * b1 + b2
      /\ c1 \in 0 .. 3 /\ c2 \in 0 .. 63 /\ c = 64 * c1 + c2
  BY <1>1
<1> HIDE DEF a1, a2, b1, b2, c1, c2
<1>4. /\ a1 * 4 \in 0 .. 255 /\ a2 * 16 + b1 \in 0 .. 63 /\ (a2 * 16 + b1) \div 16 = a2
      /\ (a2 * 16 + b1) * 16 = 256 * a2 + b1 * 16 /\ b1 * 16 \in 0 .. 255
      /\ b2 * 4 + c1 \in 0 .. 63 /\ (b2 * 4 + c1) \div 4 = b2
      /\ (b2 * 4 + c1) * 64 = 256 * b2 + c1 * 64 /\ c1 * 64 \in 0 .. 255
  BY <1>3
<1>5. \A x \in 0 .. 255, y \in 0 .. 63 : (256 * y + x) % 256 = x
  OBVIOUS
<1>6. /\ (a1 * 4) % 256 = a1 * 4 /\ ((a2 * 16 + b1) * 16) % 256 = b1 * 16
      /\ ((b2 * 4 + c1) * 64) % 256 = c1 * 64
  <2>1. (256 * a2 + b1 * 16) % 256 = b1 * 16 /\ (256 * b2 + c1 * 64) % 256 = c1 * 64
    BY <1>3, <1>4, <1>5
  <2>2. (a1 * 4) % 256 = a1 * 4
    BY <1>4
  <2> QED
    BY <1>4, <2>1, <2>2
<1>7. a1 * 4 + a2 = a /\ b1 * 16 + b2 = b /\ c1 * 64 + c2 = c
  BY <1>3
<1> QED
  BY <1>2, <1>3, <1>4, <1>6, <1>7 DEF BitsOf, a1, b1, c1

GroupAt(data, k) == EncodeGroup(ByteOf(data, 3 * k + 1), ByteOf(data, 3 * k + 2), ByteOf(data, 3 * k + 3))

\* A value that is decoded.
LEMMA ValueIsDecoded ==
    ASSUME NEW st, NEW v \in 0 .. 63, ~st.over, ~st.error
    PROVE  DecodeStep(st, v) = DecodeValue(st, v)
<1>1. v # LineEnd /\ v # Pad /\ v # Unknown
  BY DEF LineEnd, Pad, Unknown
<1> QED
  BY <1>1, Zenon DEF DecodeStep

\* The decoder takes back what the encoder has made of a byte.
LEMMA CharacterIsDecoded ==
    ASSUME NEW data \in Seq(0 .. 255), NEW i \in Nat, NEW st, Decoded(st, data, i)
    PROVE  Decoded(DecodeStep(st, GroupAt(data, i \div 4)[(i % 4) + 1]), data, i + 1)
<1> DEFINE k == i \div 4
           j == i % 4
           a == ByteOf(data, 3 * k + 1)
           b == ByteOf(data, 3 * k + 2)
           c == ByteOf(data, 3 * k + 3)
           g == GroupAt(data, k)
           New(n, x, o) == [data |-> FirstBytes(data, n), b |-> x, offset |-> o, over |-> FALSE, error |-> FALSE]
<1>1. k \in Nat /\ j \in 0 .. 3 /\ i = 4 * k + j
  OBVIOUS
<1>2. a \in 0 .. 255 /\ b \in 0 .. 255 /\ c \in 0 .. 255
  <2>1. 3 * k + 1 \in Nat \ {0} /\ 3 * k + 2 \in Nat \ {0} /\ 3 * k + 3 \in Nat \ {0}
    BY <1>1
  <2> QED
    BY <2>1, ByteIsByte
<1>3. g = EncodeGroup(a, b, c)
  BY DEF GroupAt
<1>4. st = New((3 * i) \div 4, Begun(data, i), j)
  BY DEF Decoded
<1>5. ASSUME NEW n, NEW x, NEW o, n = (3 * (i + 1)) \div 4, x = Begun(data, i + 1), o = (i + 1) % 4
      PROVE  Decoded(New(n, x, o), data, i + 1)
  BY <1>5 DEF Decoded
<1>6. \A n \in Nat : Append(FirstBytes(data, n), ByteOf(data, n + 1)) = FirstBytes(data, n + 1)
  BY NextByte
<1> SUFFICES Decoded(DecodeStep(st, g[j + 1]), data, i + 1)
  OBVIOUS
<1>11. st.offset = j /\ ~st.over /\ ~st.error /\ \A v \in 0 .. 63 : DecodeStep(st, v) = DecodeValue(st, v)
  <2>1. st.offset = j /\ ~st.over /\ ~st.error
    BY <1>4
  <2> QED
    BY <2>1, ValueIsDecoded
<1>12. /\ g[1] \in 0 .. 63 /\ g[2] \in 0 .. 63 /\ g[3] \in 0 .. 63 /\ g[4] \in 0 .. 63
       /\ (g[1] * 4) % 256 = (a \div 4) * 4
       /\ (a \div 4) * 4 + g[2] \div 16 = a /\ (g[2] * 16) % 256 = (b \div 16) * 16
       /\ (b \div 16) * 16 + g[3] \div 4 = b /\ (g[3] * 64) % 256 = (c \div 64) * 64
       /\ (c \div 64) * 64 + g[4] = c
  <2> HIDE DEF a, b, c, g
  <2>1. BitsOf(a, b, c, g)
    BY <1>2, <1>3, BitsOfGroup
  <2> QED
    BY <2>1 DEF BitsOf
<1> HIDE DEF k, j, g
<1>7. CASE j = 0
  <2>1. i = 4 * k /\ (3 * i) \div 4 = 3 * k /\ (3 * (i + 1)) \div 4 = 3 * k /\ (i + 1) % 4 = 1 /\ (i + 1) \div 4 = k
    BY <1>1, <1>7
  <2>2. Begun(data, i + 1) = (a \div 4) * 4
    BY <2>1 DEF Begun
  <2> HIDE DEF a, b, c
  <2>3. g[1] \in 0 .. 63 /\ (g[1] * 4) % 256 = (a \div 4) * 4
    BY <1>12
  <2>4. DecodeStep(st, g[1]) = [st EXCEPT !.offset = 1, !.b = (g[1] * 4) % 256]
    <3>1. DecodeStep(st, g[1]) = DecodeValue(st, g[1]) /\ st.offset = j
      BY <1>11, <2>3
    <3> QED
      BY <1>7, <3>1 DEF DecodeValue
  <2>5. DecodeStep(st, g[1]) = New(3 * k, (a \div 4) * 4, 1)
    BY <1>4, <2>1, <2>3, <2>4
  <2> HIDE DEF New
  <2> QED
    BY <1>5, <1>7, <2>1, <2>2, <2>5
<1>8. CASE j = 1
  <2>1. /\ (3 * i) \div 4 = 3 * k /\ (3 * (i + 1)) \div 4 = 3 * k + 1 /\ (i + 1) % 4 = 2 /\ (i + 1) \div 4 = k
        /\ i % 4 = 1 /\ i \div 4 = k
    BY <1>1, <1>8
  <2>2. Begun(data, i) = (a \div 4) * 4 /\ Begun(data, i + 1) = (b \div 16) * 16
    BY <2>1 DEF Begun
  <2>6. Append(FirstBytes(data, 3 * k), a) = FirstBytes(data, 3 * k + 1)
    <3>1. 3 * k \in Nat
      BY <1>1
    <3> QED
      BY <1>6, <3>1
  <2> HIDE DEF a, b, c
  <2>3. g[2] \in 0 .. 63 /\ (a \div 4) * 4 + g[2] \div 16 = a /\ (g[2] * 16) % 256 = (b \div 16) * 16
    BY <1>12
  <2>4. DecodeStep(st, g[2]) = [st EXCEPT !.offset = 2, !.data = Append(@, st.b + g[2] \div 16), !.b = (g[2] * 16) % 256]
    <3>1. DecodeStep(st, g[2]) = DecodeValue(st, g[2]) /\ st.offset = j
      BY <1>11, <2>3
    <3> QED
      BY <1>8, <3>1 DEF DecodeValue
  <2>7. st.b + g[2] \div 16 = a
    BY <1>4, <2>2, <2>3
  <2>8. st.data = FirstBytes(data, 3 * k)
    BY <1>4, <2>1
  <2>9. Append(st.data, st.b + g[2] \div 16) = FirstBytes(data, 3 * k + 1)
    BY <2>6, <2>7, <2>8
  <2>5. DecodeStep(st, g[2]) = New(3 * k + 1, (b \div 16) * 16, 2)
    <3> DEFINE d == FirstBytes(data, 3 * k + 1)
               x == (b \div 16) * 16
               h == FirstBytes(data, (3 * i) \div 4)
               y == Begun(data, i)
    <3>1. DecodeStep(st, g[2]) = [st EXCEPT !.offset = 2, !.data = d, !.b = x]
      BY <2>3, <2>4, <2>9
    <3>2. st = [data |-> h, b |-> y, offset |-> j, over |-> FALSE, error |-> FALSE]
      BY <1>4
    <3> HIDE DEF d, x, h, y
    <3>3. DecodeStep(st, g[2]) = [data |-> d, b |-> x, offset |-> 2, over |-> FALSE, error |-> FALSE]
      BY <3>1, <3>2, BitsAppended, Zenon
    <3> QED
      BY <3>3, Zenon DEF d, x
  <2> HIDE DEF New
  <2> QED
    BY <1>5, <1>8, <2>1, <2>2, <2>5
<1>9. CASE j = 2
  <2>1. /\ (3 * i) \div 4 = 3 * k + 1 /\ (3 * (i + 1)) \div 4 = 3 * k + 2 /\ (i + 1) % 4 = 3 /\ (i + 1) \div 4 = k
        /\ i % 4 = 2 /\ i \div 4 = k
    BY <1>1, <1>9
  <2>2. Begun(data, i) = (b \div 16) * 16 /\ Begun(data, i + 1) = (c \div 64) * 64
    BY <2>1 DEF Begun
  <2>6. Append(FirstBytes(data, 3 * k + 1), b) = FirstBytes(data, 3 * k + 2)
    <3>1. 3 * k + 1 \in Nat /\ (3 * k + 1) + 1 = 3 * k + 2
      BY <1>1
    <3> QED
      BY <1>6, <3>1
  <2> HIDE DEF a, b, c
  <2>3. g[3] \in 0 .. 63 /\ (b \div 16) * 16 + g[3] \div 4 = b /\ (g[3] * 64) % 256 = (c \div 64) * 64
    BY <1>12
  <2>4. DecodeStep(st, g[3]) = [st EXCEPT !.offset = 3, !.data = Append(@, st.b + g[3] \div 4), !.b = (g[3] * 64) % 256]
    <3>1. DecodeStep(st, g[3]) = DecodeValue(st, g[3]) /\ st.offset = j
      BY <1>11, <2>3
    <3> QED
      BY <1>9, <3>1 DEF DecodeValue
  <2>7. st.b + g[3] \div 4 = b
    BY <1>4, <2>2, <2>3
  <2>8. st.data = FirstBytes(data, 3 * k + 1)
    BY <1>4, <2>1
  <2>9. Append(st.data, st.b + g[3] \div 4) = FirstBytes(data, 3 * k + 2)
    BY <2>6, <2>7, <2>8
  <2>5. DecodeStep(st, g[3]) = New(3 * k + 2, (c \div 64) * 64, 3)
    <3> DEFINE d == FirstBytes(data, 3 * k + 2)
               x == (c \div 64) * 64
               h == FirstBytes(data, (3 * i) \div 4)
               y == Begun(data, i)
    <3>1. DecodeStep(st, g[3]) = [st EXCEPT !.offset = 3, !.data = d, !.b = x]
      BY <2>3, <2>4, <2>9
    <3>2. st = [data |-> h, b |-> y, offset |-> j, over |-> FALSE, error |-> FALSE]
      BY <1>4
    <3> HIDE DEF d, x, h, y
    <3>3. DecodeStep(st, g[3]) = [data |-> d, b |-> x, offset |-> 3, over |-> FALSE, error |-> FALSE]
      BY <3>1, <3>2, BitsAppended, Zenon
    <3> QED
      BY <3>3, Zenon DEF d, x
  <2> HIDE DEF New
  <2> QED
    BY <1>5, <1>9, <2>1, <2>2, <2>5
<1>10. CASE j = 3
  <2>1. /\ (3 * i) \div 4 = 3 * k + 2 /\ (3 * (i + 1)) \div 4 = 3 * k + 3 /\ (i + 1) % 4 = 0
        /\ i % 4 = 3 /\ i \div 4 = k
    BY <1>1, <1>10
  <2>2. Begun(data, i) = (c \div 64) * 64 /\ Begun(data, i + 1) = 0
    BY <2>1 DEF Begun
  <2>6. Append(FirstBytes(data, 3 * k + 2), c) = FirstBytes(data, 3 * k + 3)
    <3>1. 3 * k + 2 \in Nat /\ (3 * k + 2) + 1 = 3 * k + 3
      BY <1>1
    <3> QED
      BY <1>6, <3>1
  <2> HIDE DEF a, b, c
  <2>3. g[4] \in 0 .. 63 /\ (c \div 64) * 64 + g[4] = c
    BY <1>12
  <2>4. DecodeStep(st, g[4]) = [st EXCEPT !.offset = 0, !.data = Append(@, st.b + g[4]), !.b = 0]
    <3>1. DecodeStep(st, g[4]) = DecodeValue(st, g[4]) /\ st.offset = j
      BY <1>11, <2>3
    <3> QED
      BY <1>10, <3>1 DEF DecodeValue
  <2>7. st.b + g[4] = c
    BY <1>4, <2>2, <2>3
  <2>5. DecodeStep(st, g[4]) = New(3 * k + 3, 0, 0)
    BY <1>4, <2>1, <2>4, <2>6, <2>7
  <2> HIDE DEF New
  <2> QED
    BY <1>5, <1>10, <2>1, <2>2, <2>5
<1> QED
  BY <1>1, <1>7, <1>8, <1>9, <1>10 DEF k, j, g

\* The characters of the coded data.
LEMMA CodedCharacters ==
    ASSUME NEW data \in Seq(0 .. 255)
    PROVE  /\ Encode(data) \in Seq(0 .. 66) /\ Len(Encode(data)) = 4 * ((Len(data) + 2) \div 3)
           /\ \A i \in Nat : i < Len(Encode(data)) =>
                  Encode(data)[i + 1] = IF 3 * i >= 4 * Len(data) THEN Pad ELSE GroupAt(data, i \div 4)[(i % 4) + 1]
<1> DEFINE m == Len(data)
           L == 4 * ((m + 2) \div 3)
           Char(i) == IF 3 * i >= 4 * m THEN Pad ELSE GroupAt(data, i \div 4)[(i % 4) + 1]
           str == [i \in 1 .. L |-> Char(i - 1)]
<1>1. m \in Nat
  BY LenProperties
<1>2. L \in Nat
  BY <1>1
<1>3. Encode(data) = str
  BY DEF Encode, GroupAt, ByteOf
<1>4. ASSUME NEW i \in Nat PROVE Char(i) \in 0 .. 66
  <2> DEFINE k == i \div 4
             j == i % 4
             a == ByteOf(data, 3 * k + 1)
             b == ByteOf(data, 3 * k + 2)
             c == ByteOf(data, 3 * k + 3)
             g == GroupAt(data, k)
  <2>1. k \in Nat /\ j \in 0 .. 3
    OBVIOUS
  <2>2. a \in 0 .. 255 /\ b \in 0 .. 255 /\ c \in 0 .. 255
    <3>1. 3 * k + 1 \in Nat \ {0} /\ 3 * k + 2 \in Nat \ {0} /\ 3 * k + 3 \in Nat \ {0}
      BY <2>1
    <3> QED
      BY <3>1, ByteIsByte
  <2>3. g = EncodeGroup(a, b, c)
    BY DEF GroupAt
  <2>4. g[j + 1] \in 0 .. 63
    <3> HIDE DEF a, b, c, g, j
    <3>1. BitsOf(a, b, c, g)
      BY <2>2, <2>3, BitsOfGroup
    <3>2. g[1] \in 0 .. 63 /\ g[2] \in 0 .. 63 /\ g[3] \in 0 .. 63 /\ g[4] \in 0 .. 63
      BY <3>1 DEF BitsOf
    <3>3. j + 1 = 1 \/ j + 1 = 2 \/ j + 1 = 3 \/ j + 1 = 4
      BY <2>1
    <3> QED
      BY <3>2, <3>3
  <2>5. Pad \in 0 .. 66 /\ \A x \in 0 .. 63 : x \in 0 .. 66
    BY DEF Pad
  <2>6. Char(i) = Pad \/ Char(i) = g[j + 1]
    OBVIOUS
  <2> HIDE DEF Char, g, j
  <2> QED
    BY <2>4, <2>5, <2>6
<1>5. ASSUME NEW i \in Nat, i < L PROVE str[i + 1] = Char(i)
  <2>1. i + 1 \in 1 .. L /\ (i + 1) - 1 = i
    BY <1>2, <1>5
  <2> HIDE DEF Char, L
  <2> QED
    BY <2>1
<1>6. str \in Seq(0 .. 66) /\ Len(str) = L
  <2>1. \A i \in 1 .. L : i - 1 \in Nat
    BY <1>2
  <2> HIDE DEF Char, L
  <2>2. \A i \in 1 .. L : Char(i - 1) \in 0 .. 66
    BY <1>4, <2>1
  <2> QED
    BY <1>2, <2>2
<1> HIDE DEF str, L
<1>7. Encode(data) \in Seq(0 .. 66) /\ Len(Encode(data)) = L
  BY <1>3, <1>6
<1>8. \A i \in Nat : i < Len(Encode(data)) => Encode(data)[i + 1] = Char(i)
  BY <1>3, <1>5, <1>7
<1> QED
  BY <1>7, <1>8 DEF L

\* A decoder that is over stays as it is.
LEMMA DecodingStays ==
    ASSUME NEW g, NEW str \in Seq(0 .. 66), DecodingIn(g, str), NEW n \in 0 .. Len(str), g[n].over
    PROVE  g[Len(str)] = g[n]
<1> DEFINE N == Len(str)
           T == {k \in Nat : n + k <= N => g[n + k] = g[n]}
<1>1. N \in Nat
  BY LenProperties
<1>2. \A k \in Nat : k \in T <=> (n + k <= N => g[n + k] = g[n])
  OBVIOUS
<1>3. \A i \in 1 .. N : g[i] = DecodeStep(g[i - 1], str[i])
  BY DEF DecodingIn
<1> HIDE DEF T, N
<1>4. 0 \in T
  <2>1. n + 0 = n
    BY <1>1 DEF N
  <2> QED
    BY <1>2, <2>1
<1>5. ASSUME NEW k \in Nat, k \in T PROVE k + 1 \in T
  <2>1. k + 1 \in Nat
    OBVIOUS
  <2>2. ASSUME n + (k + 1) <= N PROVE g[n + (k + 1)] = g[n]
    <3>1. n + (k + 1) \in 1 .. N /\ (n + (k + 1)) - 1 = n + k /\ n + k <= N
      BY <1>1, <2>2 DEF N
    <3>2. g[n + (k + 1)] = DecodeStep(g[n + k], str[n + (k + 1)])
      BY <1>3, <3>1
    <3>3. g[n + k] = g[n]
      BY <1>2, <1>5, <3>1
    <3>4. \A c : DecodeStep(g[n], c) = g[n]
      BY Zenon DEF DecodeStep
    <3> QED
      BY <3>2, <3>3, <3>4
  <2> QED
    BY <1>2, <2>1, <2>2
<1>6. N - n \in T
  <2>1. N - n \in Nat
    BY <1>1 DEF N
  <2> QED
    BY <1>4, <1>5, <2>1, Induction
<1> QED
  <2>1. N - n \in Nat /\ n + (N - n) = N
    BY <1>1 DEF N
  <2> QED
    BY <1>2, <1>6, <2>1 DEF N

\* What has been encoded is decoded again.
LEMMA DecodesEncoded ==
    ASSUME NEW data \in Seq(0 .. 255)
    PROVE  Decode(Encode(data)).data = data /\ Decode(Encode(data)).error = FALSE
<1> DEFINE str == Encode(data)
           m == Len(data)
           L == Len(str)
           N == (4 * m + 2) \div 3
<1>1. m \in Nat
  BY LenProperties
<1>2. str \in Seq(0 .. 66) /\ L = 4 * ((m + 2) \div 3)
  BY CodedCharacters
<1>3. \A i \in Nat : i < L => str[i + 1] = IF 3 * i >= 4 * m THEN Pad ELSE GroupAt(data, i \div 4)[(i % 4) + 1]
  BY CodedCharacters
<1>4. /\ N \in Nat /\ L \in Nat /\ N <= L /\ (3 * N) \div 4 = m
      /\ \A i \in Nat : i < N => 3 * i < 4 * m
      /\ N < L => 3 * N >= 4 * m /\ N % 4 > 1
  <2> DEFINE k == m \div 3
             j == m % 3
  <2>1. k \in Nat /\ j \in 0 .. 2 /\ m = 3 * k + j
    BY <1>1
  <2> HIDE DEF k, j, L
  <2>2. CASE j = 0
    <3>1. N = 4 * k /\ L = 4 * k
      BY <1>2, <2>1, <2>2
    <3> HIDE DEF N
    <3> QED
      BY <2>1, <2>2, <3>1
  <2>3. CASE j = 1
    <3>1. N = 4 * k + 2 /\ L = 4 * k + 4
      BY <1>2, <2>1, <2>3
    <3> HIDE DEF N
    <3> QED
      BY <2>1, <2>3, <3>1
  <2>4. CASE j = 2
    <3>1. N = 4 * k + 3 /\ L = 4 * k + 4
      BY <1>2, <2>1, <2>4
    <3> HIDE DEF N
    <3> QED
      BY <2>1, <2>4, <3>1
  <2> QED
    BY <2>1, <2>2, <2>3, <2>4
<1>5. PICK g : DecodingIn(g, str)
  BY <1>2, StatesOfDecoding
<1> HIDE DEF str, N
<1>6. /\ g[0] = DecodeStart /\ Decode(str) = g[L]
      /\ \A n \in 1 .. L : g[n] = DecodeStep(g[n - 1], str[n])
  BY <1>5 DEF DecodingIn
<1> HIDE DEF L, m
<1>7. \A i \in Nat : i < L => g[i + 1] = DecodeStep(g[i], str[i + 1])
  <2> TAKE i \in Nat
  <2> HAVE i < L
  <2>1. i + 1 \in 1 .. L /\ (i + 1) - 1 = i
    BY <1>4
  <2> QED
    BY <1>6, <2>1
<1> DEFINE T == {i \in Nat : i <= N => Decoded(g[i], data, i)}
<1>8. \A i \in Nat : i \in T <=> (i <= N => Decoded(g[i], data, i))
  OBVIOUS
<1> HIDE DEF T
<1>9. 0 \in T
  <2>1. (3 * 0) \div 4 = 0 /\ 0 % 4 = 0
    OBVIOUS
  <2>2. FirstBytes(data, 0) = <<>>
    BY DEF FirstBytes
  <2>3. Begun(data, 0) = 0
    BY <2>1 DEF Begun
  <2>4. Decoded(g[0], data, 0)
    BY <1>6, <2>1, <2>2, <2>3 DEF Decoded, DecodeStart
  <2> QED
    BY <1>8, <2>4
<1>10. ASSUME NEW i \in Nat, i \in T PROVE i + 1 \in T
  <2>1. ASSUME i + 1 <= N PROVE Decoded(g[i + 1], data, i + 1)
    <3>1. i < N /\ i <= N /\ i < L /\ ~(3 * i >= 4 * m)
      <4>1. i < N /\ i <= N /\ i < L
        BY <1>4, <2>1
      <4> QED
        BY <1>1, <1>4, <4>1
    <3>2. str[i + 1] = GroupAt(data, i \div 4)[(i % 4) + 1]
      BY <1>3, <3>1
    <3>3. Decoded(g[i], data, i)
      BY <1>8, <1>10, <3>1
    <3>4. Decoded(DecodeStep(g[i], GroupAt(data, i \div 4)[(i % 4) + 1]), data, i + 1)
      BY <3>3, CharacterIsDecoded
    <3> QED
      BY <1>7, <3>1, <3>2, <3>4
  <2> QED
    BY <1>8, <2>1
<1>11. Decoded(g[N], data, N)
  <2>1. N \in T
    BY <1>4, <1>9, <1>10, Induction
  <2> QED
    BY <1>4, <1>8, <2>1
<1>12. FirstBytes(data, m) = data
  <2>1. data = [p \in 1 .. m |-> data[p]]
    BY LenProperties DEF m
  <2>2. \A p \in 1 .. m : ByteOf(data, p) = data[p]
    BY <1>1 DEF ByteOf, m
  <2> QED
    BY <2>1, <2>2 DEF FirstBytes
<1>13. g[N] = [data |-> data, b |-> Begun(data, N), offset |-> N % 4, over |-> FALSE, error |-> FALSE]
  BY <1>4, <1>11, <1>12 DEF Decoded
<1>14. CASE N = L
  BY <1>6, <1>13, <1>14 DEF str
<1>15. CASE N < L
  <2>1. str[N + 1] = Pad
    BY <1>3, <1>4, <1>15
  <2>2. Pad # LineEnd
    BY DEF Pad, LineEnd
  <2> DEFINE s == g[N]
             o == s.offset > 1
             e == s.offset <= 1
  <2>3. ~s.over /\ ~s.error /\ s.data = data /\ s.offset = N % 4
    BY <1>13
  <2>4. s = [data |-> s.data, b |-> s.b, offset |-> s.offset, over |-> s.over, error |-> s.error]
    BY <1>13
  <2>5. DecodeStep(s, Pad) = [s EXCEPT !.over = o, !.error = e]
    BY <2>2, <2>3, Zenon DEF DecodeStep
  <2>6. o = TRUE /\ e = FALSE
    BY <1>4, <1>15, <2>3
  <2> HIDE DEF o, e, s
  <2> DEFINE u == DecodeStep(s, Pad)
  <2>7. u.over /\ u.error = FALSE /\ u.data = data
    BY <2>3, <2>4, <2>5, <2>6
  <2>8. g[N + 1] = u
    BY <1>4, <1>7, <1>15, <2>1 DEF s
  <2> HIDE DEF u
  <2>9. N + 1 \in 0 .. L
    BY <1>4, <1>15
  <2>10. g[L] = g[N + 1]
    BY <1>2, <1>5, <2>7, <2>8, <2>9, DecodingStays DEF L
  <2> QED
    BY <1>6, <2>7, <2>8, <2>10 DEF str
<1>16. N = L \/ N < L
  <2>1. N \in Nat /\ L \in Nat /\ N <= L
    BY <1>4
  <2> QED
    BY <2>1
<1> QED
  BY <1>14, <1>15, <1>16, Zenon

\* What is inserted into a sequence moves what is behind it.
Inserted(new, str, j, e) ==
    /\ Len(new) = Len(str) + 1
    /\ \A i \in 1 .. Len(str) + 1 : new[i] = IF i < j THEN str[i] ELSE IF i = j THEN e ELSE str[i - 1]

\* An element is inserted as InsertAt() does it.
LEMMA InsertedAt ==
    ASSUME NEW S, NEW str \in Seq(S), NEW j \in 1 .. Len(str) + 1, NEW e \in S
    PROVE  InsertAt(str, j, e) \in Seq(S) /\ Inserted(InsertAt(str, j, e), str, j, e)
<1> DEFINE N == Len(str)
           u == SubSeq(str, 1, j - 1)
           w == SubSeq(str, j, N)
           v == u \o <<e>>
<1>1. N \in Nat /\ \A i \in 1 .. N : str[i] \in S
  BY LenProperties, ElementOfSeq
<1>2. u \in Seq(S) /\ Len(u) = j - 1 /\ \A i \in 1 .. j - 1 : u[i] = str[i]
  BY <1>1
<1>3. w \in Seq(S) /\ Len(w) = (N + 1) - j /\ \A i \in 1 .. (N + 1) - j : w[i] = str[(j + i) - 1]
  BY <1>1
<1>4. InsertAt(str, j, e) = v \o w
  BY DEF InsertAt
<1> HIDE DEF u, w
<1>5. v \in Seq(S) /\ Len(v) = j /\ \A i \in 1 .. j : v[i] = IF i < j THEN str[i] ELSE e
  BY <1>1, <1>2
<1> HIDE DEF v
<1>6. (v \o w) \in Seq(S) /\ Len(v \o w) = Len(v) + Len(w)
      /\ \A i \in 1 .. Len(v) + Len(w) : (v \o w)[i] = IF i <= Len(v) THEN v[i] ELSE w[i - Len(v)]
  BY <1>3, <1>5, ConcatProperties
<1>7. Len(v) + Len(w) = N + 1
  BY <1>1, <1>3, <1>5
<1>8. ASSUME NEW i \in 1 .. N + 1
      PROVE  (v \o w)[i] = IF i < j THEN str[i] ELSE IF i = j THEN e ELSE str[i - 1]
  <2>1. CASE i <= j
    <3>1. (v \o w)[i] = v[i] /\ i \in 1 .. j
      BY <1>1, <1>5, <1>6, <1>7, <2>1
    <3> QED
      BY <1>5, <2>1, <3>1
  <2>2. CASE i > j
    <3>1. (v \o w)[i] = w[i - j] /\ i - j \in 1 .. (N + 1) - j /\ (j + (i - j)) - 1 = i - 1
      BY <1>1, <1>5, <1>6, <1>7, <2>2
    <3> QED
      BY <1>3, <2>2, <3>1
  <2>3. i <= j \/ i > j
    BY <1>1
  <2> QED
    BY <2>1, <2>2, <2>3, Zenon
<1> QED
  BY <1>4, <1>6, <1>7, <1>8 DEF Inserted

\* A line end between the characters changes nothing in what is decoded.
LEMMA LineEndIsSkipped ==
    ASSUME NEW str \in Seq(0 .. 66), NEW j \in 1 .. Len(str) + 1
    PROVE  Decode(InsertAt(str, j, LineEnd)) = Decode(str)
<1> DEFINE N == Len(str)
           broken == InsertAt(str, j, LineEnd)
<1>1. N \in Nat /\ LineEnd \in 0 .. 66
  BY LenProperties DEF LineEnd
<1>2. /\ broken \in Seq(0 .. 66) /\ Len(broken) = N + 1
      /\ \A i \in 1 .. N + 1 : broken[i] = IF i < j THEN str[i] ELSE IF i = j THEN LineEnd ELSE str[i - 1]
  <2>1. broken \in Seq(0 .. 66) /\ Inserted(broken, str, j, LineEnd)
    BY <1>1, InsertedAt
  <2> HIDE DEF broken
  <2> QED
    BY <2>1 DEF Inserted
<1> HIDE DEF broken, N
<1>3. PICK g : DecodingIn(g, str)
  BY StatesOfDecoding
<1>4. PICK h : DecodingIn(h, broken)
  BY <1>2, StatesOfDecoding
<1>5. /\ g[0] = DecodeStart /\ Decode(str) = g[N]
      /\ \A n \in 1 .. N : g[n] = DecodeStep(g[n - 1], str[n])
  BY <1>3 DEF DecodingIn, N
<1>6. /\ h[0] = DecodeStart /\ Decode(broken) = h[N + 1]
      /\ \A n \in 1 .. N + 1 : h[n] = DecodeStep(h[n - 1], broken[n])
  BY <1>2, <1>4 DEF DecodingIn
<1>7. \A st : DecodeStep(st, LineEnd) = st
  BY Zenon DEF DecodeStep
<1>8. j \in 1 .. N + 1
  BY DEF N
<1> DEFINE T == {n \in Nat : n <= N + 1 => h[n] = g[IF n < j THEN n ELSE n - 1]}
<1>9. \A n \in Nat : n \in T <=> (n <= N + 1 => h[n] = g[IF n < j THEN n ELSE n - 1])
  OBVIOUS
<1> HIDE DEF T
<1>10. 0 \in T
  <2>1. 0 < j
    BY <1>1, <1>8
  <2> QED
    BY <1>5, <1>6, <1>9, <2>1
<1>11. ASSUME NEW n \in Nat, n \in T PROVE n + 1 \in T
  <2>1. ASSUME n + 1 <= N + 1 PROVE h[n + 1] = g[IF n + 1 < j THEN n + 1 ELSE (n + 1) - 1]
    <3>1. n + 1 \in 1 .. N + 1 /\ (n + 1) - 1 = n /\ n <= N + 1
      BY <1>1, <2>1
    <3>2. h[n + 1] = DecodeStep(h[n], broken[n + 1])
      BY <1>6, <3>1
    <3>3. h[n] = g[IF n < j THEN n ELSE n - 1]
      BY <1>9, <1>11, <3>1
    <3>4. CASE n + 1 < j
      <4>1. broken[n + 1] = str[n + 1] /\ n < j /\ n + 1 \in 1 .. N
        BY <1>1, <1>2, <1>8, <3>1, <3>4
      <4>2. g[n + 1] = DecodeStep(g[n], str[n + 1])
        BY <1>5, <3>1, <4>1
      <4> QED
        BY <3>2, <3>3, <3>4, <4>1, <4>2
    <3>5. CASE n + 1 = j
      <4>1. broken[n + 1] = LineEnd /\ n < j
        BY <1>1, <1>2, <1>8, <3>1, <3>5
      <4> QED
        BY <1>7, <3>1, <3>2, <3>3, <3>5, <4>1
    <3>6. CASE n + 1 > j
      <4>1. broken[n + 1] = str[(n + 1) - 1] /\ ~(n < j) /\ n \in 1 .. N
        BY <1>1, <1>2, <1>8, <3>1, <3>6
      <4>2. g[n] = DecodeStep(g[n - 1], str[n])
        BY <1>5, <4>1
      <4>3. h[n] = g[n - 1] /\ ~(n + 1 < j)
        BY <1>8, <3>3, <4>1
      <4> QED
        BY <3>1, <3>2, <4>1, <4>2, <4>3
    <3> QED
      BY <1>8, <3>4, <3>5, <3>6
  <2> QED
    BY <1>9, <2>1
<1>12. N + 1 \in T
  <2>1. N + 1 \in Nat
    BY <1>1
  <2> QED
    BY <1>10, <1>11, <2>1, Induction
<1>13. h[N + 1] = g[N]
  <2>1. ~(N + 1 < j) /\ (N + 1) - 1 = N /\ N + 1 <= N + 1 /\ N + 1 \in Nat
    BY <1>1, <1>8
  <2> QED
    BY <1>9, <1>12, <2>1
<1> QED
  BY <1>5, <1>6, <1>13 DEF broken

\* Whatever bytes are encoded, they are decoded again, without an error, and
\* wherever a line end or a backslash gets between the characters.
THEOREM Base64AlwaysReadsBack == Spec => []Base64ReadsBack
<1> DEFINE OK == bytes \in Seq(0 .. 255)
<1>1. Init => OK
  BY DEF Init, ConversionsInit
<1>2. OK /\ [Next]_vars => OK'
  <2> SUFFICES ASSUME OK, [Next]_vars PROVE OK'
    OBVIOUS
  <2>1. CASE MoreBytes
    <3>1. PICK b \in Bytes : bytes' = Append(bytes, b)
      BY <2>1 DEF MoreBytes
    <3>2. b \in 0 .. 255
      BY BytesAssumption
    <3> QED
      BY <3>1, <3>2, AppendProperties
  <2>2. CASE UNCHANGED bytes
    BY <2>2
  <2> QED
    BY <2>1, <2>2 DEF Next, UseDates, UseConversions, UseNames, UseEnvironment, UseEnumeration, UseChecks, UseTable, UsePipeline,
       Type, NextNumeral, MoveTime, conversions, vars
<1>3. OK => Base64ReadsBack
  <2> SUFFICES ASSUME OK PROVE Base64ReadsBack
    OBVIOUS
  <2>1. Decode(Encode(bytes)).data = bytes /\ Decode(Encode(bytes)).error = FALSE
    BY DecodesEncoded
  <2>2. Encode(bytes) \in Seq(0 .. 66)
    BY CodedCharacters
  <2>3. \A i \in 1 .. Len(Encode(bytes)) + 1 : Decode(InsertAt(Encode(bytes), i, LineEnd)) = Decode(Encode(bytes))
    BY <2>2, LineEndIsSkipped
  <2> QED
    BY <2>1, <2>3 DEF Base64ReadsBack
<1> QED
  BY <1>1, <1>2, <1>3, PTL DEF Spec

-----------------------------------------------------------------------------
\* Roman numerals.  The value of a sequence of them, as it is read.
SignedNumeral(out, i) == IF i < Len(out) /\ out[i] < out[i + 1] THEN -out[i] ELSE out[i]

\* The value of a numeral, summed from its left.
ValueOf(out) ==
    LET value[i \in 0 .. Len(out)] == IF i = 0 THEN 0 ELSE value[i - 1] + SignedNumeral(out, i)
    IN  value[Len(out)]

SummedIn(v, out) ==
    /\ v[0] = 0 /\ ValueOf(out) = v[Len(out)]
    /\ \A n \in 1 .. Len(out) : v[n] = v[n - 1] + SignedNumeral(out, n)
    /\ \A n \in 0 .. Len(out) : v[n] \in Int

\* The sums from the first numeral on exist.
LEMMA SumsOfNumerals ==
    ASSUME NEW out \in Seq(Nat)
    PROVE  \E v : SummedIn(v, out)
<1> DEFINE N == Len(out)
           S == Int
           a(n) == SignedNumeral(out, n)
           Body(f) == [i \in 0 .. N |-> IF i = 0 THEN 0 ELSE f[i - 1] + a(i)]
           F == [p \in (1 .. N) \X S |-> p[2] + a(p[1])]
<1>1. N \in Nat /\ \A n \in 1 .. N : out[n] \in Nat
  BY LenProperties, ElementOfSeq
<1>2. \A n \in 1 .. N : a(n) \in Int
  BY <1>1 DEF SignedNumeral
<1> HIDE DEF N, a
<1>3. PICK f : StepsOf(f, N, S, 0, F)
  <2>1. F \in [(1 .. N) \X S -> S] /\ 0 \in S
    BY <1>2
  <2> HIDE DEF F, S
  <2> QED
    BY <1>1, <2>1, Iterated
<1>4. f \in [0 .. N -> S] /\ f[0] = 0 /\ \A n \in 1 .. N : f[n] = F[<<n, f[n - 1]>>]
  BY <1>3 DEF StepsOf
<1>5. \A n \in 1 .. N : f[n] = f[n - 1] + a(n)
  <2> TAKE n \in 1 .. N
  <2>1. n - 1 \in 0 .. N
    BY <1>1
  <2>2. f[n - 1] \in S
    BY <1>4, <2>1
  <2>3. f[n] = F[<<n, f[n - 1]>>] /\ <<n, f[n - 1]>> \in (1 .. N) \X S
    BY <1>4, <2>2
  <2> QED
    BY <2>3
<1> HIDE DEF F
<1>6. f = Body(f)
  <2>1. f = [n \in 0 .. N |-> f[n]]
    BY <1>4
  <2>2. \A n \in 0 .. N : f[n] = Body(f)[n]
    <3>1. \A n \in 0 .. N : n # 0 => n \in 1 .. N
      BY <1>1
    <3> QED
      BY <1>4, <1>5, <3>1
  <2> QED
    BY <2>1, <2>2
<1> DEFINE g == CHOOSE e : e = Body(e)
<1>7. g = Body(g)
  BY <1>6
<1>8. ValueOf(out) = g[N]
  BY DEF ValueOf, N, a
<1> HIDE DEF g
<1>9. g[0] = 0 /\ \A n \in 1 .. N : g[n] = g[n - 1] + a(n)
  <2>1. \A n \in 0 .. N : g[n] = IF n = 0 THEN 0 ELSE g[n - 1] + a(n)
    BY <1>7
  <2>2. 0 \in 0 .. N /\ \A n \in 1 .. N : n \in 0 .. N /\ n # 0
    BY <1>1
  <2> QED
    BY <2>1, <2>2
<1> DEFINE T == {n \in Nat : n <= N => g[n] \in Int}
<1>10. \A n \in Nat : n \in T <=> (n <= N => g[n] \in Int)
  OBVIOUS
<1> HIDE DEF T
<1>11. 0 \in T
  BY <1>9, <1>10
<1>12. ASSUME NEW n \in Nat, n \in T PROVE n + 1 \in T
  <2>1. n + 1 \in Nat /\ (n + 1) - 1 = n /\ (n + 1 <= N => n + 1 \in 1 .. N /\ n <= N)
    BY <1>1
  <2>2. ASSUME n + 1 <= N PROVE g[n + 1] \in Int
    <3>1. g[n + 1] = g[n] + a(n + 1) /\ g[n] \in Int /\ n + 1 \in 1 .. N
      BY <1>9, <1>10, <1>12, <2>1, <2>2
    <3> QED
      BY <1>2, <3>1
  <2> QED
    BY <1>10, <2>1, <2>2
<1>13. \A n \in 0 .. N : g[n] \in Int
  <2>1. Nat \subseteq T
    BY <1>11, <1>12, Induction
  <2>2. \A n \in 0 .. N : n \in Nat /\ n <= N
    BY <1>1
  <2> QED
    BY <1>10, <2>1, <2>2
<1> QED
  BY <1>8, <1>9, <1>13 DEF SummedIn, N, a

\* Another numeral adds its value, and takes the one before it twice away when
\* that is smaller.
LEMMA NumeralAppended ==
    ASSUME NEW out \in Seq(Nat), NEW x \in Nat
    PROVE  /\ ValueOf(out) \in Int
           /\ Len(out) = 0 \/ out[Len(out)] >= x => ValueOf(Append(out, x)) = ValueOf(out) + x
           /\ Len(out) > 0 /\ out[Len(out)] < x =>
                  ValueOf(Append(out, x)) = ValueOf(out) + (x - 2 * out[Len(out)])
<1> DEFINE N == Len(out)
           more == Append(out, x)
<1>1. N \in Nat /\ \A n \in 1 .. N : out[n] \in Nat
  BY LenProperties, ElementOfSeq
<1>2. more \in Seq(Nat) /\ Len(more) = N + 1 /\ more[N + 1] = x /\ \A n \in 1 .. N : more[n] = out[n]
  BY AppendProperties
<1>3. PICK v : SummedIn(v, out)
  BY SumsOfNumerals
<1>4. PICK w : SummedIn(w, more)
  BY <1>2, SumsOfNumerals
<1> HIDE DEF more
<1>5. /\ v[0] = 0 /\ ValueOf(out) = v[N] /\ v[N] \in Int
      /\ \A n \in 1 .. N : v[n] = v[n - 1] + SignedNumeral(out, n)
      /\ \A n \in 0 .. N : v[n] \in Int
  BY <1>1, <1>3 DEF SummedIn
<1>6. /\ w[0] = 0 /\ ValueOf(more) = w[N + 1]
      /\ \A n \in 1 .. N + 1 : w[n] = w[n - 1] + SignedNumeral(more, n)
      /\ \A n \in 0 .. N + 1 : w[n] \in Int
  BY <1>2, <1>4 DEF SummedIn
<1>7. ASSUME NEW n \in 1 .. N, n < N PROVE SignedNumeral(more, n) = SignedNumeral(out, n)
  <2>1. n + 1 \in 1 .. N /\ n < N + 1
    BY <1>1, <1>7
  <2> QED
    BY <1>2, <1>7, <2>1 DEF SignedNumeral
<1>8. SignedNumeral(more, N + 1) = x
  BY <1>1, <1>2 DEF SignedNumeral
<1> HIDE DEF N
<1> DEFINE T == {n \in Nat : n < N => w[n] = v[n]}
<1>9. \A n \in Nat : n \in T <=> (n < N => w[n] = v[n])
  OBVIOUS
<1> HIDE DEF T
<1>10. 0 \in T
  BY <1>5, <1>6, <1>9
<1>11. ASSUME NEW n \in Nat, n \in T PROVE n + 1 \in T
  <2>1. ASSUME n + 1 < N PROVE w[n + 1] = v[n + 1]
    <3>1. n + 1 \in 1 .. N /\ n + 1 \in 1 .. N + 1 /\ (n + 1) - 1 = n /\ n < N
      BY <1>1, <2>1
    <3>2. w[n + 1] = w[n] + SignedNumeral(more, n + 1) /\ v[n + 1] = v[n] + SignedNumeral(out, n + 1)
      BY <1>5, <1>6, <3>1
    <3> QED
      BY <1>7, <1>9, <1>11, <2>1, <3>1, <3>2
  <2> QED
    BY <1>9, <2>1
<1>12. CASE N = 0
  <2>1. w[1] = w[0] + x
    BY <1>6, <1>8, <1>12
  <2> QED
    BY <1>5, <1>6, <1>12, <2>1 DEF N, more
<1>13. CASE N > 0
  <2> DEFINE y == out[N]
  <2>1. N \in 1 .. N /\ N \in 1 .. N + 1 /\ N + 1 \in 1 .. N + 1 /\ (N + 1) - 1 = N /\ N - 1 \in Nat /\ N - 1 < N
        /\ N < N + 1 /\ ~(N < N) /\ N - 1 \in 0 .. N
    BY <1>1, <1>13
  <2>2. w[N - 1] = v[N - 1]
    <3>1. N - 1 \in T
      BY <1>10, <1>11, <2>1, Induction
    <3> QED
      BY <1>9, <2>1, <3>1
  <2>3. v[N] = v[N - 1] + y
    <3>1. SignedNumeral(out, N) = y
      BY <2>1 DEF SignedNumeral, N
    <3> QED
      BY <1>5, <2>1, <3>1
  <2>4. w[N] = w[N - 1] + (IF y < x THEN -y ELSE y)
    <3>1. SignedNumeral(more, N) = IF y < x THEN -y ELSE y
      BY <1>2, <2>1 DEF SignedNumeral
    <3> QED
      BY <1>6, <2>1, <3>1
  <2>5. w[N + 1] = w[N] + x
    BY <1>6, <1>8, <2>1
  <2>6. y \in Nat /\ v[N - 1] \in Int
    BY <1>1, <1>5, <2>1
  <2> HIDE DEF y
  <2>7. w[N + 1] = (v[N] + x) - (IF y < x THEN 2 * y ELSE 0)
    BY <2>2, <2>3, <2>4, <2>5, <2>6
  <2> QED
    BY <1>5, <1>6, <1>13, <2>7 DEF N, y, more
<1> QED
  BY <1>1, <1>12, <1>13

\* Never four times the same in a row, but thousands.
FewSame(out) ==
    \A i \in 1 .. Len(out) - 3 : out[i] = 1000 \/ \E j \in i .. i + 3 : out[j] # out[i]

\* Another numeral that differs from one of the last three.
LEMMA StillFewSame ==
    ASSUME NEW out \in Seq(Nat), NEW x \in Nat, FewSame(out),
           x = 1000 \/ Len(out) < 3 \/ \E q \in Len(out) - 2 .. Len(out) : out[q] # x
    PROVE  FewSame(Append(out, x))
<1> DEFINE N == Len(out)
           more == Append(out, x)
<1>1. N \in Nat
  BY LenProperties
<1>2. Len(more) = N + 1 /\ more[N + 1] = x /\ \A n \in 1 .. N : more[n] = out[n]
  BY AppendProperties
<1>3. \A i \in 1 .. N - 3 : out[i] = 1000 \/ \E j \in i .. i + 3 : out[j] # out[i]
  BY DEF FewSame
<1>4. x = 1000 \/ N < 3 \/ \E q \in N - 2 .. N : out[q] # x
  OBVIOUS
<1> HIDE DEF N, more
<1>5. ASSUME NEW i \in 1 .. (N + 1) - 3
      PROVE  more[i] = 1000 \/ \E j \in i .. i + 3 : more[j] # more[i]
  <2>1. i \in 1 .. N /\ more[i] = out[i]
    BY <1>1, <1>2
  <2>2. CASE i \in 1 .. N - 3
    <3>1. \A j \in i .. i + 3 : j \in 1 .. N
      BY <1>1, <2>2
    <3>2. \A j \in i .. i + 3 : more[j] = out[j]
      BY <1>2, <3>1
    <3>3. CASE out[i] = 1000
      BY <2>1, <3>3
    <3>4. CASE \E j \in i .. i + 3 : out[j] # out[i]
      <4>1. PICK j \in i .. i + 3 : out[j] # out[i]
        BY <3>4
      <4>2. more[j] = out[j]
        BY <3>2
      <4>3. more[j] # more[i]
        BY <2>1, <4>1, <4>2
      <4> QED
        BY <4>3
    <3> QED
      BY <1>3, <2>2, <3>3, <3>4
  <2>3. CASE i = N - 2
    <3>1. N >= 3 /\ N + 1 \in i .. i + 3 /\ \A q \in N - 2 .. N : q \in i .. i + 3 /\ q \in 1 .. N
      BY <1>1, <2>3
    <3>2. CASE more[i] # x
      BY <1>2, <3>1, <3>2
    <3>3. CASE more[i] = x
      <4>1. CASE x = 1000
        BY <3>3, <4>1
      <4>2. CASE \E q \in N - 2 .. N : out[q] # x
        <5>1. PICK q \in N - 2 .. N : out[q] # x
          BY <4>2
        <5>2. more[q] # more[i] /\ q \in i .. i + 3
          BY <1>2, <3>1, <3>3, <5>1
        <5> QED
          BY <5>2
      <4> QED
        BY <1>1, <1>4, <3>1, <4>1, <4>2
    <3> QED
      BY <3>2, <3>3
  <2> QED
    BY <1>1, <2>2, <2>3
<1>6. FewSame(more)
  BY <1>2, <1>5 DEF FewSame
<1> QED
  BY <1>6 DEF more

\* What is appended to the second of two sequences is appended to both.
LEMMA AppendedBehind ==
    ASSUME NEW S, NEW s \in Seq(S), NEW t \in Seq(S), NEW e \in S
    PROVE  s \o Append(t, e) = Append(s \o t, e)
<1>1. <<e>> \in Seq(S) /\ s \o t \in Seq(S)
  BY ConcatProperties
<1>2. Append(t, e) = t \o <<e>> /\ Append(s \o t, e) = (s \o t) \o <<e>>
  BY <1>1, AppendIsConcat
<1> QED
  BY <1>1, <1>2, ConcatAssociative

\* Two numerals are one behind another.
LEMMA PairIsAppended ==
    ASSUME NEW i \in Nat, NEW j \in Nat
    PROVE  <<j>> \in Seq(Nat) /\ <<j, i>> = Append(<<j>>, i)
<1> DEFINE s == Append(<<j>>, i)
           t == <<j, i>>
<1>1. <<j>> \in Seq(Nat) /\ Len(<<j>>) = 1 /\ <<j>>[1] = j /\ t \in Seq(Nat) /\ Len(t) = 2 /\ t[1] = j /\ t[2] = i
  OBVIOUS
<1>2. s \in Seq(Nat) /\ Len(s) = 2 /\ s[1] = j /\ s[2] = i
  BY <1>1, AppendProperties
<1> HIDE DEF s, t
<1>3. \A n \in 1 .. 2 : n = 1 \/ n = 2
  OBVIOUS
<1>4. \A n \in 1 .. Len(s) : s[n] = t[n]
  BY <1>1, <1>2, <1>3
<1>5. s = t
  BY <1>1, <1>2, <1>4, SeqEqual
<1> QED
  BY <1>1, <1>5 DEF s, t

\* What is written so far: its value, its last numeral, and its repetitions.
Readable(out, value, least) ==
    /\ out \in Seq(Nat) /\ ValueOf(out) = value /\ FewSame(out)
    /\ Len(out) > 0 => out[Len(out)] >= least

\* A numeral that is written k times.
Copies(i, k) == [n \in 1 .. k |-> i]

\* A numeral that is smaller than the last one is written several times, but
\* no more than three times, unless it is the largest one.
LEMMA CopiesAppended ==
    ASSUME NEW out, NEW value \in Int, NEW least \in Nat, NEW i \in Nat, i < least \/ Len(out) = 0,
           Readable(out, value, least), NEW k \in Nat, i = 1000 \/ k <= 3
    PROVE  Readable(out \o Copies(i, k), value + k * i, i)
<1> DEFINE N == Len(out)
           o(c) == out \o Copies(i, c)
           Good(c) == /\ Readable(o(c), value + c * i, i) /\ Len(o(c)) = N + c
                      /\ \A q \in 1 .. N : o(c)[q] = out[q]
           T == {c \in Nat : c <= k => Good(c)}
<1>1. out \in Seq(Nat) /\ ValueOf(out) = value /\ FewSame(out) /\ (N > 0 => out[N] >= least)
  BY DEF Readable
<1>2. N \in Nat /\ \A n \in 1 .. N : out[n] \in Nat
  BY <1>1, LenProperties, ElementOfSeq
<1>3. N > 0 => out[N] > i
  <2>1. N > 0 => out[N] \in Nat
    BY <1>2
  <2> QED
    BY <1>1, <1>2, <2>1
<1>4. \A c \in Nat : c \in T <=> (c <= k => Good(c))
  OBVIOUS
<1> HIDE DEF T
<1>5. 0 \in T
  <2>1. Copies(i, 0) = <<>>
    BY DEF Copies
  <2>2. o(0) = out
    BY <1>1, <2>1
  <2>3. N > 0 => out[N] >= i
    BY <1>2, <1>3
  <2>4. value + 0 * i = value /\ N + 0 = N
    BY <1>2
  <2>5. Readable(out, value, i)
    BY <1>1, <2>3 DEF Readable
  <2> HIDE DEF o
  <2>6. Good(0)
    BY <2>2, <2>4, <2>5
  <2> QED
    BY <1>4, <2>6
<1>6. ASSUME NEW c \in Nat, c \in T PROVE c + 1 \in T
  <2>1. ASSUME c + 1 <= k PROVE Good(c + 1)
    <3>1. Good(c)
      BY <1>4, <1>6, <2>1
    <3>2. o(c + 1) = Append(o(c), i)
      <4>1. Copies(i, c) \in Seq(Nat) /\ Copies(i, c + 1) = Append(Copies(i, c), i)
        BY DEF Copies
      <4> DEFINE d == Copies(i, c)
      <4>2. d \in Seq(Nat) /\ i \in Nat /\ out \in Seq(Nat)
        BY <1>1, <4>1
      <4> HIDE DEF d
      <4>3. out \o Append(d, i) = Append(out \o d, i)
        BY ONLY <4>2, AppendedBehind
      <4> QED
        BY <4>1, <4>3 DEF d
    <3> DEFINE p == o(c)
               M == Len(p)
    <3>3. /\ p \in Seq(Nat) /\ ValueOf(p) = value + c * i /\ FewSame(p) /\ (M > 0 => p[M] >= i)
          /\ M = N + c /\ \A q \in 1 .. N : p[q] = out[q]
      BY <3>1 DEF Readable
    <3>4. o(c + 1) = Append(p, i)
      BY <3>2
    <3> HIDE DEF o, p
    <3>5. /\ Append(p, i) \in Seq(Nat) /\ Len(Append(p, i)) = M + 1 /\ Append(p, i)[M + 1] = i
          /\ \A q \in 1 .. M : Append(p, i)[q] = p[q]
      BY <3>3, AppendProperties
    <3>6. ValueOf(Append(p, i)) = value + (c + 1) * i
      <4>1. M > 0 => p[M] \in Nat
        BY <1>2, <3>3, ElementOfSeq
      <4>2. Len(p) = 0 \/ p[Len(p)] >= i
        <5>1. M = 0 \/ M > 0
          BY <1>2, <3>3
        <5> QED
          BY <3>3, <4>1, <5>1
      <4>3. ValueOf(Append(p, i)) = ValueOf(p) + i
        BY <3>3, <4>2, NumeralAppended
      <4>4. (c + 1) * i = c * i + i /\ c * i \in Int
        OBVIOUS
      <4> QED
        BY <3>3, <4>3, <4>4
    <3>7. FewSame(Append(p, i))
      <4>1. i = 1000 \/ M < 3 \/ (c <= 2 /\ N > 0)
        BY <1>2, <2>1, <3>3
      <4>2. ASSUME c <= 2, N > 0 PROVE \E q \in M - 2 .. M : p[q] # i
        <5>1. N \in M - 2 .. M /\ N \in 1 .. N
          BY <1>2, <3>3, <4>2
        <5>2. p[N] = out[N] /\ out[N] # i
          BY <1>2, <1>3, <3>3, <4>2, <5>1
        <5> QED
          BY <5>1, <5>2
      <4>3. i = 1000 \/ M < 3 \/ \E q \in M - 2 .. M : p[q] # i
        BY <4>1, <4>2
      <4> QED
        BY <3>3, <4>3, StillFewSame
    <3>8. N + (c + 1) = M + 1 /\ \A q \in 1 .. N : q \in 1 .. M
      BY <1>2, <3>3
    <3> DEFINE r == o(c + 1)
    <3>9. /\ r \in Seq(Nat) /\ ValueOf(r) = value + (c + 1) * i /\ FewSame(r) /\ Len(r) = M + 1
          /\ r[M + 1] = i /\ \A q \in 1 .. M : r[q] = p[q]
      BY <3>4, <3>5, <3>6, <3>7
    <3> HIDE DEF r, M
    <3>10. Readable(r, value + (c + 1) * i, i)
      BY <3>9 DEF Readable
    <3>11. \A q \in 1 .. N : r[q] = out[q]
      BY <3>3, <3>8, <3>9
    <3> QED
      BY <3>8, <3>9, <3>10, <3>11 DEF r
  <2> QED
    BY <1>4, <2>1
<1> HIDE DEF Good
<1>7. Good(k)
  <2>1. k \in T
    BY <1>5, <1>6, Induction
  <2>2. k <= k
    OBVIOUS
  <2> QED
    BY <1>4, <2>1, <2>2, Zenon
<1> QED
  BY <1>7 DEF Good

\* A smaller numeral and a larger one, which is not above the last one.
LEMMA PairAppended ==
    ASSUME NEW out, NEW value \in Int, NEW i \in Nat, NEW j \in Nat, j < i, Readable(out, value, i)
    PROVE  Readable(out \o <<j, i>>, value + (i - j), i)
<1> DEFINE N == Len(out)
           p == Append(out, j)
           o == Append(p, i)
<1>1. out \in Seq(Nat) /\ ValueOf(out) = value /\ FewSame(out) /\ (N > 0 => out[N] >= i)
  BY DEF Readable
<1>2. N \in Nat /\ (N > 0 => out[N] \in Nat)
  BY <1>1, LenProperties, ElementOfSeq
<1>3. p \in Seq(Nat) /\ Len(p) = N + 1 /\ p[N + 1] = j
  BY <1>1, AppendProperties
<1>4. o = out \o <<j, i>>
  <2>1. <<j>> \in Seq(Nat) /\ <<j, i>> = Append(<<j>>, i)
    BY PairIsAppended
  <2>2. p = out \o <<j>>
    BY <1>1, AppendIsConcat
  <2> QED
    BY <1>1, <2>1, <2>2, AppendedBehind
<1>5. ValueOf(p) = value + j
  <2>1. Len(out) = 0 \/ out[Len(out)] >= j
    BY <1>1, <1>2
  <2>2. ValueOf(p) = ValueOf(out) + j
    BY <1>1, <2>1, NumeralAppended
  <2> QED
    BY <1>1, <2>2
<1>6. FewSame(p)
  <2>1. N < 3 \/ (N \in N - 2 .. N /\ out[N] # j)
    BY <1>1, <1>2
  <2> QED
    BY <1>1, <2>1, StillFewSame
<1> HIDE DEF p
<1>7. o \in Seq(Nat) /\ Len(o) = N + 2 /\ o[N + 2] = i
  <2>1. (N + 1) + 1 = N + 2
    BY <1>2
  <2> QED
    BY <1>3, <2>1, AppendProperties
<1>8. ValueOf(o) = value + (i - j)
  <2>1. Len(p) > 0 /\ p[Len(p)] < i /\ p[Len(p)] = j
    BY <1>2, <1>3
  <2>2. ValueOf(o) = ValueOf(p) + (i - 2 * j)
    BY <1>3, <2>1, NumeralAppended
  <2> QED
    BY <1>5, <2>2
<1>9. FewSame(o)
  <2>1. Len(p) \in Len(p) - 2 .. Len(p) /\ p[Len(p)] # i
    BY <1>2, <1>3
  <2> QED
    BY <1>3, <1>6, <2>1, StillFewSame
<1> HIDE DEF o
<1> QED
  BY <1>2, <1>4, <1>7, <1>8, <1>9 DEF Readable

\* A number is its quotient and what remains.
LEMMA Division ==
    ASSUME NEW a \in Nat, NEW n \in Nat \ {0}
    PROVE  a \div n \in Nat /\ a % n \in Nat /\ a % n < n /\ a = (a \div n) * n + (a % n)
  OBVIOUS

\* What has been written and what remains add up; the next numeral is smaller.
Writing(st, num) ==
    /\ st = [rem |-> st.rem, out |-> st.out] /\ st.rem \in Nat
    /\ st.out \in Seq(Nat) /\ ValueOf(st.out) + st.rem = num /\ FewSame(st.out)
LastIs(st, least) == Len(st.out) > 0 => st.out[Len(st.out)] >= least

\* One numeral is written as often as it fits, and once more with a smaller one
\* before it when that fits.
LEMMA NumeralIsWritten ==
    ASSUME NEW num \in Nat, NEW st, NEW least \in Nat, NEW i \in Nat \ {0}, Writing(st, num), LastIs(st, least),
           i < least \/ Len(st.out) = 0, i = 1000 \/ st.rem < 4 * i
    PROVE  /\ Writing(RomanStep(st, i), num) /\ LastIs(RomanStep(st, i), i)
           /\ i = 1 => RomanStep(st, i).rem = 0
           /\ \A top \in Nat : top \in Ones /\ top < i /\ (\A j \in Ones : j < i => j <= top) =>
                  RomanStep(st, i).rem < i - top \/ RomanStep(st, i).rem < top
<1> DEFINE s == RomanStep(st, i)
           k == st.rem \div i
           r == st.rem % i
           v == ValueOf(st.out)
           w == st.out \o Copies(i, k)
           less == Subtracted(r, i)
           j == CHOOSE n \in less : \A l \in less : n <= l
<1>1. st.rem \in Nat /\ st.out \in Seq(Nat) /\ v + st.rem = num /\ FewSame(st.out)
  BY DEF Writing
<1>2. v \in Int
  BY <1>1, NumeralAppended
<1>3. k \in Nat /\ r \in Nat /\ r < i /\ st.rem = k * i + r
  BY <1>1, Division
<1>4. i = 1000 \/ k <= 3
  <2>1. ASSUME st.rem < 4 * i PROVE k <= 3
    <3>1. k * i = i * k /\ 4 * i = i * 4 /\ i * k \in Nat /\ i * 4 \in Nat
      <4> HIDE DEF k
      <4> QED
        BY <1>3
    <3> DEFINE x == i * k
    <3>2. st.rem = x + r
      BY <1>3, <3>1
    <3>3. x < i * 4
      <4> HIDE DEF k, r, x
      <4>1. x \in Nat
        BY <3>1 DEF x
      <4> QED
        BY <1>1, <1>3, <2>1, <3>1, <3>2, <4>1
    <3> HIDE DEF k
    <3>4. ASSUME k >= 4 PROVE FALSE
      <4>1. 4 <= k /\ 4 \in Nat
        BY <1>3, <3>4
      <4>2. i * 4 <= x
        BY <1>3, <4>1, Products
      <4> HIDE DEF x
      <4> QED
        BY <3>1, <3>3, <4>2 DEF x
    <3> QED
      BY <1>3, <3>4
  <2> QED
    BY <2>1
<1>5. Readable(st.out, v, least)
  BY <1>1 DEF Readable, LastIs
<1> HIDE DEF k, r, v
<1>6. Readable(w, v + k * i, i)
  BY <1>2, <1>3, <1>4, <1>5, CopiesAppended DEF v
<1>7. s = IF less = {} THEN [rem |-> r, out |-> w]
          ELSE [rem |-> r - (i - j), out |-> w \o <<j, i>>]
  BY DEF RomanStep, Copies, k, r
<1> HIDE DEF s, w, j
<1>8. less = {n \in Ones : n < i /\ r >= i - n} /\ \A n \in Ones : n \in Nat \ {0}
  BY DEF Subtracted, Ones
<1> HIDE DEF less
<1>9. CASE less = {}
  <2>1. s.rem = r /\ s.out = w /\ s = [rem |-> s.rem, out |-> s.out]
    BY <1>7, <1>9
  <2>2. ValueOf(w) = v + k * i /\ w \in Seq(Nat) /\ FewSame(w) /\ (Len(w) > 0 => w[Len(w)] >= i)
    BY <1>6 DEF Readable
  <2>3. (v + k * i) + r = num
    <3>1. k * i \in Int
      BY <1>3
    <3> QED
      BY <1>1, <1>2, <1>3, <3>1
  <2>4. Writing(s, num) /\ LastIs(s, i)
    BY <1>3, <2>1, <2>2, <2>3 DEF Writing, LastIs
  <2>5. i = 1 => s.rem = 0
    BY <1>3, <2>1
  <2>6. ASSUME NEW top \in Nat, top \in Ones, top < i PROVE s.rem < i - top
    <3>1. ~(r >= i - top)
      BY <1>8, <1>9, <2>6
    <3> QED
      BY <1>3, <2>1, <3>1
  <2> QED
    BY <2>4, <2>5, <2>6 DEF s
<1>10. CASE less # {}
  <2>1. j \in less
    <3>1. less \in SUBSET Nat
      BY <1>8
    <3>2. \E n \in less : \A l \in less : n <= l
      BY <1>10, <3>1, LeastNumber
    <3> QED
      BY <3>2 DEF j
  <2>2. j \in Ones /\ j \in Nat /\ j > 0 /\ j < i /\ r >= i - j
    BY <1>8, <2>1
  <2>3. s.rem = r - (i - j) /\ s.out = w \o <<j, i>> /\ s = [rem |-> s.rem, out |-> s.out]
    BY <1>7, <1>10
  <2> DEFINE p == w \o <<j, i>>
  <2>4. Readable(p, (v + k * i) + (i - j), i)
    <3>1. v + k * i \in Int
      BY <1>2, <1>3
    <3> QED
      BY <1>6, <2>2, <3>1, PairAppended
  <2>5. s.out = p
    BY <2>3
  <2> HIDE DEF p
  <2>6. ValueOf(p) = (v + k * i) + (i - j) /\ p \in Seq(Nat) /\ FewSame(p) /\ (Len(p) > 0 => p[Len(p)] >= i)
    BY <2>4 DEF Readable
  <2>7. ((v + k * i) + (i - j)) + (r - (i - j)) = num /\ r - (i - j) \in Nat /\ r - (i - j) < j
    <3>1. k * i \in Int
      BY <1>3
    <3> DEFINE x == k * i
    <3>2. st.rem = x + r
      BY <1>3
    <3> HIDE DEF x
    <3>3. ((v + x) + (i - j)) + (r - (i - j)) = num
      BY <1>1, <1>2, <1>3, <2>2, <3>1, <3>2 DEF x
    <3> QED
      BY <1>3, <2>2, <3>3 DEF x
  <2>8. Writing(s, num) /\ LastIs(s, i)
    BY <2>3, <2>5, <2>6, <2>7 DEF Writing, LastIs
  <2>9. i # 1
    BY <2>2
  <2>10. ASSUME NEW top \in Nat, \A n \in Ones : n < i => n <= top PROVE s.rem < top
    <3>1. j <= top
      BY <2>2, <2>10
    <3> QED
      BY <1>3, <2>2, <2>3, <2>7, <3>1
  <2> QED
    BY <2>8, <2>9, <2>10 DEF s
<1> QED
  BY <1>9, <1>10

\* The states of the loop over the numerals.
WritingIn(g, num) ==
    /\ g[0] = [rem |-> num, out |-> <<>>] /\ ToRoman(num) = g[7].out
    /\ \A n \in 1 .. 7 : g[n] = RomanStep(g[n - 1], Numerals[n])

\* ToRoman() goes through seven states, one for each numeral it knows.
LEMMA StatesOfWriting ==
    ASSUME NEW num
    PROVE  \E g : WritingIn(g, num)
<1> DEFINE Body(f) == [n \in 0 .. 7 |-> IF n = 0 THEN [rem |-> num, out |-> <<>>] ELSE RomanStep(f[n - 1], Numerals[n])]
           a == [rem |-> num, out |-> <<>>]
           s1 == RomanStep(a, Numerals[1])
           s2 == RomanStep(s1, Numerals[2])
           s3 == RomanStep(s2, Numerals[3])
           s4 == RomanStep(s3, Numerals[4])
           s5 == RomanStep(s4, Numerals[5])
           s6 == RomanStep(s5, Numerals[6])
           s7 == RomanStep(s6, Numerals[7])
           f == [n \in 0 .. 7 |-> IF n = 0 THEN a ELSE IF n = 1 THEN s1 ELSE IF n = 2 THEN s2 ELSE IF n = 3 THEN s3
                                 ELSE IF n = 4 THEN s4 ELSE IF n = 5 THEN s5 ELSE IF n = 6 THEN s6 ELSE s7]
<1> HIDE DEF a
<1>1. f = Body(f)
  <2> DEFINE b(n) == IF n = 0 THEN a ELSE RomanStep(f[n - 1], Numerals[n])
  <2>1. \A n \in 0 .. 7 : n = 0 \/ n = 1 \/ n = 2 \/ n = 3 \/ n = 4 \/ n = 5 \/ n = 6 \/ n = 7
    OBVIOUS
  <2>2. f[0] = a /\ f[1] = s1 /\ f[2] = s2 /\ f[3] = s3 /\ f[4] = s4 /\ f[5] = s5 /\ f[6] = s6 /\ f[7] = s7
    OBVIOUS
  <2>3. /\ b(0) = a /\ b(1) = RomanStep(f[0], Numerals[1])
        /\ b(2) = RomanStep(f[1], Numerals[2]) /\ b(3) = RomanStep(f[2], Numerals[3])
        /\ b(4) = RomanStep(f[3], Numerals[4]) /\ b(5) = RomanStep(f[4], Numerals[5])
        /\ b(6) = RomanStep(f[5], Numerals[6]) /\ b(7) = RomanStep(f[6], Numerals[7])
    <3> HIDE DEF f
    <3> QED
      OBVIOUS
  <2>4. b(0) = f[0] /\ b(1) = f[1] /\ b(2) = f[2] /\ b(3) = f[3] /\ b(4) = f[4] /\ b(5) = f[5] /\ b(6) = f[6] /\ b(7) = f[7]
    <3> HIDE DEF b, f
    <3> QED
      BY <2>2, <2>3
  <2>5. f = [n \in 0 .. 7 |-> f[n]]
    OBVIOUS
  <2> HIDE DEF b, f
  <2>6. \A n \in 0 .. 7 : f[n] = b(n)
    BY <2>1, <2>4
  <2>7. [n \in 0 .. 7 |-> f[n]] = [n \in 0 .. 7 |-> b(n)]
    BY <2>6
  <2> QED
    BY <2>5, <2>7 DEF b, a
<1> HIDE DEF f
<1> DEFINE g == CHOOSE e : e = Body(e)
<1>2. g = Body(g)
  BY <1>1
<1>3. ToRoman(num) = g[7].out
  BY DEF ToRoman
<1> HIDE DEF g
<1>4. \A n \in 0 .. 7 : g[n] = IF n = 0 THEN a ELSE RomanStep(g[n - 1], Numerals[n])
  BY <1>2 DEF a
<1>5. 0 \in 0 .. 7 /\ \A n \in 1 .. 7 : n \in 0 .. 7 /\ n # 0
  OBVIOUS
<1>6. g[0] = a /\ \A n \in 1 .. 7 : g[n] = RomanStep(g[n - 1], Numerals[n])
  BY <1>4, <1>5
<1> QED
  BY <1>3, <1>6 DEF WritingIn, a

\* A numeral has the value of its number, and repeats none four times.
LEMMA NumeralHasValue ==
    ASSUME NEW num \in Nat
    PROVE  ToRoman(num) \in Seq(Nat) /\ ValueOf(ToRoman(num)) = num /\ FewSame(ToRoman(num))
<1>1. PICK g : WritingIn(g, num)
  BY StatesOfWriting
<1>2. g[0] = [rem |-> num, out |-> <<>>] /\ ToRoman(num) = g[7].out
  BY <1>1 DEF WritingIn
<1>3. Writing(g[0], num) /\ Len(g[0].out) = 0
  <2>1. <<>> \in Seq(Nat) /\ Len(<<>>) = 0
    OBVIOUS
  <2>2. FewSame(<<>>)
    BY <2>1 DEF FewSame
  <2>3. ValueOf(<<>>) = 0
    <3>1. PICK v : SummedIn(v, <<>>)
      BY <2>1, SumsOfNumerals
    <3> QED
      BY <2>1, <3>1 DEF SummedIn
  <2>4. g[0].rem = num /\ g[0].out = <<>>
    BY <1>2
  <2> QED
    BY <1>2, <2>1, <2>2, <2>3, <2>4 DEF Writing
<1>4. /\ g[1] = RomanStep(g[0], 1000)
      /\ g[2] = RomanStep(g[1], 500)
      /\ g[3] = RomanStep(g[2], 100)
      /\ g[4] = RomanStep(g[3], 50)
      /\ g[5] = RomanStep(g[4], 10)
      /\ g[6] = RomanStep(g[5], 5)
      /\ g[7] = RomanStep(g[6], 1)
  <2>1. \A n \in 1 .. 7 : g[n] = RomanStep(g[n - 1], Numerals[n])
    BY <1>1 DEF WritingIn
  <2>2. g[1] = RomanStep(g[0], 1000)
    <3>1. 1 \in 1 .. 7 /\ 1 - 1 = 0 /\ Numerals[1] = 1000
      BY DEF Numerals
    <3> QED
      BY <2>1, <3>1
  <2>3. g[2] = RomanStep(g[1], 500)
    <3>1. 2 \in 1 .. 7 /\ 2 - 1 = 1 /\ Numerals[2] = 500
      BY DEF Numerals
    <3> QED
      BY <2>1, <3>1
  <2>4. g[3] = RomanStep(g[2], 100)
    <3>1. 3 \in 1 .. 7 /\ 3 - 1 = 2 /\ Numerals[3] = 100
      BY DEF Numerals
    <3> QED
      BY <2>1, <3>1
  <2>5. g[4] = RomanStep(g[3], 50)
    <3>1. 4 \in 1 .. 7 /\ 4 - 1 = 3 /\ Numerals[4] = 50
      BY DEF Numerals
    <3> QED
      BY <2>1, <3>1
  <2>6. g[5] = RomanStep(g[4], 10)
    <3>1. 5 \in 1 .. 7 /\ 5 - 1 = 4 /\ Numerals[5] = 10
      BY DEF Numerals
    <3> QED
      BY <2>1, <3>1
  <2>7. g[6] = RomanStep(g[5], 5)
    <3>1. 6 \in 1 .. 7 /\ 6 - 1 = 5 /\ Numerals[6] = 5
      BY DEF Numerals
    <3> QED
      BY <2>1, <3>1
  <2>8. g[7] = RomanStep(g[6], 1)
    <3>1. 7 \in 1 .. 7 /\ 7 - 1 = 6 /\ Numerals[7] = 1
      BY DEF Numerals
    <3> QED
      BY <2>1, <3>1
  <2> QED
    BY <2>2, <2>3, <2>4, <2>5, <2>6, <2>7, <2>8
<1>5. Writing(g[1], num) /\ LastIs(g[1], 1000) /\ g[1].rem < 4 * 500
  <2> DEFINE s == RomanStep(g[0], 1000)
  <2>1. LastIs(g[0], 1000)
    BY <1>3 DEF LastIs
  <2>2. /\ Writing(s, num) /\ LastIs(s, 1000)
        /\ \A top \in Nat : top \in Ones /\ top < 1000 /\ (\A j \in Ones : j < 1000 => j <= top)
               => s.rem < 1000 - top \/ s.rem < top
    BY <1>3, <2>1, NumeralIsWritten
  <2>3. 100 \in Ones /\ \A j \in Ones : j < 1000 => j <= 100
    BY DEF Ones
  <2> HIDE DEF s
  <2>4. s.rem < 1000 - 100 \/ s.rem < 100
    BY <2>2, <2>3
  <2>5. s.rem \in Nat
    BY <2>2 DEF Writing
  <2>6. s.rem < 4 * 500
    BY <2>4, <2>5
  <2> QED
    BY <1>4, <2>2, <2>6 DEF s
<1>6. Writing(g[2], num) /\ LastIs(g[2], 500) /\ g[2].rem < 4 * 100
  <2> DEFINE s == RomanStep(g[1], 500)
  <2>2. /\ Writing(s, num) /\ LastIs(s, 500)
        /\ \A top \in Nat : top \in Ones /\ top < 500 /\ (\A j \in Ones : j < 500 => j <= top)
               => s.rem < 500 - top \/ s.rem < top
    <3>1. 500 \in Nat \ {0} /\ 1000 \in Nat /\ 500 < 1000
      OBVIOUS
    <3> QED
      BY <1>5, <3>1, NumeralIsWritten
  <2>3. 100 \in Ones /\ \A j \in Ones : j < 500 => j <= 100
    BY DEF Ones
  <2> HIDE DEF s
  <2>4. s.rem < 500 - 100 \/ s.rem < 100
    BY <2>2, <2>3
  <2>5. s.rem \in Nat
    BY <2>2 DEF Writing
  <2>6. s.rem < 4 * 100
    BY <2>4, <2>5
  <2> QED
    BY <1>4, <2>2, <2>6 DEF s
<1>7. Writing(g[3], num) /\ LastIs(g[3], 100) /\ g[3].rem < 4 * 50
  <2> DEFINE s == RomanStep(g[2], 100)
  <2>2. /\ Writing(s, num) /\ LastIs(s, 100)
        /\ \A top \in Nat : top \in Ones /\ top < 100 /\ (\A j \in Ones : j < 100 => j <= top)
               => s.rem < 100 - top \/ s.rem < top
    <3>1. 100 \in Nat \ {0} /\ 500 \in Nat /\ 100 < 500
      OBVIOUS
    <3> QED
      BY <1>6, <3>1, NumeralIsWritten
  <2>3. 10 \in Ones /\ \A j \in Ones : j < 100 => j <= 10
    BY DEF Ones
  <2> HIDE DEF s
  <2>4. s.rem < 100 - 10 \/ s.rem < 10
    BY <2>2, <2>3
  <2>5. s.rem \in Nat
    BY <2>2 DEF Writing
  <2>6. s.rem < 4 * 50
    BY <2>4, <2>5
  <2> QED
    BY <1>4, <2>2, <2>6 DEF s
<1>8. Writing(g[4], num) /\ LastIs(g[4], 50) /\ g[4].rem < 4 * 10
  <2> DEFINE s == RomanStep(g[3], 50)
  <2>2. /\ Writing(s, num) /\ LastIs(s, 50)
        /\ \A top \in Nat : top \in Ones /\ top < 50 /\ (\A j \in Ones : j < 50 => j <= top)
               => s.rem < 50 - top \/ s.rem < top
    <3>1. 50 \in Nat \ {0} /\ 100 \in Nat /\ 50 < 100
      OBVIOUS
    <3> QED
      BY <1>7, <3>1, NumeralIsWritten
  <2>3. 10 \in Ones /\ \A j \in Ones : j < 50 => j <= 10
    BY DEF Ones
  <2> HIDE DEF s
  <2>4. s.rem < 50 - 10 \/ s.rem < 10
    BY <2>2, <2>3
  <2>5. s.rem \in Nat
    BY <2>2 DEF Writing
  <2>6. s.rem < 4 * 10
    BY <2>4, <2>5
  <2> QED
    BY <1>4, <2>2, <2>6 DEF s
<1>9. Writing(g[5], num) /\ LastIs(g[5], 10) /\ g[5].rem < 4 * 5
  <2> DEFINE s == RomanStep(g[4], 10)
  <2>2. /\ Writing(s, num) /\ LastIs(s, 10)
        /\ \A top \in Nat : top \in Ones /\ top < 10 /\ (\A j \in Ones : j < 10 => j <= top)
               => s.rem < 10 - top \/ s.rem < top
    <3>1. 10 \in Nat \ {0} /\ 50 \in Nat /\ 10 < 50
      OBVIOUS
    <3> QED
      BY <1>8, <3>1, NumeralIsWritten
  <2>3. 1 \in Ones /\ \A j \in Ones : j < 10 => j <= 1
    BY DEF Ones
  <2> HIDE DEF s
  <2>4. s.rem < 10 - 1 \/ s.rem < 1
    BY <2>2, <2>3
  <2>5. s.rem \in Nat
    BY <2>2 DEF Writing
  <2>6. s.rem < 4 * 5
    BY <2>4, <2>5
  <2> QED
    BY <1>4, <2>2, <2>6 DEF s
<1>10. Writing(g[6], num) /\ LastIs(g[6], 5) /\ g[6].rem < 4 * 1
  <2> DEFINE s == RomanStep(g[5], 5)
  <2>2. /\ Writing(s, num) /\ LastIs(s, 5)
        /\ \A top \in Nat : top \in Ones /\ top < 5 /\ (\A j \in Ones : j < 5 => j <= top)
               => s.rem < 5 - top \/ s.rem < top
    <3>1. 5 \in Nat \ {0} /\ 10 \in Nat /\ 5 < 10
      OBVIOUS
    <3> QED
      BY <1>9, <3>1, NumeralIsWritten
  <2>3. 1 \in Ones /\ \A j \in Ones : j < 5 => j <= 1
    BY DEF Ones
  <2> HIDE DEF s
  <2>4. s.rem < 5 - 1 \/ s.rem < 1
    BY <2>2, <2>3
  <2>5. s.rem \in Nat
    BY <2>2 DEF Writing
  <2>6. s.rem < 4 * 1
    BY <2>4, <2>5
  <2> QED
    BY <1>4, <2>2, <2>6 DEF s
<1>11. Writing(g[7], num) /\ LastIs(g[7], 1) /\ g[7].rem = 0
  <2> DEFINE s == RomanStep(g[6], 1)
  <2>2. Writing(s, num) /\ LastIs(s, 1) /\ s.rem = 0
    BY <1>10, NumeralIsWritten
  <2> QED
    BY <1>4, <2>2
<1> QED
  <2>1. /\ g[7].rem = 0 /\ g[7].out \in Seq(Nat) /\ FewSame(g[7].out)
        /\ ValueOf(g[7].out) + g[7].rem = num
    BY <1>11 DEF Writing
  <2>2. ValueOf(g[7].out) \in Int
    BY <2>1, NumeralAppended
  <2> QED
    BY <1>2, <2>1, <2>2

\* Of some values that are not all the same there are several.
LEMMA SeveralValues ==
    ASSUME NEW f, NEW i \in Int, NEW j \in i .. i + 3, f[j] # f[i]
    PROVE  Cardinality({f[n] : n \in i .. i + 3}) > 1
<1> DEFINE S == {f[n] : n \in i .. i + 3}
<1>1. IsFiniteSet(S)
  <2>1. \A n \in i .. i + 3 : n = i \/ n = i + 1 \/ n = i + 2 \/ n = i + 3
    OBVIOUS
  <2>2. S \subseteq (({f[i]} \cup {f[i + 1]}) \cup {f[i + 2]}) \cup {f[i + 3]}
    BY <2>1
  <2>3. IsFiniteSet({f[i]})
    BY FS_Singleton
  <2>4. IsFiniteSet({f[i]} \cup {f[i + 1]})
    BY <2>3, FS_AddElement
  <2>5. IsFiniteSet(({f[i]} \cup {f[i + 1]}) \cup {f[i + 2]})
    BY <2>4, FS_AddElement
  <2>6. IsFiniteSet((({f[i]} \cup {f[i + 1]}) \cup {f[i + 2]}) \cup {f[i + 3]})
    BY <2>5, FS_AddElement
  <2> QED
    BY <2>2, <2>6, FS_Subset
<1>2. f[i] \in S /\ f[j] \in S
  OBVIOUS
<1> HIDE DEF S
<1>3. Cardinality(S \ {f[i]}) = Cardinality(S) - 1 /\ IsFiniteSet(S \ {f[i]})
  BY <1>1, <1>2, FS_RemoveElement
<1>4. S \ {f[i]} # {}
  BY <1>2
<1>5. Cardinality(S \ {f[i]}) \in Nat /\ Cardinality(S \ {f[i]}) # 0 /\ Cardinality(S) \in Nat
  BY <1>1, <1>3, <1>4, FS_CardinalityType, FS_EmptySet
<1>6. Cardinality(S) > 1
  BY <1>3, <1>5
<1> QED
  BY <1>6 DEF S

\* Every number is written as a Roman numeral that has its value, and repeats no
\* numeral more than three times but thousands.
THEOREM NumeralsAlwaysHaveValue == Spec => []RomanHasValue
<1> DEFINE OK == number \in Nat
<1>1. Init => OK
  BY DEF Init, ConversionsInit
<1>2. OK /\ [Next]_vars => OK'
  <2> SUFFICES ASSUME OK, [Next]_vars PROVE OK'
    OBVIOUS
  <2>1. CASE NextNumeral
    BY <2>1 DEF NextNumeral
  <2>2. CASE UNCHANGED number
    BY <2>2
  <2> QED
    BY <2>1, <2>2 DEF Next, UseDates, UseConversions, UseNames, UseEnvironment, UseEnumeration, UseChecks, UseTable, UsePipeline,
       MoreBytes, Type, MoveTime, conversions, vars
<1>3. OK => RomanHasValue
  <2> SUFFICES ASSUME OK PROVE RomanHasValue
    OBVIOUS
  <2> DEFINE out == ToRoman(number)
  <2>1. out \in Seq(Nat) /\ ValueOf(out) = number /\ FewSame(out)
    BY NumeralHasValue
  <2> HIDE DEF out
  <2>2. ASSUME NEW i \in 1 .. Len(out) - 3, out[i] # 1000 PROVE Cardinality({out[j] : j \in i .. i + 3}) > 1
    <3>1. PICK j \in i .. i + 3 : out[j] # out[i]
      BY <2>1, <2>2 DEF FewSame
    <3>2. i \in Int
      OBVIOUS
    <3> QED
      BY <3>1, <3>2, SeveralValues
  <2> QED
    BY <2>1, <2>2 DEF RomanHasValue, ValueOf, SignedNumeral, out
<1> QED
  BY <1>1, <1>2, <1>3, PTL DEF Spec

-----------------------------------------------------------------------------
\* Texts that are put together from parts, and taken apart again.
FlattenedIn(h, seqs, S) ==
    /\ h[0] = <<>> /\ FlattenSeq(seqs) = h[Len(seqs)]
    /\ \A n \in 1 .. Len(seqs) : h[n] = h[n - 1] \o seqs[n]
    /\ \A n \in 0 .. Len(seqs) : h[n] \in Seq(S)

\* FlattenSeq() puts one part behind another.
LEMMA StatesOfFlattening ==
    ASSUME NEW S, NEW seqs \in Seq(Seq(S))
    PROVE  \E h : FlattenedIn(h, seqs, S)
<1> DEFINE N == Len(seqs)
           Q == Seq(S)
           Body(f) == [i \in 1 .. N |-> IF i = 1 THEN seqs[i] ELSE f[i - 1] \o seqs[i]]
           F == [p \in (1 .. N) \X Q |-> p[2] \o seqs[p[1]]]
<1>1. N \in Nat /\ \A n \in 1 .. N : seqs[n] \in Q
  BY LenProperties, ElementOfSeq
<1>2. <<>> \in Q /\ (\A s \in Q : <<>> \o s = s) /\ \A s, t \in Q : s \o t \in Q
  BY EmptySeq, ConcatEmptySeq, ConcatProperties
<1>3. N = 0 => seqs = <<>>
  BY EmptySeq
<1> HIDE DEF N, Q
<1>4. PICK f : StepsOf(f, N, Q, <<>>, F)
  <2>1. F \in [(1 .. N) \X Q -> Q]
    BY <1>1, <1>2
  <2> HIDE DEF F
  <2> QED
    BY <1>1, <1>2, <2>1, Iterated
<1>5. f \in [0 .. N -> Q] /\ f[0] = <<>> /\ \A n \in 1 .. N : f[n] = F[<<n, f[n - 1]>>]
  BY <1>4 DEF StepsOf
<1>6. \A n \in 1 .. N : f[n] = f[n - 1] \o seqs[n]
  <2> TAKE n \in 1 .. N
  <2>1. n - 1 \in 0 .. N
    BY <1>1
  <2>2. f[n - 1] \in Q
    BY <1>5, <2>1
  <2>3. f[n] = F[<<n, f[n - 1]>>] /\ <<n, f[n - 1]>> \in (1 .. N) \X Q
    BY <1>5, <2>2
  <2> QED
    BY <2>3
<1> HIDE DEF F
<1> DEFINE e == [i \in 1 .. N |-> f[i]]
<1>7. e = Body(e)
  <2>1. \A n \in 1 .. N : f[n] = Body(e)[n]
    <3> TAKE n \in 1 .. N
    <3>1. CASE n = 1
      BY <1>1, <1>2, <1>5, <1>6, <3>1
    <3>2. CASE n # 1
      <4>1. n - 1 \in 1 .. N
        BY <1>1, <3>2
      <4> QED
        BY <1>6, <3>2, <4>1
    <3> QED
      BY <3>1, <3>2
  <2> QED
    BY <2>1
<1> HIDE DEF e
<1> DEFINE g == CHOOSE c : c = Body(c)
<1>8. g = Body(g)
  BY <1>7
<1>9. N # 0 => FlattenSeq(seqs) = g[N]
  BY DEF FlattenSeq, N
<1> HIDE DEF g
<1>10. \A n \in 1 .. N : g[n] = IF n = 1 THEN seqs[n] ELSE g[n - 1] \o seqs[n]
  BY <1>8
<1> DEFINE h == [n \in 0 .. N |-> IF n = 0 THEN <<>> ELSE g[n]]
<1>11. h[0] = <<>>
  BY <1>1
<1>12. \A n \in 1 .. N : h[n] = h[n - 1] \o seqs[n]
  <2> TAKE n \in 1 .. N
  <2>1. CASE n = 1
    <3>1. h[n] = g[n] /\ h[n - 1] = <<>>
      BY <1>1, <2>1
    <3> QED
      BY <1>1, <1>2, <1>10, <2>1, <3>1
  <2>2. CASE n # 1
    <3>1. n - 1 \in 0 .. N /\ n \in 0 .. N /\ n # 0 /\ n - 1 # 0
      BY <1>1, <2>2
    <3>2. h[n] = g[n] /\ h[n - 1] = g[n - 1]
      BY <3>1
    <3> HIDE DEF h
    <3> QED
      BY <1>10, <2>2, <3>2
  <2> QED
    BY <2>1, <2>2
<1>13. FlattenSeq(seqs) = h[N]
  <2>1. CASE N = 0
    <3>1. FlattenSeq(seqs) = seqs
      BY <2>1 DEF FlattenSeq, N
    <3> QED
      BY <1>3, <1>11, <2>1, <3>1
  <2>2. CASE N # 0
    BY <1>1, <1>9, <2>2
  <2> QED
    BY <2>1, <2>2
<1> HIDE DEF h
<1> DEFINE T == {n \in Nat : n <= N => h[n] \in Q}
<1>14. \A n \in Nat : n \in T <=> (n <= N => h[n] \in Q)
  OBVIOUS
<1> HIDE DEF T
<1>15. 0 \in T
  BY <1>2, <1>11, <1>14
<1>16. ASSUME NEW n \in Nat, n \in T PROVE n + 1 \in T
  <2>1. n + 1 \in Nat /\ (n + 1) - 1 = n /\ (n + 1 <= N => n + 1 \in 1 .. N /\ n <= N)
    BY <1>1
  <2>2. ASSUME n + 1 <= N PROVE h[n + 1] \in Q
    <3>1. h[n + 1] = h[n] \o seqs[n + 1] /\ h[n] \in Q /\ n + 1 \in 1 .. N
      BY <1>12, <1>14, <1>16, <2>1, <2>2
    <3> QED
      BY <1>1, <1>2, <3>1
  <2> QED
    BY <1>14, <2>1, <2>2
<1>17. \A n \in 0 .. N : h[n] \in Q
  <2>1. Nat \subseteq T
    BY <1>15, <1>16, Induction
  <2>2. \A n \in 0 .. N : n \in Nat /\ n <= N
    BY <1>1
  <2> QED
    BY <1>14, <2>1, <2>2
<1> QED
  BY <1>11, <1>12, <1>13, <1>17 DEF FlattenedIn, N, Q

\* Where the parts end, and what is there.
PartsIn(E, flat, seqs, n) ==
    /\ E[0] = 0 /\ Len(flat) = E[n]
    /\ \A k \in 1 .. n : E[k] = E[k - 1] + Len(seqs[k])
    /\ \A k \in 0 .. n : E[k] \in Nat /\ E[k] <= E[n]
    /\ \A k \in 1 .. n : \A i \in 1 .. Len(seqs[k]) : flat[E[k - 1] + i] = seqs[k][i]

\* Each part is found where those before it end.
LEMMA PartsOfFlat ==
    ASSUME NEW S, NEW seqs \in Seq(Seq(S))
    PROVE  FlattenSeq(seqs) \in Seq(S) /\ \E E : PartsIn(E, FlattenSeq(seqs), seqs, Len(seqs))
<1> DEFINE N == Len(seqs)
<1>1. N \in Nat /\ \A n \in 1 .. N : seqs[n] \in Seq(S)
  BY LenProperties, ElementOfSeq
<1>2. PICK h : FlattenedIn(h, seqs, S)
  BY StatesOfFlattening
<1>3. /\ h[0] = <<>> /\ FlattenSeq(seqs) = h[N]
      /\ \A n \in 1 .. N : h[n] = h[n - 1] \o seqs[n]
      /\ \A n \in 0 .. N : h[n] \in Seq(S)
  BY <1>2 DEF FlattenedIn
<1> HIDE DEF N
<1> DEFINE E == [n \in 0 .. N |-> Len(h[n])]
<1>4. \A n \in 0 .. N : E[n] = Len(h[n]) /\ E[n] \in Nat
  BY <1>3, LenProperties
<1> HIDE DEF E
<1> DEFINE T == {n \in Nat : n <= N => PartsIn(E, h[n], seqs, n)}
<1>5. \A n \in Nat : n \in T <=> (n <= N => PartsIn(E, h[n], seqs, n))
  OBVIOUS
<1> HIDE DEF T
<1>6. 0 \in T
  <2>1. E[0] = 0
    BY <1>1, <1>3, <1>4
  <2>2. Len(h[0]) = E[0]
    BY <1>1, <1>4
  <2>3. \A k \in 0 .. 0 : k = 0
    OBVIOUS
  <2>4. PartsIn(E, h[0], seqs, 0)
    BY <2>1, <2>2, <2>3 DEF PartsIn
  <2> QED
    BY <1>5, <2>4
<1>7. ASSUME NEW n \in Nat, n \in T PROVE n + 1 \in T
  <2>1. ASSUME n + 1 <= N PROVE PartsIn(E, h[n + 1], seqs, n + 1)
    <3> DEFINE s == h[n]
               t == seqs[n + 1]
               u == h[n + 1]
    <3>1. n + 1 \in 1 .. N /\ n + 1 \in 0 .. N /\ n \in 0 .. N /\ (n + 1) - 1 = n
      BY <1>1, <2>1
    <3>2. u = s \o t /\ s \in Seq(S) /\ t \in Seq(S) /\ E[n] = Len(s) /\ E[n + 1] = Len(u) /\ E[n] \in Nat /\ E[n + 1] \in Nat
      BY <1>1, <1>3, <1>4, <3>1
    <3>3. Len(u) = Len(s) + Len(t) /\ \A i \in 1 .. Len(s) + Len(t) : u[i] = IF i <= Len(s) THEN s[i] ELSE t[i - Len(s)]
      <4> HIDE DEF s, t, u
      <4>1. \A i \in 1 .. Len(s) + Len(t) : (s \o t)[i] = IF i <= Len(s) THEN s[i] ELSE t[i - Len(s)]
        BY <3>2, ConcatProperties
      <4>2. Len(s \o t) = Len(s) + Len(t)
        BY <3>2, ConcatProperties
      <4> QED
        BY <3>2, <4>1, <4>2
    <3>4. Len(t) \in Nat
      BY <3>2, LenProperties
    <3>5. /\ E[0] = 0 /\ Len(s) = E[n]
          /\ \A k \in 1 .. n : E[k] = E[k - 1] + Len(seqs[k])
          /\ \A k \in 0 .. n : E[k] \in Nat /\ E[k] <= E[n]
          /\ \A k \in 1 .. n : \A i \in 1 .. Len(seqs[k]) : s[E[k - 1] + i] = seqs[k][i]
      <4>1. PartsIn(E, s, seqs, n)
        BY <1>5, <1>7, <3>1
      <4> HIDE DEF s
      <4> QED
        BY <4>1 DEF PartsIn
    <3>6. \A k \in 1 .. n + 1 : k \in 1 .. n \/ k = n + 1
      OBVIOUS
    <3> HIDE DEF s, u
    <3>7. \A k \in 1 .. n + 1 : E[k] = E[k - 1] + Len(seqs[k])
      BY <3>1, <3>2, <3>3, <3>5, <3>6
    <3>8. \A k \in 0 .. n + 1 : E[k] \in Nat /\ E[k] <= E[n + 1]
      <4>1. E[n] <= E[n + 1]
        BY <3>2, <3>3, <3>4
      <4>2. \A k \in 0 .. n + 1 : k \in 0 .. n \/ k = n + 1
        OBVIOUS
      <4> QED
        BY <3>2, <3>5, <4>1, <4>2
    <3>9. ASSUME NEW k \in 1 .. n + 1, NEW i \in 1 .. Len(seqs[k]) PROVE u[E[k - 1] + i] = seqs[k][i]
      <4>1. CASE k = n + 1
        <5>1. E[n] + i \in 1 .. Len(s) + Len(t) /\ ~(E[n] + i <= Len(s)) /\ (E[n] + i) - Len(s) = i
          BY <3>2, <3>4, <4>1
        <5> QED
          BY <3>1, <3>3, <4>1, <5>1
      <4>2. CASE k \in 1 .. n
        <5>1. k - 1 \in 0 .. n /\ k \in 0 .. n
          BY <4>2
        <5>2. seqs[k] \in Seq(S)
          BY <1>1, <2>1, <4>2
        <5>3. Len(seqs[k]) \in Nat
          BY <5>2, LenProperties
        <5> DEFINE q == E[k - 1] + i
        <5>4. q \in 1 .. Len(s) /\ q \in 1 .. Len(s) + Len(t)
          <6>1. E[k] = E[k - 1] + Len(seqs[k]) /\ E[k - 1] \in Nat /\ E[k] <= E[n] /\ E[k] \in Nat /\ E[n] = Len(s)
            BY <3>2, <3>5, <4>2, <5>1
          <6>2. q <= E[k]
            BY <5>3, <6>1
          <6>3. q \in Nat /\ q >= 1
            BY <5>3, <6>1
          <6> HIDE DEF q
          <6>4. Len(s) \in Nat
            BY <6>1
          <6>5. q <= Len(s)
            BY <6>1, <6>2, <6>3
          <6> HIDE DEF t
          <6> QED
            BY <3>4, <6>3, <6>4, <6>5
        <5>5. s[q] = seqs[k][i]
          BY <3>5, <4>2
        <5> HIDE DEF q
        <5>6. u[q] = s[q]
          BY <3>3, <5>4
        <5> QED
          BY <5>5, <5>6 DEF q
      <4> QED
        BY <3>6, <4>1, <4>2
    <3> QED
      BY <3>2, <3>5, <3>7, <3>8, <3>9 DEF PartsIn, u
  <2> QED
    BY <1>5, <2>1
<1>8. PartsIn(E, h[N], seqs, N)
  <2>1. N \in T
    BY <1>1, <1>6, <1>7, Induction
  <2> QED
    BY <1>1, <1>5, <2>1
<1>9. h[N] \in Seq(S)
  BY <1>1, <1>3
<1> QED
  BY <1>3, <1>8, <1>9 DEF N

\* The first position from which on there is a character of the set.
FoundAt(str, set, from, i) ==
    /\ i \in from .. Len(str) + 1 /\ (i <= Len(str) => str[i] \in set)
    /\ \A j \in from .. i - 1 : str[j] \notin set

\* Find() is a first position, whatever is looked for.
LEMMA FindIs ==
    ASSUME NEW S, NEW str \in Seq(S), NEW set, NEW from \in 1 .. Len(str) + 1
    PROVE  FoundAt(str, set, from, Find(str, set, from))
<1> DEFINE N == Len(str)
           Places == {i \in Nat : i \in from .. N + 1 /\ (i <= N => str[i] \in set)}
<1>1. N \in Nat
  BY LenProperties
<1>2. \A i \in Nat : i \in Places <=> i \in from .. N + 1 /\ (i <= N => str[i] \in set)
  OBVIOUS
<1>3. Places \in SUBSET Nat /\ N + 1 \in Nat /\ N + 1 \in from .. N + 1 /\ ~(N + 1 <= N)
  BY <1>1
<1> HIDE DEF Places
<1>4. Places # {}
  BY <1>2, <1>3
<1>5. PICK i \in Places : \A m \in Places : i <= m
  BY <1>3, <1>4, LeastNumber
<1>6. \A j \in from .. i - 1 : str[j] \notin set
  <2> TAKE j \in from .. i - 1
  <2>1. i \in from .. N + 1
    BY <1>2, <1>3, <1>5
  <2>2. j \in Nat /\ ~(i <= j) /\ j \in from .. N + 1 /\ j <= N
    BY <1>1, <2>1
  <2>3. j \notin Places
    BY <1>5, <2>2
  <2> QED
    BY <1>2, <2>2, <2>3
<1>7. FoundAt(str, set, from, i) /\ i \in from .. N + 1
  <2>1. i \in Nat
    BY <1>3, <1>5
  <2> QED
    BY <1>2, <1>5, <1>6, <2>1 DEF FoundAt
<1>8. Find(str, set, from) =
          CHOOSE k \in from .. Len(str) + 1 :
              (k <= Len(str) => str[k] \in set) /\ \A j \in from .. k - 1 : str[j] \notin set
  BY DEF Find
<1> QED
  BY <1>7, <1>8 DEF FoundAt, N

\* There is only one first position.
LEMMA FoundOnce ==
    ASSUME NEW S, NEW str \in Seq(S), NEW set, NEW from \in 1 .. Len(str) + 1, NEW i, FoundAt(str, set, from, i)
    PROVE  Find(str, set, from) = i
<1> DEFINE k == Find(str, set, from)
<1>1. FoundAt(str, set, from, k)
  BY FindIs
<1>2. Len(str) \in Nat
  BY LenProperties
<1> HIDE DEF k
<1>3. i \in Nat /\ k \in Nat
  BY <1>1, <1>2 DEF FoundAt
<1>4. ~(i < k) /\ ~(k < i)
  BY <1>1, <1>2, <1>3 DEF FoundAt
<1> QED
  BY <1>3, <1>4 DEF k

\* The states of the loop over the tokens.
TokenStates(S, str) == [tokens : Seq(Seq(S)), pos : 1 .. Len(str) + 1]

\* What the next token is, and that there is none.
TokenAt(str, delimiters, st, l, p) ==
    /\ l \in st.pos .. Len(str) + 1 /\ p \in l .. Len(str) + 1
    /\ \A j \in st.pos .. l - 1 : str[j] \in delimiters
    /\ l <= Len(str) => str[l] \notin delimiters /\ l < p
    /\ \A j \in l .. p - 1 : str[j] \notin delimiters
    /\ p <= Len(str) => str[p] \in delimiters

\* The next token is from the first character that is no delimiter up to the
\* next delimiter.
LEMMA TokenIs ==
    ASSUME NEW S, NEW str \in Seq(S), NEW delimiters, NEW st \in TokenStates(S, str)
    PROVE  \E l, p \in Nat :
              /\ TokenAt(str, delimiters, st, l, p)
              /\ NextToken(str, delimiters, st) =
                     IF l > Len(str) THEN st ELSE [tokens |-> Append(st.tokens, SubSeq(str, l, p - 1)), pos |-> p]
<1> DEFINE N == Len(str)
           l == Find(str, ToSet(str) \ delimiters, st.pos)
           p == Find(str, delimiters, l)
<1>1. N \in Nat /\ st.pos \in 1 .. N + 1
  BY LenProperties DEF TokenStates
<1>2. \A j \in 1 .. N : str[j] \in ToSet(str)
  BY LenProperties DEF ToSet
<1>3. NextToken(str, delimiters, st) = IF l > N THEN st ELSE [tokens |-> Append(st.tokens, SubSeq(str, l, p - 1)), pos |-> p]
  BY DEF NextToken, Token
<1>4. FoundAt(str, ToSet(str) \ delimiters, st.pos, l)
  BY <1>1, FindIs
<1> HIDE DEF l
<1>5. l \in st.pos .. N + 1 /\ l \in 1 .. N + 1
  BY <1>1, <1>4 DEF FoundAt
<1>6. FoundAt(str, delimiters, l, p)
  BY <1>5, FindIs
<1> HIDE DEF p
<1>7. p \in l .. N + 1 /\ (\A j \in l .. p - 1 : str[j] \notin delimiters) /\ (p <= N => str[p] \in delimiters)
  BY <1>6 DEF FoundAt
<1>8. \A j \in st.pos .. l - 1 : str[j] \in delimiters
  <2> TAKE j \in st.pos .. l - 1
  <2>1. j \in 1 .. N
    BY <1>1, <1>5
  <2>2. str[j] \notin ToSet(str) \ delimiters
    BY <1>4 DEF FoundAt
  <2> QED
    BY <1>2, <2>1, <2>2
<1>9. l <= N => str[l] \notin delimiters /\ l < p
  <2>1. l <= N => str[l] \notin delimiters
    BY <1>4 DEF FoundAt
  <2>2. ASSUME l <= N PROVE l < p
    <3>1. l # p
      BY <1>7, <2>1, <2>2
    <3> QED
      BY <1>1, <1>5, <1>7, <3>1
  <2> QED
    BY <2>1, <2>2
<1>10. TokenAt(str, delimiters, st, l, p)
  BY <1>5, <1>7, <1>8, <1>9 DEF TokenAt
<1>11. l \in Nat /\ p \in Nat
  BY <1>1, <1>5, <1>7
<1> QED
  BY <1>3, <1>10, <1>11

\* With the next token, the loop is in a state again.
LEMMA NextTokenInStates ==
    ASSUME NEW S, NEW str \in Seq(S), NEW delimiters, NEW st \in TokenStates(S, str)
    PROVE  NextToken(str, delimiters, st) \in TokenStates(S, str)
<1>1. PICK l, p \in Nat :
              /\ TokenAt(str, delimiters, st, l, p)
              /\ NextToken(str, delimiters, st) =
                     IF l > Len(str) THEN st ELSE [tokens |-> Append(st.tokens, SubSeq(str, l, p - 1)), pos |-> p]
  BY TokenIs
<1>2. Len(str) \in Nat /\ \A j \in 1 .. Len(str) : str[j] \in S
  BY LenProperties, ElementOfSeq
<1>3. st.tokens \in Seq(Seq(S)) /\ st.pos \in 1 .. Len(str) + 1
  BY DEF TokenStates
<1>4. l \in 1 .. Len(str) + 1 /\ p \in 1 .. Len(str) + 1
  BY <1>1, <1>2, <1>3 DEF TokenAt
<1>5. SubSeq(str, l, p - 1) \in Seq(S)
  <2>1. \A j \in l .. p - 1 : j \in 1 .. Len(str)
    BY <1>2, <1>4
  <2>2. l \in Int /\ p - 1 \in Int /\ \A j \in l .. p - 1 : str[j] \in S
    BY <1>2, <2>1
  <2> QED
    BY <2>2, SubSeqProperties
<1>6. Append(st.tokens, SubSeq(str, l, p - 1)) \in Seq(Seq(S))
  BY <1>3, <1>5, AppendProperties
<1> QED
  BY <1>1, <1>4, <1>6 DEF TokenStates

\* The loop goes through its states, no more often than there are characters.
TokensIn(g, S, str, delimiters) ==
    /\ g[0] = [tokens |-> <<>>, pos |-> 1] /\ Tokenize(str, delimiters) = g[Len(str)].tokens
    /\ \A n \in 1 .. Len(str) : g[n] = NextToken(str, delimiters, g[n - 1])
    /\ \A n \in 0 .. Len(str) : g[n] \in TokenStates(S, str)

\* There are states as the loop goes through them.
LEMMA StatesOfTokens ==
    ASSUME NEW S, NEW str \in Seq(S), NEW delimiters
    PROVE  \E g : TokensIn(g, S, str, delimiters)
<1> DEFINE N == Len(str)
           Q == TokenStates(S, str)
           a == [tokens |-> <<>>, pos |-> 1]
           Next1(s) == NextToken(str, delimiters, s)
           Body(f) == [i \in 0 .. N |-> IF i = 0 THEN a ELSE Next1(f[i - 1])]
           F == [p \in (1 .. N) \X Q |-> Next1(p[2])]
<1>1. N \in Nat
  BY LenProperties
<1>2. a \in Q
  <2>1. <<>> \in Seq(Seq(S)) /\ 1 \in 1 .. N + 1
    BY <1>1, EmptySeq
  <2> QED
    BY <2>1 DEF TokenStates
<1>3. \A s \in Q : Next1(s) \in Q
  BY NextTokenInStates
<1>4. Tokenize(str, delimiters) = (CHOOSE e : e = Body(e))[N].tokens
  BY DEF Tokenize
<1> HIDE DEF N, Q, a, Next1
<1>5. PICK f : StepsOf(f, N, Q, a, F)
  <2>1. F \in [(1 .. N) \X Q -> Q]
    BY <1>3
  <2> HIDE DEF F
  <2> QED
    BY <1>1, <1>2, <2>1, Iterated
<1>6. f \in [0 .. N -> Q] /\ f[0] = a /\ \A n \in 1 .. N : f[n] = F[<<n, f[n - 1]>>]
  BY <1>5 DEF StepsOf
<1>7. \A n \in 1 .. N : f[n] = Next1(f[n - 1])
  <2> TAKE n \in 1 .. N
  <2>1. n - 1 \in 0 .. N
    BY <1>1
  <2>2. f[n - 1] \in Q
    BY <1>6, <2>1
  <2>3. f[n] = F[<<n, f[n - 1]>>] /\ <<n, f[n - 1]>> \in (1 .. N) \X Q
    BY <1>6, <2>2
  <2> QED
    BY <2>3
<1> HIDE DEF F
<1>8. f = Body(f)
  <2>1. f = [n \in 0 .. N |-> f[n]]
    BY <1>6
  <2>2. \A n \in 0 .. N : f[n] = Body(f)[n]
    <3>1. \A n \in 0 .. N : n # 0 => n \in 1 .. N
      BY <1>1
    <3> QED
      BY <1>6, <1>7, <3>1
  <2> QED
    BY <2>1, <2>2
<1> DEFINE g == CHOOSE e : e = Body(e)
<1>9. g = Body(g)
  BY <1>8
<1>10. Tokenize(str, delimiters) = g[N].tokens
  BY <1>4
<1> HIDE DEF g
<1>11. g[0] = a /\ \A n \in 1 .. N : g[n] = Next1(g[n - 1])
  <2>1. \A n \in 0 .. N : g[n] = IF n = 0 THEN a ELSE Next1(g[n - 1])
    BY <1>9
  <2>2. 0 \in 0 .. N /\ \A n \in 1 .. N : n \in 0 .. N /\ n # 0
    BY <1>1
  <2> QED
    BY <2>1, <2>2
<1> DEFINE T == {n \in Nat : n <= N => g[n] \in Q}
<1>12. \A n \in Nat : n \in T <=> (n <= N => g[n] \in Q)
  OBVIOUS
<1> HIDE DEF T
<1>13. 0 \in T
  BY <1>2, <1>11, <1>12
<1>14. ASSUME NEW n \in Nat, n \in T PROVE n + 1 \in T
  <2>1. n + 1 \in Nat /\ (n + 1) - 1 = n /\ (n + 1 <= N => n + 1 \in 1 .. N /\ n <= N)
    BY <1>1
  <2>2. ASSUME n + 1 <= N PROVE g[n + 1] \in Q
    <3>1. g[n + 1] = Next1(g[n]) /\ g[n] \in Q
      BY <1>11, <1>12, <1>14, <2>1, <2>2
    <3> QED
      BY <1>3, <3>1
  <2> QED
    BY <1>12, <2>1, <2>2
<1>15. \A n \in 0 .. N : g[n] \in Q
  <2>1. Nat \subseteq T
    BY <1>13, <1>14, Induction
  <2>2. \A n \in 0 .. N : n \in Nat /\ n <= N
    BY <1>1
  <2> QED
    BY <1>12, <2>1, <2>2
<1> QED
  BY <1>10, <1>11, <1>15 DEF TokensIn, N, Q, a, Next1

\* The runs that end before a position, and the number of a run.
RunsBefore(str, p) == {r \in Runs(str) : r[2] < p}
RunsUpTo(str, i) == {s \in Runs(str) : s[1] <= i}

\* What a run is.
LEMMA RunIs ==
    ASSUME NEW str, Len(str) \in Nat, NEW r \in Runs(str)
    PROVE  /\ r = <<r[1], r[2]>> /\ r[1] \in 1 .. Len(str) /\ r[2] \in 1 .. Len(str) /\ r[1] <= r[2]
           /\ \A i \in r[1] .. r[2] : str[i] \notin Blanks
           /\ r[1] > 1 => str[r[1] - 1] \in Blanks
           /\ r[2] < Len(str) => str[r[2] + 1] \in Blanks
  BY DEF Runs

\* A text has finitely many runs.
LEMMA RunsAreFinite ==
    ASSUME NEW str, Len(str) \in Nat
    PROVE  /\ IsFiniteSet(Runs(str))
           /\ \A p : IsFiniteSet(RunsBefore(str, p)) /\ IsFiniteSet(RunsUpTo(str, p))
<1> DEFINE I == 1 .. Len(str)
<1>1. IsFiniteSet(I)
  <2>1. 1 \in Int /\ Len(str) \in Int
    OBVIOUS
  <2> QED
    BY <2>1, FS_Interval
<1> HIDE DEF I
<1>2. IsFiniteSet(I \X I)
  BY <1>1, FS_Product
<1>3. Runs(str) \subseteq I \X I
  BY DEF Runs, I
<1>4. IsFiniteSet(Runs(str))
  BY <1>2, <1>3, FS_Subset
<1>5. \A p : RunsBefore(str, p) \subseteq Runs(str) /\ RunsUpTo(str, p) \subseteq Runs(str)
  BY DEF RunsBefore, RunsUpTo
<1> QED
  BY <1>4, <1>5, FS_Subset

\* No run goes on over a blank.
LEMMA RunsEndAtBlanks ==
    ASSUME NEW str, Len(str) \in Nat, NEW r \in Runs(str), NEW i \in Nat, str[i] \in Blanks
    PROVE  r[2] < i \/ i < r[1]
<1>1. r[1] \in Nat /\ r[2] \in Nat /\ \A j \in r[1] .. r[2] : str[j] \notin Blanks
  BY RunIs
<1>2. i \notin r[1] .. r[2]
  BY <1>1
<1> QED
  BY <1>1, <1>2

\* The token from l to p is the run behind those before p0.
LEMMA TokenIsRun ==
    ASSUME NEW str, Len(str) \in Nat, NEW p0 \in 1 .. Len(str) + 1, NEW l \in Nat, NEW p \in Nat, l <= Len(str),
           p0 = 1 \/ p0 = Len(str) + 1 \/ str[p0] \in Blanks,
           l \in p0 .. Len(str) + 1, p \in l .. Len(str) + 1,
           \A j \in p0 .. l - 1 : str[j] \in Blanks,
           str[l] \notin Blanks, l < p,
           \A j \in l .. p - 1 : str[j] \notin Blanks,
           p <= Len(str) => str[p] \in Blanks
    PROVE  /\ <<l, p - 1>> \in Runs(str)
           /\ RunsBefore(str, p) = RunsBefore(str, p0) \cup {<<l, p - 1>>}
           /\ <<l, p - 1>> \notin RunsBefore(str, p0)
           /\ RunsUpTo(str, l) = RunsBefore(str, p)
           /\ \A r \in RunsBefore(str, p0) : RunsUpTo(str, r[1]) \subseteq RunsBefore(str, p0)
<1> DEFINE N == Len(str)
           rho == <<l, p - 1>>
<1>1. /\ N \in Nat /\ p0 \in 1 .. N + 1 /\ l \in p0 .. N /\ l \in 1 .. N
      /\ p \in l + 1 .. N + 1 /\ p - 1 \in l .. N /\ p - 1 \in 1 .. N
  OBVIOUS
<1> HIDE DEF N
<1>2. l > 1 => str[l - 1] \in Blanks
  <2>1. CASE l > p0
    <3>1. l - 1 \in p0 .. l - 1
      BY <1>1, <2>1
    <3> QED
      BY <3>1
  <2>2. CASE l = p0
    BY <1>1, <2>2 DEF N
  <2> QED
    BY <1>1, <2>1, <2>2
<1>3. rho \in Runs(str)
  <2>1. rho \in (1 .. N) \X (1 .. N) /\ rho[1] = l /\ rho[2] = p - 1 /\ rho[1] <= rho[2]
    BY <1>1
  <2>2. \A i \in rho[1] .. rho[2] : str[i] \notin Blanks
    BY <2>1
  <2>3. rho[2] < N => str[rho[2] + 1] \in Blanks
    <3>1. (p - 1) + 1 = p /\ (p - 1 < N => p <= N)
      BY <1>1
    <3> QED
      BY <2>1, <3>1 DEF N
  <2>4. rho[1] > 1 => str[rho[1] - 1] \in Blanks
    BY <1>2, <2>1
  <2> HIDE DEF rho
  <2> QED
    BY <2>1, <2>2, <2>3, <2>4 DEF Runs, N
<1>4. \A r \in Runs(str) : /\ r = <<r[1], r[2]>> /\ r[1] \in 1 .. N /\ r[2] \in 1 .. N /\ r[1] <= r[2]
                           /\ str[r[2]] \notin Blanks
                           /\ r[1] > 1 => str[r[1] - 1] \in Blanks
                           /\ r[2] < N => str[r[2] + 1] \in Blanks
  <2> TAKE r \in Runs(str)
  <2>1. /\ r = <<r[1], r[2]>> /\ r[1] \in 1 .. N /\ r[2] \in 1 .. N /\ r[1] <= r[2]
        /\ \A i \in r[1] .. r[2] : str[i] \notin Blanks
        /\ r[1] > 1 => str[r[1] - 1] \in Blanks
        /\ r[2] < N => str[r[2] + 1] \in Blanks
    BY RunIs DEF N
  <2>2. r[2] \in r[1] .. r[2]
    BY <2>1
  <2> QED
    BY <2>1, <2>2
<1>5. ASSUME NEW r \in Runs(str), r[2] < p, ~(r[2] < p0) PROVE r = rho
  <2>1. r[2] \in l .. p - 1
    <3>1. ~(r[2] \in p0 .. l - 1)
      BY <1>4
    <3>2. r[2] \in 1 .. N
      BY <1>4
    <3> QED
      BY <1>1, <1>5, <3>1, <3>2
  <2>2. r[2] = p - 1
    <3>1. ASSUME r[2] # p - 1 PROVE FALSE
      <4>1. r[2] + 1 \in l .. p - 1 /\ r[2] < N
        BY <1>1, <2>1, <3>1
      <4>2. str[r[2] + 1] \in Blanks
        BY <1>4, <4>1
      <4> QED
        BY <4>1, <4>2
    <3> QED
      BY <3>1
  <2>3. r[1] \in 1 .. N /\ r[1] <= r[2] /\ r[2] \in 1 .. N
    BY <1>4
  <2>4. ~(r[1] < l)
    <3>1. ASSUME r[1] < l PROVE FALSE
      <4>1. str[l - 1] \in Blanks /\ l - 1 \in Nat
        BY <1>1, <1>2, <2>3, <3>1
      <4>2. r[2] < l - 1 \/ l - 1 < r[1]
        BY <4>1, RunsEndAtBlanks
      <4> QED
        BY <1>1, <2>1, <2>3, <3>1, <4>2
    <3> QED
      BY <3>1
  <2>5. ~(r[1] > l)
    <3>1. ASSUME r[1] > l PROVE FALSE
      <4>1. r[1] > 1 /\ r[1] - 1 \in l .. p - 1
        BY <1>1, <2>1, <2>3, <3>1
      <4>2. str[r[1] - 1] \in Blanks
        BY <1>4, <4>1
      <4> QED
        BY <4>1, <4>2
    <3> QED
      BY <3>1
  <2>6. r[1] = l
    BY <1>1, <2>3, <2>4, <2>5
  <2>7. r = <<r[1], r[2]>>
    BY <1>4
  <2> QED
    BY <2>2, <2>6, <2>7
<1>6. rho[2] = p - 1 /\ rho[1] = l /\ rho[2] < p /\ ~(rho[2] < p0)
  BY <1>1
<1> HIDE DEF rho
<1>7. RunsBefore(str, p) = RunsBefore(str, p0) \cup {rho}
  <2>1. ASSUME NEW r \in Runs(str), r[2] < p0 PROVE r[2] < p
    <3>1. r[2] \in 1 .. N
      BY <1>4
    <3> QED
      BY <1>1, <2>1, <3>1
  <2> QED
    BY <1>3, <1>5, <1>6, <2>1 DEF RunsBefore
<1>8. rho \notin RunsBefore(str, p0)
  BY <1>6 DEF RunsBefore
<1>9. RunsUpTo(str, l) = RunsBefore(str, p)
  <2>1. ASSUME NEW r \in Runs(str), r[2] < p PROVE r[1] <= l
    <3>1. CASE r[2] < p0
      <4>1. r[1] \in 1 .. N /\ r[2] \in 1 .. N /\ r[1] <= r[2]
        BY <1>4
      <4> QED
        BY <1>1, <3>1, <4>1
    <3>2. CASE ~(r[2] < p0)
      BY <1>1, <1>5, <1>6, <2>1, <3>2
    <3> QED
      BY <3>1, <3>2
  <2>2. ASSUME NEW r \in Runs(str), r[1] <= l PROVE r[2] < p
    <3>1. r[1] \in 1 .. N /\ r[2] \in 1 .. N /\ r[1] <= r[2]
      BY <1>4
    <3>2. ASSUME r[2] >= p PROVE FALSE
      <4>1. str[p] \in Blanks /\ p \in Nat
        BY <1>1, <3>1, <3>2 DEF N
      <4>2. r[2] < p \/ p < r[1]
        BY <4>1, RunsEndAtBlanks
      <4> QED
        BY <1>1, <2>2, <3>1, <3>2, <4>2
    <3> QED
      BY <1>1, <3>1, <3>2
  <2> QED
    BY <2>1, <2>2 DEF RunsBefore, RunsUpTo
<1>10. ASSUME NEW r \in RunsBefore(str, p0) PROVE RunsUpTo(str, r[1]) \subseteq RunsBefore(str, p0)
  <2>1. r \in Runs(str) /\ r[2] < p0
    BY DEF RunsBefore
  <2>2. r[1] \in 1 .. N /\ r[2] \in 1 .. N /\ r[1] <= r[2]
    BY <1>4, <2>1
  <2>3. ASSUME NEW s \in Runs(str), s[1] <= r[1] PROVE s[2] < p0
    <3>1. s[1] \in 1 .. N /\ s[2] \in 1 .. N /\ s[1] <= s[2]
      BY <1>4
    <3>2. ASSUME s[2] >= p0 PROVE FALSE
      <4>1. str[p0] \in Blanks /\ p0 \in Nat
        BY <1>1, <2>1, <2>2, <3>1, <3>2 DEF N
      <4>2. s[2] < p0 \/ p0 < s[1]
        BY <4>1, RunsEndAtBlanks
      <4> QED
        BY <1>1, <2>1, <2>2, <2>3, <3>1, <3>2, <4>2
    <3> QED
      BY <1>1, <3>1, <3>2
  <2> QED
    BY <2>3 DEF RunsBefore, RunsUpTo
<1> QED
  BY <1>3, <1>7, <1>8, <1>9, <1>10 DEF rho

\* A word is not empty and has no blanks; what has been taken apart so far.
IsWord(w) == Len(w) > 0 /\ \A i \in 1 .. Len(w) : w[i] \notin Blanks
AreWords(tokens) == \A k \in 1 .. Len(tokens) : IsWord(tokens[k])
OnlyBlanks(str, p) == \A j \in p .. Len(str) : str[j] \in Blanks
TokensBefore(str, tokens, p) ==
    /\ Len(tokens) = Cardinality(RunsBefore(str, p))
    /\ \A r \in RunsBefore(str, p) : tokens[Cardinality(RunsUpTo(str, r[1]))] = SubSeq(str, r[1], r[2])
TokensSoFar(str, st) ==
    /\ TokensBefore(str, st.tokens, st.pos) /\ AreWords(st.tokens)
    /\ st.pos = 1 \/ st.pos = Len(str) + 1 \/ str[st.pos] \in Blanks

\* Another token is that of the next run.
LEMMA NextRunIsAppended ==
    ASSUME NEW S, NEW str \in Seq(S), NEW tokens \in Seq(Seq(S)), NEW p0, NEW p, NEW l \in Int,
           TokensBefore(str, tokens, p0),
           p - 1 \in Int,
           <<l, p - 1>> \in Runs(str),
           RunsBefore(str, p) = RunsBefore(str, p0) \cup {<<l, p - 1>>},
           <<l, p - 1>> \notin RunsBefore(str, p0),
           RunsUpTo(str, l) = RunsBefore(str, p),
           \A r \in RunsBefore(str, p0) : RunsUpTo(str, r[1]) \subseteq RunsBefore(str, p0),
           NEW token \in Seq(S), token = SubSeq(str, l, p - 1)
    PROVE  TokensBefore(str, Append(tokens, token), p)
<1> DEFINE rho == <<l, p - 1>>
           B0 == RunsBefore(str, p0)
           B == RunsBefore(str, p)
           m == Cardinality(B0)
           more == Append(tokens, token)
<1>1. Len(str) \in Nat
  BY LenProperties
<1>2. IsFiniteSet(B0) /\ IsFiniteSet(B) /\ \A i : IsFiniteSet(RunsUpTo(str, i))
  BY <1>1, RunsAreFinite
<1>3. rho[1] = l /\ rho[2] = p - 1 /\ rho \in Runs(str) /\ rho \notin B0 /\ B = B0 \cup {rho}
  OBVIOUS
<1>4. Len(tokens) = m /\ \A r \in B0 : tokens[Cardinality(RunsUpTo(str, r[1]))] = SubSeq(str, r[1], r[2])
  BY DEF TokensBefore
<1>5. \A r \in B0 : r \in RunsUpTo(str, r[1])
  <2>1. \A r \in B0 : r \in Runs(str)
    BY DEF RunsBefore
  <2>2. \A r \in Runs(str) : r[1] <= r[1]
    BY <1>1, RunIs
  <2> QED
    BY <2>1, <2>2 DEF RunsUpTo
<1>6. token = SubSeq(str, rho[1], rho[2]) /\ RunsUpTo(str, rho[1]) = B
  BY <1>3
<1>7. more \in Seq(Seq(S)) /\ Len(more) = Len(tokens) + 1 /\ more[Len(tokens) + 1] = token
      /\ \A i \in 1 .. Len(tokens) : more[i] = tokens[i]
  BY AppendProperties
<1> HIDE DEF rho, B0, B, more
<1>8. m \in Nat /\ Cardinality(B) = m + 1
  <2>1. m \in Nat
    BY <1>2, FS_CardinalityType
  <2>2. Cardinality(B0 \cup {rho}) = m + 1
    BY <1>2, <1>3, FS_AddElement
  <2> QED
    BY <1>3, <2>1, <2>2
<1> HIDE DEF m
<1>9. ASSUME NEW r \in B0 PROVE Cardinality(RunsUpTo(str, r[1])) \in 1 .. m
  <2> DEFINE U == RunsUpTo(str, r[1])
  <2>1. U \subseteq B0 /\ r \in U /\ IsFiniteSet(U)
    BY <1>2, <1>5 DEF B0
  <2> HIDE DEF U
  <2>2. Cardinality(U) <= m /\ Cardinality(U) \in Nat
    BY <1>2, <2>1, FS_Subset, FS_CardinalityType DEF m
  <2>3. Cardinality(U) # 0
    BY <2>1, FS_EmptySet
  <2> QED
    BY <1>8, <2>2, <2>3 DEF U
<1>10. \A r \in B : more[Cardinality(RunsUpTo(str, r[1]))] = SubSeq(str, r[1], r[2])
  <2> TAKE r \in B
  <2>1. CASE r \in B0
    <3>1. Cardinality(RunsUpTo(str, r[1])) \in 1 .. Len(tokens)
      BY <1>4, <1>9, <2>1
    <3> QED
      BY <1>4, <1>7, <2>1, <3>1
  <2>2. CASE r = rho
    BY <1>4, <1>6, <1>7, <1>8, <2>2
  <2> QED
    BY <1>3, <2>1, <2>2
<1> QED
  BY <1>4, <1>7, <1>8, <1>10 DEF TokensBefore, B, more

\* The loop takes one token for each run, and goes on until only blanks are left.
LEMMA StepOfTokens ==
    ASSUME NEW S, NEW str \in Seq(S), NEW st \in TokenStates(S, str), TokensSoFar(str, st)
    PROVE  /\ TokensSoFar(str, NextToken(str, Blanks, st))
           /\ OnlyBlanks(str, st.pos) => NextToken(str, Blanks, st) = st
           /\ ~OnlyBlanks(str, st.pos) => NextToken(str, Blanks, st).pos > st.pos
<1>1. PICK l, p \in Nat :
              /\ TokenAt(str, Blanks, st, l, p)
              /\ NextToken(str, Blanks, st) =
                     IF l > Len(str) THEN st ELSE [tokens |-> Append(st.tokens, SubSeq(str, l, p - 1)), pos |-> p]
  BY TokenIs
<1> DEFINE N == Len(str)
           p0 == st.pos
           token == SubSeq(str, l, p - 1)
<1>2. N \in Nat /\ \A j \in 1 .. N : str[j] \in S
  BY LenProperties, ElementOfSeq
<1>3. st.tokens \in Seq(Seq(S)) /\ p0 \in 1 .. N + 1
  BY DEF TokenStates
<1>4. TokensBefore(str, st.tokens, p0) /\ AreWords(st.tokens) /\ (p0 = 1 \/ p0 = N + 1 \/ str[p0] \in Blanks)
  BY DEF TokensSoFar
<1>5. /\ l \in p0 .. N + 1 /\ p \in l .. N + 1
      /\ \A j \in p0 .. l - 1 : str[j] \in Blanks
      /\ l <= N => str[l] \notin Blanks /\ l < p
      /\ \A j \in l .. p - 1 : str[j] \notin Blanks
      /\ p <= N => str[p] \in Blanks
  BY <1>1 DEF TokenAt
<1>6. CASE l > N
  <2>1. NextToken(str, Blanks, st) = st
    BY <1>1, <1>6
  <2>2. OnlyBlanks(str, p0)
    <3>1. \A j \in p0 .. N : j \in p0 .. l - 1
      BY <1>2, <1>3, <1>6
    <3> QED
      BY <1>5, <3>1 DEF OnlyBlanks
  <2> QED
    BY <2>1, <2>2
<1>7. CASE l <= N
  <2> DEFINE more == Append(st.tokens, token)
  <2>1. NextToken(str, Blanks, st) = [tokens |-> more, pos |-> p]
    BY <1>1, <1>2, <1>7
  <2>2. /\ <<l, p - 1>> \in Runs(str)
        /\ RunsBefore(str, p) = RunsBefore(str, p0) \cup {<<l, p - 1>>}
        /\ <<l, p - 1>> \notin RunsBefore(str, p0)
        /\ RunsUpTo(str, l) = RunsBefore(str, p)
        /\ \A r \in RunsBefore(str, p0) : RunsUpTo(str, r[1]) \subseteq RunsBefore(str, p0)
    BY <1>2, <1>3, <1>4, <1>5, <1>7, TokenIsRun
  <2>3. \A j \in l .. p - 1 : j \in 1 .. N
    BY <1>2, <1>3, <1>5
  <2>4. /\ token \in Seq(S) /\ Len(token) = p - l
        /\ \A i \in 1 .. p - l : token[i] = str[(l + i) - 1]
    BY <1>2, <1>5, <2>3
  <2>5. IsWord(token)
    <3>1. Len(token) > 0
      BY <1>5, <1>7, <2>4
    <3>2. \A i \in 1 .. p - l : (l + i) - 1 \in l .. p - 1
      OBVIOUS
    <3> HIDE DEF token
    <3> QED
      BY <1>5, <2>4, <3>1, <3>2 DEF IsWord
  <2>6. l \in Int /\ p - 1 \in Int
    OBVIOUS
  <2>7. TokensBefore(str, more, p)
    <3> HIDE DEF p0
    <3>1. token = SubSeq(str, l, p - 1)
      OBVIOUS
    <3> HIDE DEF token
    <3> QED
      BY <1>3, <1>4, <2>2, <2>4, <2>6, <3>1, NextRunIsAppended
  <2>8. AreWords(more)
    <3> HIDE DEF token
    <3>1. /\ Len(more) = Len(st.tokens) + 1 /\ more[Len(st.tokens) + 1] = token
          /\ \A i \in 1 .. Len(st.tokens) : more[i] = st.tokens[i]
      BY <1>3, <2>4, AppendProperties
    <3>2. Len(st.tokens) \in Nat
      BY <1>3, LenProperties
    <3>3. \A k \in 1 .. Len(st.tokens) + 1 : k \in 1 .. Len(st.tokens) \/ k = Len(st.tokens) + 1
      BY <3>2
    <3> HIDE DEF more
    <3> QED
      BY <1>4, <2>5, <3>1, <3>3 DEF AreWords
  <2> HIDE DEF more
  <2>9. p = 1 \/ p = N + 1 \/ str[p] \in Blanks
    BY <1>2, <1>5
  <2>10. TokensSoFar(str, NextToken(str, Blanks, st)) /\ NextToken(str, Blanks, st).pos = p
    BY <2>1, <2>7, <2>8, <2>9 DEF TokensSoFar
  <2>11. ~OnlyBlanks(str, p0)
    <3>1. l \in p0 .. N /\ str[l] \notin Blanks
      BY <1>2, <1>3, <1>5, <1>7
    <3> QED
      BY <3>1 DEF OnlyBlanks
  <2>12. p > p0
    BY <1>3, <1>5, <1>7
  <2> QED
    BY <2>10, <2>11, <2>12
<1> QED
  BY <1>2, <1>6, <1>7

\* The tokens are the runs, in order.
LEMMA TokensAreRuns ==
    ASSUME NEW S, NEW str \in Seq(S)
    PROVE  LET tokens == Tokenize(str, Blanks)
           IN  /\ tokens \in Seq(Seq(S)) /\ AreWords(tokens)
               /\ Len(tokens) = Cardinality(Runs(str))
               /\ \A r \in Runs(str) : tokens[Cardinality(RunsUpTo(str, r[1]))] = SubSeq(str, r[1], r[2])
<1> DEFINE N == Len(str)
<1>1. N \in Nat
  BY LenProperties
<1>2. PICK g : TokensIn(g, S, str, Blanks)
  BY StatesOfTokens
<1>3. /\ g[0] = [tokens |-> <<>>, pos |-> 1] /\ Tokenize(str, Blanks) = g[N].tokens
      /\ \A n \in 1 .. N : g[n] = NextToken(str, Blanks, g[n - 1])
      /\ \A n \in 0 .. N : g[n] \in TokenStates(S, str)
  BY <1>2 DEF TokensIn
<1>4. \A r \in Runs(str) : r[2] \in 1 .. N /\ str[r[2]] \notin Blanks
  <2> TAKE r \in Runs(str)
  <2>1. r[1] \in 1 .. N /\ r[2] \in 1 .. N /\ r[1] <= r[2] /\ \A i \in r[1] .. r[2] : str[i] \notin Blanks
    BY <1>1, RunIs
  <2>2. r[2] \in r[1] .. r[2]
    BY <2>1
  <2> QED
    BY <2>1, <2>2
<1> HIDE DEF N
<1> DEFINE Good(n) == TokensSoFar(str, g[n]) /\ (g[n].pos > n \/ OnlyBlanks(str, g[n].pos))
           T == {n \in Nat : n <= N => Good(n)}
<1>5. \A n \in Nat : n \in T <=> (n <= N => Good(n))
  OBVIOUS
<1> HIDE DEF T
<1>6. 0 \in T
  <2>1. g[0].tokens = <<>> /\ g[0].pos = 1
    BY <1>3
  <2>2. RunsBefore(str, 1) = {}
    BY <1>1, <1>4 DEF RunsBefore
  <2>3. Len(<<>>) = 0 /\ Cardinality({}) = 0
    BY FS_EmptySet
  <2>4. TokensBefore(str, <<>>, 1) /\ AreWords(<<>>)
    <3>1. TokensBefore(str, <<>>, 1)
      BY <2>2, <2>3 DEF TokensBefore
    <3>2. 1 .. Len(<<>>) = {}
      BY <2>3
    <3>3. AreWords(<<>>)
      BY <3>2, Zenon DEF AreWords
    <3> QED
      BY <3>1, <3>3
  <2>5. Good(0)
    BY <2>1, <2>4 DEF TokensSoFar
  <2> QED
    BY <1>5, <2>5
<1>7. ASSUME NEW n \in Nat, n \in T PROVE n + 1 \in T
  <2>1. ASSUME n + 1 <= N PROVE Good(n + 1)
    <3>1. n + 1 \in 1 .. N /\ (n + 1) - 1 = n /\ n <= N /\ n \in 0 .. N /\ n + 1 \in 0 .. N
      BY <1>1, <2>1
    <3>2. g[n + 1] = NextToken(str, Blanks, g[n]) /\ g[n] \in TokenStates(S, str)
      BY <1>3, <3>1
    <3>3. Good(n)
      BY <1>5, <1>7, <3>1
    <3>4. /\ TokensSoFar(str, g[n + 1]) /\ (OnlyBlanks(str, g[n].pos) => g[n + 1] = g[n])
          /\ (~OnlyBlanks(str, g[n].pos) => g[n + 1].pos > g[n].pos)
      BY <3>2, <3>3, StepOfTokens
    <3>5. g[n].pos \in Nat /\ g[n + 1].pos \in Nat
      <4>1. g[n + 1] \in TokenStates(S, str)
        BY <1>3, <3>1
      <4> QED
        BY <3>2, <4>1 DEF TokenStates
    <3> QED
      BY <3>3, <3>4, <3>5
  <2> QED
    BY <1>5, <2>1
<1>8. Good(N)
  <2>1. N \in T
    BY <1>1, <1>6, <1>7, Induction
  <2> QED
    BY <1>1, <1>5, <2>1
<1> DEFINE tokens == g[N].tokens
           p == g[N].pos
<1>9. tokens \in Seq(Seq(S)) /\ p \in 1 .. Len(str) + 1
  <2>1. g[N] \in TokenStates(S, str)
    BY <1>1, <1>3
  <2> QED
    BY <2>1 DEF TokenStates
<1>10. TokensBefore(str, tokens, p) /\ AreWords(tokens) /\ (p > N \/ OnlyBlanks(str, p))
  BY <1>8 DEF TokensSoFar
<1> HIDE DEF tokens, p
<1>11. RunsBefore(str, p) = Runs(str)
  <2>1. ASSUME NEW r \in Runs(str) PROVE r[2] < p
    <3>1. r[2] \in 1 .. N /\ str[r[2]] \notin Blanks
      BY <1>4
    <3>2. CASE p > N
      BY <1>1, <1>9, <3>1, <3>2
    <3>3. CASE OnlyBlanks(str, p)
      <4>1. r[2] \notin p .. N
        BY <3>1, <3>3 DEF OnlyBlanks, N
      <4> QED
        BY <1>1, <1>9, <3>1, <4>1
    <3> QED
      BY <1>10, <3>2, <3>3
  <2> QED
    BY <2>1 DEF RunsBefore
<1> QED
  BY <1>3, <1>9, <1>10, <1>11 DEF TokensBefore, tokens

\* The parts of joined items: the items, with a blank before all but the first.
Blank == " "
HasSpace(S) == Blank \in S
Joined(items) == [i \in 1 .. Len(items) |-> IF i = 1 THEN items[1] ELSE <<Blank>> \o items[i]]
Before(n) == IF n = 0 THEN 0 ELSE 1

\* Each joined part is an item behind a blank, the first one without it.
LEMMA JoinedParts ==
    ASSUME NEW S, HasSpace(S), NEW items \in Seq(Seq(S))
    PROVE  /\ Join(items, <<Blank>>, <<>>) = FlattenSeq(Joined(items))
           /\ Joined(items) \in Seq(Seq(S)) /\ Len(Joined(items)) = Len(items)
           /\ \A n \in Nat : n < Len(items) =>
                 /\ Len(Joined(items)[n + 1]) = Before(n) + Len(items[n + 1])
                 /\ n > 0 => Joined(items)[n + 1][1] = Blank
                 /\ \A i \in 1 .. Len(items[n + 1]) : Joined(items)[n + 1][Before(n) + i] = items[n + 1][i]
<1> DEFINE m == Len(items)
           parts == Joined(items)
           b == <<Blank>>
<1>1. m \in Nat /\ \A n \in 1 .. m : items[n] \in Seq(S)
  BY LenProperties, ElementOfSeq
<1>2. Join(items, <<Blank>>, <<>>) = FlattenSeq(parts)
  BY DEF Join, Joined, Blank
<1>3. b \in Seq(S) /\ Len(b) = 1 /\ b[1] = Blank
  BY DEF HasSpace
<1>4. parts = [i \in 1 .. m |-> IF i = 1 THEN items[1] ELSE b \o items[i]]
  BY DEF Joined
<1> HIDE DEF parts, b, m
<1>5. \A n \in 1 .. m : parts[n] = IF n = 1 THEN items[1] ELSE b \o items[n]
  BY <1>4
<1>6. \A n \in 1 .. m : parts[n] \in Seq(S)
  <2> TAKE n \in 1 .. m
  <2>1. b \o items[n] \in Seq(S)
    BY <1>1, <1>3, ConcatProperties
  <2> QED
    BY <1>1, <1>5, <2>1
<1>7. parts \in Seq(Seq(S)) /\ Len(parts) = m
  <2>1. parts \in [1 .. m -> Seq(S)]
    BY <1>4, <1>5, <1>6
  <2> QED
    BY <1>1, <2>1, SeqOfFunction
<1>8. ASSUME NEW n \in Nat, n < m
      PROVE  /\ Len(parts[n + 1]) = Before(n) + Len(items[n + 1])
             /\ n > 0 => parts[n + 1][1] = Blank
             /\ \A i \in 1 .. Len(items[n + 1]) : parts[n + 1][Before(n) + i] = items[n + 1][i]
  <2> DEFINE t == items[n + 1]
             u == parts[n + 1]
  <2>1. n + 1 \in 1 .. m
    BY <1>1, <1>8
  <2>2. t \in Seq(S)
    BY <1>1, <2>1
  <2>3. Len(t) \in Nat
    BY <2>2, LenProperties
  <2>4. CASE n = 0
    <3>1. u = t /\ Before(n) = 0
      BY <1>5, <2>1, <2>4 DEF Before
    <3> HIDE DEF t, u
    <3>2. \A i \in 1 .. Len(t) : 0 + i = i
      OBVIOUS
    <3>3. Len(u) = 0 + Len(t)
      BY <2>3, <3>1
    <3>4. \A i \in 1 .. Len(t) : u[0 + i] = t[i]
      BY <3>1, <3>2
    <3> QED
      BY <2>4, <3>1, <3>3, <3>4 DEF t, u
  <2>5. CASE n > 0
    <3>1. u = b \o t /\ Before(n) = 1
      <4>1. n + 1 # 1 /\ n # 0
        BY <2>5
      <4> QED
        BY <1>5, <2>1, <4>1 DEF Before
    <3> HIDE DEF t, u
    <3>2. Len(b \o t) = Len(b) + Len(t)
          /\ \A i \in 1 .. Len(b) + Len(t) : (b \o t)[i] = IF i <= Len(b) THEN b[i] ELSE t[i - Len(b)]
      BY <1>3, <2>2, ConcatProperties
    <3>3. \A i \in 1 .. 1 + Len(t) : u[i] = IF i <= 1 THEN b[i] ELSE t[i - 1]
      BY <1>3, <3>1, <3>2
    <3>4. Len(u) = 1 + Len(t)
      BY <1>3, <3>1, <3>2
    <3>5. \A i \in 1 .. Len(t) : u[1 + i] = t[i]
      <4>1. \A i \in 1 .. Len(t) : 1 + i \in 1 .. 1 + Len(t) /\ ~(1 + i <= 1) /\ (1 + i) - 1 = i
        BY <2>3
      <4> QED
        BY <3>3, <4>1
    <3>6. u[1] = Blank
      <4>1. 1 \in 1 .. 1 + Len(t)
        BY <2>3
      <4> QED
        BY <1>3, <3>3, <4>1
    <3> QED
      BY <3>1, <3>4, <3>5, <3>6 DEF t, u
  <2> QED
    BY <2>4, <2>5
<1> QED
  BY <1>2, <1>7, <1>8 DEF parts, m

\* Words that have been joined are found again, one after the other.
LEMMA NextWordIsFound ==
    ASSUME NEW S, HasSpace(S), NEW items \in Seq(Seq(S)), AreWords(items), NEW J \in Seq(S),
           NEW E, PartsIn(E, J, Joined(items), Len(items)),
           NEW n \in Nat, n < Len(items), NEW st, st.pos = E[n] + 1
    PROVE  NextToken(J, Blanks, st) = [tokens |-> Append(st.tokens, items[n + 1]), pos |-> E[n + 1] + 1]
<1> DEFINE m == Len(items)
           L == Len(J)
           parts == Joined(items)
           d == Before(n)
           t == items[n + 1]
           k == Len(t)
           e == E[n]
           f == E[n + 1]
           l == e + (d + 1)
           p == f + 1
<1>1. m \in Nat /\ L \in Nat /\ n + 1 \in 1 .. m /\ n \in 0 .. m /\ n + 1 \in 0 .. m /\ (n + 1) - 1 = n
  BY LenProperties
<1>2. t \in Seq(S) /\ k > 0 /\ \A i \in 1 .. k : t[i] \notin Blanks
  BY <1>1, ElementOfSeq DEF AreWords, IsWord
<1>3. k \in Nat /\ d \in 0 .. 1 /\ (n > 0 => d = 1) /\ (n = 0 => d = 0)
  BY <1>2, LenProperties DEF Before
<1>4. /\ Len(parts) = m
      /\ Len(parts[n + 1]) = d + k
      /\ n > 0 => parts[n + 1][1] = Blank
      /\ \A i \in 1 .. k : parts[n + 1][d + i] = t[i]
  BY JoinedParts
<1>5. /\ E[0] = 0 /\ L = E[m]
      /\ \A c \in 1 .. m : E[c] = E[c - 1] + Len(parts[c])
      /\ \A c \in 0 .. m : E[c] \in Nat /\ E[c] <= E[m]
      /\ \A c \in 1 .. m : \A i \in 1 .. Len(parts[c]) : J[E[c - 1] + i] = parts[c][i]
  BY DEF PartsIn
<1>6. n + 1 < m => parts[n + 2][1] = Blank /\ Len(parts[n + 2]) >= 1
  <2> SUFFICES ASSUME n + 1 < m PROVE parts[n + 2][1] = Blank /\ Len(parts[n + 2]) >= 1
    OBVIOUS
  <2>1. n + 1 \in Nat /\ (n + 1) + 1 = n + 2 /\ n + 1 > 0 /\ n + 2 \in 1 .. m
    BY <1>1
  <2> DEFINE q == n + 1
  <2>2. q \in Nat /\ q < m /\ q + 1 = n + 2 /\ q > 0
    BY <2>1
  <2> HIDE DEF q
  <2>3. Len(parts[q + 1]) = Before(q) + Len(items[q + 1]) /\ parts[q + 1][1] = Blank
    BY <2>2, JoinedParts
  <2>4. Before(q) = 1
    BY <2>2 DEF Before
  <2>5. Len(items[n + 2]) \in Nat
    <3>1. items[n + 2] \in Seq(S)
      BY <2>1, ElementOfSeq
    <3> QED
      BY <3>1, LenProperties
  <2> HIDE DEF parts
  <2> QED
    BY <2>2, <2>3, <2>4, <2>5
<1> HIDE DEF m, L, parts, d, t, k, e, f
<1>7. e \in Nat /\ f \in Nat /\ f = e + (d + k) /\ f <= L
  BY <1>1, <1>4, <1>5 DEF e, f
<1>17. \A i \in 1 .. d + k : J[e + i] = parts[n + 1][i]
  BY <1>1, <1>4, <1>5 DEF e
<1>8. \A i \in 1 .. k : J[e + (d + i)] = t[i]
  <2> TAKE i \in 1 .. k
  <2>1. d + i \in 1 .. d + k
    BY <1>3
  <2> QED
    BY <1>4, <1>17, <2>1
<1>9. l \in e + 1 .. L /\ p \in l + 1 .. L + 1 /\ p - 1 = e + (d + k) /\ l \in 1 .. L
  BY <1>1, <1>2, <1>3, <1>7
<1>10. \A j \in l .. p - 1 : J[j] \notin Blanks
  <2> TAKE j \in l .. p - 1
  <2>1. j - (e + d) \in 1 .. k /\ j = e + (d + (j - (e + d)))
    BY <1>3, <1>7, <1>9
  <2> QED
    BY <1>2, <1>8, <2>1
<1>11. \A j \in e + 1 .. l - 1 : J[j] \in Blanks
  <2> TAKE j \in e + 1 .. l - 1
  <2>1. n > 0 /\ j = e + 1 /\ d = 1
    BY <1>3, <1>7
  <2>2. 1 \in 1 .. d + k
    BY <1>3, <2>1
  <2>3. J[e + 1] = parts[n + 1][1]
    BY <1>17, <2>2
  <2> QED
    BY <1>4, <2>1, <2>3 DEF Blanks, Blank
<1>12. p <= L => J[p] \in Blanks
  <2> SUFFICES ASSUME p <= L PROVE J[p] \in Blanks
    OBVIOUS
  <2>0. p <= L /\ p = f + 1
    OBVIOUS
  <2>1. n + 1 < m
    <3>1. n + 1 # m
      BY <1>5, <1>7, <2>0 DEF f
    <3> QED
      BY <1>1, <3>1
  <2>2. n + 2 \in 1 .. m /\ (n + 2) - 1 = n + 1
    BY <1>1, <2>1
  <2>3. Len(parts[n + 2]) \in Nat
    <3>1. parts \in Seq(Seq(S))
      BY JoinedParts DEF parts
    <3>2. parts[n + 2] \in Seq(S)
      BY <1>4, <2>2, <3>1, ElementOfSeq
    <3> QED
      BY <3>2, LenProperties
  <2>4. 1 \in 1 .. Len(parts[n + 2])
    BY <1>6, <2>1, <2>3
  <2>5. J[f + 1] = parts[n + 2][1]
    BY <1>5, <2>2, <2>4 DEF f
  <2> QED
    BY <1>6, <2>1, <2>5 DEF Blanks, Blank
<1> HIDE DEF l, p
<1>13. Find(J, ToSet(J) \ Blanks, st.pos) = l
  <2>1. st.pos = e + 1 /\ st.pos \in 1 .. L + 1
    BY <1>1, <1>7, <1>9 DEF e
  <2>2. J[l] \in ToSet(J) \ Blanks
    <3>1. l \in l .. p - 1 /\ l \in DOMAIN J
      BY <1>1, <1>9, LenProperties DEF L
    <3> QED
      BY <1>10, <3>1 DEF ToSet
  <2>3. l \in st.pos .. L + 1
    BY <1>1, <1>7, <1>9, <2>1
  <2>4. FoundAt(J, ToSet(J) \ Blanks, st.pos, l)
    BY <1>11, <2>1, <2>2, <2>3 DEF FoundAt, L
  <2> QED
    BY <2>1, <2>4, FoundOnce DEF L
<1>14. Find(J, Blanks, l) = p
  <2>1. l \in 1 .. L + 1 /\ p \in l .. L + 1
    BY <1>1, <1>9
  <2>2. FoundAt(J, Blanks, l, p)
    BY <1>10, <1>12, <2>1 DEF FoundAt, L
  <2> QED
    BY <2>1, <2>2, FoundOnce DEF L
<1>15. SubSeq(J, l, p - 1) = t
  <2>1. \A j \in l .. p - 1 : j \in 1 .. Len(J)
    BY <1>1, <1>9 DEF L
  <2>2. l \in Int /\ p - 1 \in Int /\ l <= p - 1 /\ ((p - 1) - l) + 1 = k
    BY <1>3, <1>7, <1>9 DEF l
  <2>3. /\ SubSeq(J, l, p - 1) \in Seq(S) /\ Len(SubSeq(J, l, p - 1)) = k
        /\ \A i \in 1 .. k : SubSeq(J, l, p - 1)[i] = J[(l + i) - 1]
    <3>1. \A j \in l .. p - 1 : J[j] \in S
      BY <2>1, ElementOfSeq
    <3>2. /\ SubSeq(J, l, p - 1) \in Seq(S)
          /\ Len(SubSeq(J, l, p - 1)) = IF l <= p - 1 THEN (p - 1) - l + 1 ELSE 0
      BY <2>2, <3>1, SubSeqProperties
    <3>3. \A i \in 1 .. ((p - 1) - l) + 1 : SubSeq(J, l, p - 1)[i] = J[(l + i) - 1]
      BY <2>2
    <3> QED
      BY <2>2, <3>2, <3>3
  <2>4. \A i \in 1 .. k : (l + i) - 1 = e + (d + i)
    BY <1>3, <1>7 DEF l
  <2>5. \A i \in 1 .. k : SubSeq(J, l, p - 1)[i] = t[i]
    BY <1>8, <2>3, <2>4
  <2> QED
    BY <1>2, <2>3, <2>5, SeqEqual DEF k
<1>16. ~(l > L)
  BY <1>1, <1>9
<1> QED
  BY <1>13, <1>14, <1>15, <1>16 DEF NextToken, Token, L, p, t, f

\* Words that are joined by blanks are taken apart into the same words.
LEMMA JoinedIsFound ==
    ASSUME NEW S, HasSpace(S), NEW items \in Seq(Seq(S)), AreWords(items)
    PROVE  Tokenize(Join(items, <<Blank>>, <<>>), Blanks) = items
<1> DEFINE m == Len(items)
           J == FlattenSeq(Joined(items))
           L == Len(J)
<1>1. Join(items, <<Blank>>, <<>>) = J /\ Joined(items) \in Seq(Seq(S)) /\ Len(Joined(items)) = m
  BY JoinedParts
<1>2. J \in Seq(S) /\ \E E : PartsIn(E, J, Joined(items), m)
  BY <1>1, PartsOfFlat
<1> HIDE DEF J
<1>3. PICK E : PartsIn(E, J, Joined(items), m)
  BY <1>2
<1>4. PICK g : TokensIn(g, S, J, Blanks)
  BY <1>2, StatesOfTokens
<1>5. /\ g[0] = [tokens |-> <<>>, pos |-> 1] /\ Tokenize(J, Blanks) = g[L].tokens
      /\ \A n \in 1 .. L : g[n] = NextToken(J, Blanks, g[n - 1])
      /\ \A n \in 0 .. L : g[n] \in TokenStates(S, J)
  BY <1>4 DEF TokensIn
<1>6. m \in Nat /\ L \in Nat
  BY <1>2, LenProperties
<1>7. E[0] = 0 /\ L = E[m] /\ \A n \in 0 .. m : E[n] \in Nat
  BY <1>3 DEF PartsIn
<1> HIDE DEF m, L
<1>8. ASSUME NEW n \in Nat, n < m PROVE E[n + 1] >= E[n] + 1
  <2>1. n + 1 \in 1 .. m /\ (n + 1) - 1 = n /\ n \in 0 .. m /\ n + 1 \in 0 .. m
    BY <1>6, <1>8
  <2>2. E[n + 1] = E[n] + Len(Joined(items)[n + 1])
    BY <1>3, <2>1 DEF PartsIn
  <2>3. Len(Joined(items)[n + 1]) = Before(n) + Len(items[n + 1])
    BY <1>8, JoinedParts DEF m
  <2>4. Len(items[n + 1]) > 0 /\ Len(items[n + 1]) \in Nat
    <3>1. items[n + 1] \in Seq(S)
      BY <2>1, ElementOfSeq DEF m
    <3> QED
      BY <2>1, <3>1, LenProperties DEF AreWords, IsWord, m
  <2>5. Before(n) \in Nat
    BY DEF Before
  <2> DEFINE a == E[n]
             k == Len(items[n + 1])
             d == Before(n)
  <2>6. a \in Nat /\ k \in Nat /\ k > 0 /\ d \in Nat /\ E[n + 1] = a + (d + k)
    BY <1>7, <2>1, <2>2, <2>3, <2>4, <2>5
  <2> HIDE DEF a, k, d
  <2>7. E[n + 1] >= a + 1
    BY <2>6
  <2> QED
    BY <2>7 DEF a
<1> DEFINE Good(n) ==
               /\ n <= m => /\ g[n].pos = E[n] + 1 /\ Len(g[n].tokens) = n /\ E[n] >= n
                            /\ \A k \in 1 .. n : g[n].tokens[k] = items[k]
               /\ n > m => g[n] = g[m] /\ g[n].pos = L + 1
           T == {n \in Nat : n <= L => Good(n)}
<1>9. \A n \in Nat : n \in T <=> (n <= L => Good(n))
  OBVIOUS
<1> HIDE DEF T
<1>10. 0 \in T
  <2>1. g[0].pos = E[0] + 1 /\ Len(g[0].tokens) = 0 /\ E[0] >= 0
    BY <1>5, <1>7
  <2>2. ~(0 > m) /\ \A k \in 1 .. 0 : FALSE
    BY <1>6
  <2> QED
    BY <1>9, <2>1, <2>2
<1>11. ASSUME NEW n \in Nat, n \in T PROVE n + 1 \in T
  <2>1. ASSUME n + 1 <= L PROVE Good(n + 1)
    <3>1. n + 1 \in 1 .. L /\ (n + 1) - 1 = n /\ n <= L /\ n \in 0 .. L
      BY <1>6, <2>1
    <3>2. g[n + 1] = NextToken(J, Blanks, g[n]) /\ g[n] \in TokenStates(S, J)
      BY <1>5, <3>1
    <3>3. Good(n)
      BY <1>9, <1>11, <3>1
    <3>4. g[n].tokens \in Seq(Seq(S))
      BY <3>2 DEF TokenStates
    <3>5. CASE n < m
      <4>1. n <= m /\ n + 1 <= m /\ ~(n + 1 > m) /\ n + 1 \in 1 .. m
        BY <1>6, <3>5
      <4>2. g[n].pos = E[n] + 1 /\ Len(g[n].tokens) = n /\ E[n] >= n /\ \A k \in 1 .. n : g[n].tokens[k] = items[k]
        BY <3>3, <4>1
      <4>3. g[n + 1] = [tokens |-> Append(g[n].tokens, items[n + 1]), pos |-> E[n + 1] + 1]
        <5> DEFINE st == g[n]
        <5>1. st.pos = E[n] + 1
          BY <4>2
        <5>2. PartsIn(E, J, Joined(items), Len(items)) /\ n < Len(items)
          BY <1>3, <3>5 DEF m
        <5> HIDE DEF st
        <5>3. NextToken(J, Blanks, st) = [tokens |-> Append(st.tokens, items[n + 1]), pos |-> E[n + 1] + 1]
          BY <1>2, <5>1, <5>2, NextWordIsFound
        <5> QED
          BY <3>2, <5>3 DEF st
      <4>4. items[n + 1] \in Seq(S)
        BY <4>1, ElementOfSeq DEF m
      <4> DEFINE more == Append(g[n].tokens, items[n + 1])
      <4>5. Len(more) = n + 1 /\ more[n + 1] = items[n + 1] /\ \A k \in 1 .. n : more[k] = g[n].tokens[k]
        BY <3>4, <4>2, <4>4, AppendProperties
      <4> HIDE DEF more
      <4>6. g[n + 1].tokens = more /\ g[n + 1].pos = E[n + 1] + 1
        BY <4>3 DEF more
      <4>7. \A k \in 1 .. n + 1 : k \in 1 .. n \/ k = n + 1
        OBVIOUS
      <4>8. \A k \in 1 .. n + 1 : more[k] = items[k]
        BY <4>2, <4>5, <4>7
      <4>9. E[n + 1] >= n + 1
        <5>1. E[n + 1] >= E[n] + 1 /\ E[n] \in Nat /\ E[n + 1] \in Nat
          BY <1>6, <1>7, <1>8, <3>5
        <5> QED
          BY <4>2, <5>1
      <4> QED
        BY <4>1, <4>5, <4>6, <4>8, <4>9
    <3>6. CASE ~(n < m)
      <4>1. g[n] = g[m] /\ g[n].pos = L + 1 /\ ~(n + 1 <= m) /\ n >= m
        <5>1. CASE n = m
          <6>1. n <= m /\ ~(n + 1 <= m) /\ n >= m
            BY <1>6, <5>1
          <6> QED
            BY <1>7, <3>3, <5>1, <6>1
        <5>2. CASE n > m
          <6>1. ~(n + 1 <= m) /\ n >= m
            BY <1>6, <5>2
          <6> QED
            BY <3>3, <5>2, <6>1
        <5> QED
          BY <1>6, <3>6, <5>1, <5>2
      <4>2. g[n + 1] = g[n]
        <5> DEFINE st == g[n]
        <5>0. st.pos = L + 1 /\ st \in TokenStates(S, J) /\ g[n + 1] = NextToken(J, Blanks, st)
          BY <3>2, <4>1
        <5> HIDE DEF st
        <5>1. PICK l, p \in Nat :
              /\ TokenAt(J, Blanks, st, l, p)
              /\ NextToken(J, Blanks, st) =
                     IF l > Len(J) THEN st ELSE [tokens |-> Append(st.tokens, SubSeq(J, l, p - 1)), pos |-> p]
          BY <1>2, <5>0, TokenIs
        <5>2. l \in L + 1 .. L + 1
          BY <5>0, <5>1 DEF TokenAt, L
        <5>3. l > Len(J)
          BY <1>6, <5>2 DEF L
        <5> QED
          BY <5>0, <5>1, <5>3 DEF st
      <4> QED
        BY <4>1, <4>2
    <3> QED
      BY <3>5, <3>6
  <2> QED
    BY <1>9, <2>1
<1>12. \A n \in Nat : n \in T
  BY <1>10, <1>11, Induction
<1>13. m <= L
  <2> DEFINE U == {n \in Nat : n <= m => E[n] >= n}
  <2>1. \A n \in Nat : n \in U <=> (n <= m => E[n] >= n)
    OBVIOUS
  <2> HIDE DEF U
  <2>2. 0 \in U
    BY <1>7, <2>1
  <2>3. ASSUME NEW n \in Nat, n \in U PROVE n + 1 \in U
    <3>1. ASSUME n + 1 <= m PROVE E[n + 1] >= n + 1
      <4>1. n < m /\ n <= m /\ n \in 0 .. m /\ n + 1 \in 0 .. m
        BY <1>6, <3>1
      <4>2. E[n + 1] >= E[n] + 1 /\ E[n] >= n /\ E[n] \in Nat /\ E[n + 1] \in Nat
        BY <1>7, <1>8, <2>1, <2>3, <4>1
      <4> QED
        BY <4>2
    <3> QED
      BY <2>1, <3>1
  <2>4. m \in U
    BY <1>6, <2>2, <2>3, Induction
  <2> QED
    BY <1>6, <1>7, <2>1, <2>4
<1>14. g[L] = g[m]
  <2>1. Good(L)
    <3>1. L <= L
      BY <1>6
    <3> QED
      BY <1>6, <1>9, <1>12, <3>1
  <2> QED
    BY <1>6, <1>13, <2>1
<1>15. Len(g[m].tokens) = m /\ \A k \in 1 .. m : g[m].tokens[k] = items[k]
  <2>1. Good(m)
    BY <1>6, <1>9, <1>12, <1>13
  <2>2. m <= m
    BY <1>6
  <2> QED
    BY <2>1, <2>2
<1>16. g[m].tokens \in Seq(Seq(S))
  <2>1. g[m] \in TokenStates(S, J)
    <3>1. m \in 0 .. L
      BY <1>6, <1>13
    <3> QED
      BY <1>5, <3>1
  <2> QED
    BY <2>1 DEF TokenStates
<1>17. g[m].tokens = items
  BY <1>15, <1>16, SeqEqual DEF m
<1> QED
  BY <1>1, <1>5, <1>14, <1>17

\* The tokens of every text are what is between blanks, in order, each as long as
\* it can be, and they are found again when they are joined by blanks.
THEOREM TokensAlwaysBetween == Spec => []TokensAreBetween
<1> DEFINE OK == text \in Seq(Characters)
<1>1. Init => OK
  BY DEF Init, ConversionsInit
<1>2. OK /\ [Next]_vars => OK'
  <2> SUFFICES ASSUME OK, [Next]_vars PROVE OK'
    OBVIOUS
  <2>1. CASE Type
    <3>1. PICK c \in Characters : text' = Append(text, c)
      BY <2>1 DEF Type
    <3> QED
      BY <3>1, AppendProperties
  <2>2. CASE UNCHANGED text
    BY <2>2
  <2> QED
    BY <2>1, <2>2 DEF Next, UseDates, UseConversions, UseNames, UseEnvironment, UseEnumeration, UseChecks, UseTable, UsePipeline,
       MoreBytes, NextNumeral, MoveTime, conversions, vars
<1>3. OK => TokensAreBetween
  <2> SUFFICES ASSUME OK PROVE TokensAreBetween
    OBVIOUS
  <2> DEFINE S == Characters \cup {Blank}
             tokens == Tokenize(text, Blanks)
  <2>1. text \in Seq(S) /\ HasSpace(S)
    <3>1. Characters \subseteq S /\ Blank \in S
      OBVIOUS
    <3> HIDE DEF S
    <3> QED
      BY <3>1, SeqMonotonic DEF HasSpace
  <2> HIDE DEF S
  <2>2. /\ tokens \in Seq(Seq(S)) /\ AreWords(tokens)
        /\ Len(tokens) = Cardinality(Runs(text))
        /\ \A r \in Runs(text) : tokens[Cardinality(RunsUpTo(text, r[1]))] = SubSeq(text, r[1], r[2])
    BY <2>1, TokensAreRuns
  <2> HIDE DEF tokens
  <2>3. Tokenize(Join(tokens, <<Blank>>, <<>>), Blanks) = tokens
    BY <2>1, <2>2, JoinedIsFound
  <2> QED
    BY <2>2, <2>3 DEF TokensAreBetween, RunsUpTo, Blank, tokens
<1> QED
  BY <1>1, <1>2, <1>3, PTL DEF Spec

-----------------------------------------------------------------------------
\* Codes of characters.
Ampersand == "&"
Semicolon == ";"
CodeLetters == {"a", "m", "p", "g", "t", "l", "n", "b", "s", "u", "q", "e", "&", ";"}
HasCode(c) == \E p \in Codes : p[2] = c
CodeOf(c) == (CHOOSE p \in Codes : p[2] = c)[1]

\* Two to five letters that are no semicolon.
CodeOfLetters(w) ==
    w \in Seq(CodeLetters) /\ Len(w) \in 1 .. MaxCode /\ \A i \in 1 .. Len(w) : w[i] # Semicolon
Letter(x) == x \in CodeLetters /\ x # Semicolon

\* Two letters can be a code.
LEMMA LettersAre2 ==
    ASSUME NEW x1, NEW x2, Letter(x1), Letter(x2)
    PROVE  CodeOfLetters(<<x1, x2>>)
<1> DEFINE w == <<x1, x2>>
<1>1. x1 \in CodeLetters /\ x1 # Semicolon /\ x2 \in CodeLetters /\ x2 # Semicolon
  BY DEF Letter
<1>2. w \in Seq(CodeLetters) /\ Len(w) = 2 /\ w[1] = x1 /\ w[2] = x2
  BY <1>1
<1> HIDE DEF w
<1>3. \A i \in 1 .. 2 : i = 1 \/ i = 2
  OBVIOUS
<1>4. \A i \in 1 .. 2 : w[i] # Semicolon
  BY <1>1, <1>2, <1>3
<1>5. 2 \in 1 .. MaxCode
  BY DEF MaxCode
<1> QED
  BY <1>2, <1>4, <1>5 DEF CodeOfLetters, w

\* Three letters can be a code.
LEMMA LettersAre3 ==
    ASSUME NEW x1, NEW x2, NEW x3, Letter(x1), Letter(x2), Letter(x3)
    PROVE  CodeOfLetters(<<x1, x2, x3>>)
<1> DEFINE w == <<x1, x2, x3>>
<1>1. x1 \in CodeLetters /\ x1 # Semicolon /\ x2 \in CodeLetters /\ x2 # Semicolon /\ x3 \in CodeLetters /\ x3 # Semicolon
  BY DEF Letter
<1>2. w \in Seq(CodeLetters) /\ Len(w) = 3 /\ w[1] = x1 /\ w[2] = x2 /\ w[3] = x3
  BY <1>1
<1> HIDE DEF w
<1>3. \A i \in 1 .. 3 : i = 1 \/ i = 2 \/ i = 3
  OBVIOUS
<1>4. \A i \in 1 .. 3 : w[i] # Semicolon
  BY <1>1, <1>2, <1>3
<1>5. 3 \in 1 .. MaxCode
  BY DEF MaxCode
<1> QED
  BY <1>2, <1>4, <1>5 DEF CodeOfLetters, w

\* Four letters can be a code.
LEMMA LettersAre4 ==
    ASSUME NEW x1, NEW x2, NEW x3, NEW x4, Letter(x1), Letter(x2), Letter(x3), Letter(x4)
    PROVE  CodeOfLetters(<<x1, x2, x3, x4>>)
<1> DEFINE w == <<x1, x2, x3, x4>>
<1>1. /\ x1 \in CodeLetters /\ x1 # Semicolon
      /\ x2 \in CodeLetters /\ x2 # Semicolon
      /\ x3 \in CodeLetters /\ x3 # Semicolon
      /\ x4 \in CodeLetters /\ x4 # Semicolon
  BY DEF Letter
<1>2. w \in Seq(CodeLetters) /\ Len(w) = 4 /\ w[1] = x1 /\ w[2] = x2 /\ w[3] = x3 /\ w[4] = x4
  BY <1>1
<1> HIDE DEF w
<1>3. \A i \in 1 .. 4 : i = 1 \/ i = 2 \/ i = 3 \/ i = 4
  OBVIOUS
<1>4. \A i \in 1 .. 4 : w[i] # Semicolon
  BY <1>1, <1>2, <1>3
<1>5. 4 \in 1 .. MaxCode
  BY DEF MaxCode
<1> QED
  BY <1>2, <1>4, <1>5 DEF CodeOfLetters, w

\* Five letters can be a code.
LEMMA LettersAre5 ==
    ASSUME NEW x1, NEW x2, NEW x3, NEW x4, NEW x5, Letter(x1), Letter(x2), Letter(x3), Letter(x4), Letter(x5)
    PROVE  CodeOfLetters(<<x1, x2, x3, x4, x5>>)
<1> DEFINE w == <<x1, x2, x3, x4, x5>>
<1>1. /\ x1 \in CodeLetters /\ x1 # Semicolon
      /\ x2 \in CodeLetters /\ x2 # Semicolon
      /\ x3 \in CodeLetters /\ x3 # Semicolon
      /\ x4 \in CodeLetters /\ x4 # Semicolon
      /\ x5 \in CodeLetters /\ x5 # Semicolon
  BY DEF Letter
<1>2. w \in Seq(CodeLetters) /\ Len(w) = 5 /\ w[1] = x1 /\ w[2] = x2 /\ w[3] = x3 /\ w[4] = x4 /\ w[5] = x5
  BY <1>1
<1> HIDE DEF w
<1>3. \A i \in 1 .. 5 : i = 1 \/ i = 2 \/ i = 3 \/ i = 4 \/ i = 5
  OBVIOUS
<1>4. \A i \in 1 .. 5 : w[i] # Semicolon
  BY <1>1, <1>2, <1>3
<1>5. 5 \in 1 .. MaxCode
  BY DEF MaxCode
<1> QED
  BY <1>2, <1>4, <1>5 DEF CodeOfLetters, w

\* A code is short and has neither of the characters around it, and it tells
\* which character it stands for.
LEMMA CodesAre ==
    /\ HasCode(Ampersand) /\ Ampersand # Semicolon /\ Ampersand \in CodeLetters /\ Semicolon \in CodeLetters
    /\ \A p \in Codes : /\ p[1] \in Seq(CodeLetters) /\ Len(p[1]) \in 1 .. MaxCode
                        /\ \A i \in 1 .. Len(p[1]) : p[1][i] # Semicolon
    /\ \A p, q \in Codes : p[1] = q[1] => p[2] = q[2]
<1> DEFINE A == <<<<"a", "m", "p">>, "&">>
           G == <<<<"g", "t">>, ">">>
           L == <<<<"l", "t">>, "<">>
           N == <<<<"n", "b", "s", "p">>, " ">>
           P == <<<<"p", "l", "u", "s">>, "+">>
           Q == <<<<"q", "u", "e", "s", "t">>, "?">>
           Good(p) == CodeOfLetters(p[1])
<1>1. Codes = {A, G, L, N, P, Q}
  BY DEF Codes
<1>15. /\ Letter("a") /\ Letter("m") /\ Letter("p") /\ Letter("g") /\ Letter("t") /\ Letter("l") /\ Letter("n")
       /\ Letter("b") /\ Letter("s") /\ Letter("u") /\ Letter("q") /\ Letter("e")
  BY DEF Letter, CodeLetters, Semicolon
<1>2. Good(A)
  BY <1>15, LettersAre3
<1>3. Good(G)
  BY <1>15, LettersAre2
<1>4. Good(L)
  BY <1>15, LettersAre2
<1>5. Good(N)
  BY <1>15, LettersAre4
<1>6. Good(P)
  BY <1>15, LettersAre4
<1>7. Good(Q)
  BY <1>15, LettersAre5
<1>8. A[2] = "&"
  OBVIOUS
<1>9. /\ A[1][1] = "a" /\ G[1][1] = "g" /\ L[1][1] = "l" /\ N[1][1] = "n" /\ P[1][1] = "p" /\ Q[1][1] = "q"
  OBVIOUS
<1> HIDE DEF A, G, L, N, P, Q
<1>10. HasCode(Ampersand)
  BY <1>1, <1>8 DEF HasCode, Ampersand
<1>11. \A p \in Codes : Good(p)
  <2> HIDE DEF Good
  <2> QED
    BY <1>1, <1>2, <1>3, <1>4, <1>5, <1>6, <1>7
<1>12. \A p, q \in Codes : p[1][1] = q[1][1] => p = q
  BY <1>1, <1>9
<1>13. Ampersand # Semicolon /\ Ampersand \in CodeLetters /\ Semicolon \in CodeLetters
  BY DEF Ampersand, Semicolon, CodeLetters
<1> HIDE DEF Good
<1>14. \A p, q \in Codes : p[1] = q[1] => p[2] = q[2]
  BY <1>12
<1> QED
  BY <1>10, <1>11, <1>13, <1>14 DEF Good, CodeOfLetters

\* A text with its codes, one part for each character.
Coded(txt) == [i \in 1 .. Len(txt) |->
    IF HasCode(txt[i]) THEN <<"&">> \o CodeOf(txt[i]) \o <<";">> ELSE <<txt[i]>>]

\* The code of a character leads back to it.
LEMMA CodeIs ==
    ASSUME NEW c, HasCode(c)
    PROVE  /\ CodeOf(c) \in Seq(CodeLetters) /\ Len(CodeOf(c)) \in 1 .. MaxCode
           /\ \A i \in 1 .. Len(CodeOf(c)) : CodeOf(c)[i] # Semicolon
           /\ {p \in Codes : p[1] = CodeOf(c)} # {}
           /\ (CHOOSE p \in {p \in Codes : p[1] = CodeOf(c)} : TRUE)[2] = c
<1> DEFINE q == CHOOSE p \in Codes : p[2] = c
           F == {p \in Codes : p[1] = CodeOf(c)}
           r == CHOOSE p \in F : TRUE
<1>1. q \in Codes /\ q[2] = c /\ q[1] = CodeOf(c)
  BY DEF HasCode, CodeOf
<1>2. q \in F
  BY <1>1
<1>3. r \in F
  BY <1>2
<1>4. r \in Codes /\ r[1] = q[1]
  BY <1>1, <1>3
<1> HIDE DEF q, r
<1>5. r[2] = c
  BY <1>1, <1>4, CodesAre
<1> QED
  BY <1>1, <1>2, <1>5, CodesAre DEF r

\* A character with a code becomes three parts.
LEMMA CodedParts ==
    ASSUME NEW S, CodeLetters \subseteq S, NEW txt \in Seq(S)
    PROVE  /\ Coded(txt) \in Seq(Seq(S)) /\ Len(Coded(txt)) = Len(txt)
           /\ \A i \in 1 .. Len(txt) :
                 /\ ~HasCode(txt[i]) => Len(Coded(txt)[i]) = 1 /\ Coded(txt)[i][1] = txt[i]
                 /\ HasCode(txt[i]) => /\ Len(Coded(txt)[i]) = Len(CodeOf(txt[i])) + 2
                                       /\ Coded(txt)[i][1] = Ampersand
                                       /\ \A j \in 1 .. Len(CodeOf(txt[i])) : Coded(txt)[i][j + 1] = CodeOf(txt[i])[j]
                                       /\ Coded(txt)[i][Len(CodeOf(txt[i])) + 2] = Semicolon
<1> DEFINE m == Len(txt)
           parts == Coded(txt)
           a == <<Ampersand>>
           b == <<Semicolon>>
<1>1. m \in Nat /\ \A i \in 1 .. m : txt[i] \in S
  BY LenProperties, ElementOfSeq
<1>2. parts = [i \in 1 .. m |-> IF HasCode(txt[i]) THEN a \o CodeOf(txt[i]) \o b ELSE <<txt[i]>>]
  BY DEF Coded, Ampersand, Semicolon
<1>3. a \in Seq(S) /\ Len(a) = 1 /\ a[1] = Ampersand /\ b \in Seq(S) /\ Len(b) = 1 /\ b[1] = Semicolon
  BY CodesAre
<1> HIDE DEF parts, m, a, b
<1>4. \A i \in 1 .. m : parts[i] = IF HasCode(txt[i]) THEN a \o CodeOf(txt[i]) \o b ELSE <<txt[i]>>
  BY <1>2
<1>5. ASSUME NEW i \in 1 .. m, ~HasCode(txt[i]) PROVE parts[i] \in Seq(S) /\ Len(parts[i]) = 1 /\ parts[i][1] = txt[i]
  <2>1. parts[i] = <<txt[i]>>
    BY <1>4, <1>5
  <2>2. txt[i] \in S
    BY <1>1
  <2> QED
    BY <2>1, <2>2
<1>6. ASSUME NEW i \in 1 .. m, HasCode(txt[i])
      PROVE  /\ parts[i] \in Seq(S) /\ Len(parts[i]) = Len(CodeOf(txt[i])) + 2
             /\ parts[i][1] = Ampersand
             /\ \A j \in 1 .. Len(CodeOf(txt[i])) : parts[i][j + 1] = CodeOf(txt[i])[j]
             /\ parts[i][Len(CodeOf(txt[i])) + 2] = Semicolon
  <2> DEFINE w == CodeOf(txt[i])
             n == Len(w)
             u == a \o w
  <2>1. w \in Seq(S) /\ n \in Nat
    <3>1. w \in Seq(CodeLetters)
      BY <1>6, CodeIs
    <3> HIDE DEF w
    <3> QED
      BY <3>1, SeqMonotonic, LenProperties
  <2>2. parts[i] = u \o b
    BY <1>4, <1>6
  <2> HIDE DEF w
  <2>3. u \in Seq(S) /\ Len(u) = Len(a) + Len(w)
        /\ \A j \in 1 .. Len(a) + Len(w) : u[j] = IF j <= Len(a) THEN a[j] ELSE w[j - Len(a)]
    BY <1>3, <2>1, ConcatProperties
  <2> HIDE DEF u
  <2>4. (u \o b) \in Seq(S) /\ Len(u \o b) = Len(u) + Len(b)
        /\ \A j \in 1 .. Len(u) + Len(b) : (u \o b)[j] = IF j <= Len(u) THEN u[j] ELSE b[j - Len(u)]
    <3>1. u \in Seq(S)
      BY <2>3
    <3> QED
      BY <1>3, <3>1, ConcatProperties
  <2> HIDE DEF n
  <2>5. n = Len(w)
    BY DEF n
  <2>6. Len(u) = n + 1 /\ Len(u \o b) = n + 2
    BY <1>3, <2>1, <2>3, <2>4, <2>5
  <2>7. \A j \in 1 .. n + 1 : u[j] = IF j <= 1 THEN a[j] ELSE w[j - 1]
    <3>1. Len(a) + Len(w) = n + 1
      BY <1>3, <2>1, <2>5
    <3> QED
      BY <1>3, <2>3, <3>1
  <2>8. \A j \in 1 .. n + 2 : parts[i][j] = IF j <= n + 1 THEN u[j] ELSE b[j - (n + 1)]
    <3>1. Len(u) + Len(b) = n + 2
      BY <2>4, <2>6
    <3> QED
      BY <2>2, <2>4, <2>6, <3>1
  <2>9. parts[i][1] = Ampersand
    <3>1. 1 \in 1 .. n + 1 /\ 1 \in 1 .. n + 2 /\ 1 <= n + 1
      BY <2>1
    <3> QED
      BY <1>3, <2>7, <2>8, <3>1
  <2>10. ASSUME NEW j \in 1 .. n PROVE parts[i][j + 1] = w[j]
    <3>1. j + 1 \in 1 .. n + 1 /\ j + 1 \in 1 .. n + 2 /\ j + 1 <= n + 1 /\ ~(j + 1 <= 1) /\ (j + 1) - 1 = j
      BY <2>1
    <3> QED
      BY <2>7, <2>8, <3>1
  <2>11. parts[i][n + 2] = Semicolon
    <3>1. n + 2 \in 1 .. n + 2 /\ ~(n + 2 <= n + 1) /\ (n + 2) - (n + 1) = 1
      BY <2>1
    <3> QED
      BY <1>3, <2>8, <3>1
  <2> QED
    BY <2>2, <2>4, <2>6, <2>9, <2>10, <2>11 DEF n, w
<1>7. parts \in Seq(Seq(S)) /\ Len(parts) = m
  <2>1. parts \in [1 .. m -> Seq(S)]
    <3>1. \A i \in 1 .. m : parts[i] \in Seq(S)
      BY <1>5, <1>6
    <3>2. parts = [i \in 1 .. m |-> parts[i]]
      BY <1>2
    <3> QED
      BY <3>1, <3>2
  <2> QED
    BY <1>1, <2>1, SeqOfFunction
<1> QED
  BY <1>5, <1>6, <1>7 DEF parts, m

\* The text with the codes of its first k characters replaced.
ReplacedTo(txt, W, E, k) ==
    [j \in 1 .. k + (Len(W) - E[k]) |-> IF j <= k THEN txt[j] ELSE W[E[k] + (j - k)]]
CodedIn(txt, W, E, S) == W \in Seq(S) /\ PartsIn(E, W, Coded(txt), Len(txt))

\* What is behind the first k characters.
LEMMA PlaceInCoded ==
    ASSUME NEW S, CodeLetters \subseteq S, NEW txt \in Seq(S), NEW W, NEW E, CodedIn(txt, W, E, S),
           NEW k \in Nat, k < Len(txt)
    PROVE  /\ E[k] \in Nat /\ E[k + 1] \in Nat /\ E[k + 1] <= Len(W)
           /\ ~HasCode(txt[k + 1]) => E[k + 1] = E[k] + 1 /\ W[E[k] + 1] = txt[k + 1]
           /\ HasCode(txt[k + 1]) => /\ E[k + 1] = E[k] + (Len(CodeOf(txt[k + 1])) + 2)
                                     /\ W[E[k] + 1] = Ampersand
                                     /\ \A j \in 1 .. Len(CodeOf(txt[k + 1])) : W[E[k] + (j + 1)] = CodeOf(txt[k + 1])[j]
                                     /\ W[E[k] + (Len(CodeOf(txt[k + 1])) + 2)] = Semicolon
<1> DEFINE m == Len(txt)
           piece == Coded(txt)[k + 1]
           e == E[k]
           f == E[k + 1]
           c == txt[k + 1]
           n == Len(CodeOf(c))
<1>1. m \in Nat /\ k + 1 \in 1 .. m /\ (k + 1) - 1 = k /\ k \in 0 .. m /\ k + 1 \in 0 .. m
  BY LenProperties
<1>2. e \in Nat /\ f \in Nat /\ f <= Len(W) /\ f = e + Len(piece) /\ \A j \in 1 .. Len(piece) : W[e + j] = piece[j]
  <2>1. PartsIn(E, W, Coded(txt), m)
    BY DEF CodedIn
  <2> HIDE DEF m
  <2> QED
    BY <1>1, <2>1 DEF PartsIn
<1>3. /\ ~HasCode(c) => Len(piece) = 1 /\ piece[1] = c
      /\ HasCode(c) => /\ Len(piece) = n + 2
                       /\ piece[1] = Ampersand
                       /\ \A j \in 1 .. n : piece[j + 1] = CodeOf(c)[j]
                       /\ piece[n + 2] = Semicolon
  BY <1>1, CodedParts
<1>4. HasCode(c) => n \in Nat
  BY CodeIs
<1> HIDE DEF m, piece, e, f, c, n
<1>5. ASSUME ~HasCode(c) PROVE f = e + 1 /\ W[e + 1] = c
  <2>2. Len(piece) = 1 /\ piece[1] = c
    BY <1>3, <1>5
  <2>1. 1 \in 1 .. Len(piece)
    BY <2>2
  <2> QED
    BY <1>2, <2>1, <2>2
<1>6. ASSUME HasCode(c)
      PROVE  /\ f = e + (n + 2) /\ W[e + 1] = Ampersand /\ W[e + (n + 2)] = Semicolon
             /\ \A j \in 1 .. n : W[e + (j + 1)] = CodeOf(c)[j]
  <2>1. 1 \in 1 .. n + 2 /\ n + 2 \in 1 .. n + 2 /\ \A j \in 1 .. n : j + 1 \in 1 .. n + 2
    BY <1>4, <1>6
  <2>2. Len(piece) = n + 2
    BY <1>3, <1>6
  <2>3. \A j \in 1 .. n + 2 : W[e + j] = piece[j]
    BY <1>2, <2>2
  <2> QED
    BY <1>2, <1>3, <1>6, <2>1, <2>2, <2>3
<1> QED
  BY <1>2, <1>5, <1>6 DEF e, f, c, n

\* Such a text is a sequence, the replaced characters before the others.
LEMMA ReplacedIsSeq ==
    ASSUME NEW S, CodeLetters \subseteq S, NEW txt \in Seq(S), NEW W, NEW E, CodedIn(txt, W, E, S),
           NEW k \in Nat, k <= Len(txt)
    PROVE  /\ ReplacedTo(txt, W, E, k) \in Seq(S)
           /\ Len(ReplacedTo(txt, W, E, k)) = k + (Len(W) - E[k]) /\ Len(W) - E[k] \in Nat /\ E[k] \in Nat
           /\ \A j \in 1 .. k + (Len(W) - E[k]) :
                  ReplacedTo(txt, W, E, k)[j] = IF j <= k THEN txt[j] ELSE W[E[k] + (j - k)]
<1> DEFINE m == Len(txt)
           L == Len(W)
           e == E[k]
           str == ReplacedTo(txt, W, E, k)
<1>1. m \in Nat /\ L \in Nat /\ (\A j \in 1 .. m : txt[j] \in S) /\ \A j \in 1 .. L : W[j] \in S
  BY LenProperties, ElementOfSeq DEF CodedIn
<1>2. e \in Nat /\ e <= L
  <2>1. PartsIn(E, W, Coded(txt), m)
    BY DEF CodedIn
  <2>2. k \in 0 .. m
    BY <1>1
  <2> HIDE DEF m
  <2> QED
    BY <2>1, <2>2 DEF PartsIn
<1>3. str = [j \in 1 .. k + (L - e) |-> IF j <= k THEN txt[j] ELSE W[e + (j - k)]]
  BY DEF ReplacedTo
<1>6. k <= m
  OBVIOUS
<1> HIDE DEF str, m, L, e
<1>4. \A j \in 1 .. k + (L - e) : (IF j <= k THEN txt[j] ELSE W[e + (j - k)]) \in S
  <2> TAKE j \in 1 .. k + (L - e)
  <2>1. CASE j <= k
    <3>1. j \in 1 .. m
      BY <1>1, <1>6, <2>1
    <3> QED
      BY <1>1, <2>1, <3>1
  <2>2. CASE ~(j <= k)
    <3>1. e + (j - k) \in 1 .. L
      BY <1>1, <1>2, <2>2
    <3> QED
      BY <1>1, <2>2, <3>1
  <2> QED
    BY <2>1, <2>2
<1>5. str \in Seq(S) /\ Len(str) = k + (L - e)
  <2>1. str \in [1 .. k + (L - e) -> S] /\ k + (L - e) \in Nat
    BY <1>1, <1>2, <1>3, <1>4
  <2> QED
    BY <2>1, SeqOfFunction
<1>7. \A j \in 1 .. k + (L - e) : str[j] = IF j <= k THEN txt[j] ELSE W[e + (j - k)]
  BY <1>3
<1>8. L - e \in Nat
  BY <1>1, <1>2
<1> QED
  BY <1>2, <1>5, <1>7, <1>8 DEF str, L, e

\* A character without a code is where it was.
LEMMA PlainIsKept ==
    ASSUME NEW S, CodeLetters \subseteq S, NEW txt \in Seq(S), NEW W, NEW E, CodedIn(txt, W, E, S),
           NEW k \in Nat, k < Len(txt), ~HasCode(txt[k + 1])
    PROVE  ReplacedTo(txt, W, E, k) = ReplacedTo(txt, W, E, k + 1)
<1> DEFINE L == Len(W)
           e == E[k]
           f == E[k + 1]
           s == ReplacedTo(txt, W, E, k)
           t == ReplacedTo(txt, W, E, k + 1)
<1>1. e \in Nat /\ f = e + 1 /\ W[e + 1] = txt[k + 1]
  BY PlaceInCoded
<1>2. k <= Len(txt) /\ k + 1 <= Len(txt) /\ k + 1 \in Nat
  BY LenProperties
<1>3. /\ s \in Seq(S) /\ Len(s) = k + (L - e) /\ L - e \in Nat
      /\ \A j \in 1 .. k + (L - e) : s[j] = IF j <= k THEN txt[j] ELSE W[e + (j - k)]
  BY <1>2, ReplacedIsSeq
<1>4. /\ t \in Seq(S) /\ Len(t) = (k + 1) + (L - f)
      /\ \A j \in 1 .. (k + 1) + (L - f) : t[j] = IF j <= k + 1 THEN txt[j] ELSE W[f + (j - (k + 1))]
  <2> DEFINE q == k + 1
             u == ReplacedTo(txt, W, E, q)
  <2>1. q \in Nat /\ q <= Len(txt)
    BY <1>2
  <2> HIDE DEF q
  <2>2. /\ u \in Seq(S) /\ Len(u) = q + (Len(W) - E[q])
        /\ \A j \in 1 .. q + (Len(W) - E[q]) : u[j] = IF j <= q THEN txt[j] ELSE W[E[q] + (j - q)]
    BY <2>1, ReplacedIsSeq
  <2> QED
    BY <2>2 DEF q
<1>7. L \in Nat
  BY LenProperties DEF CodedIn
<1> HIDE DEF s, t, L, e, f
<1>5. (k + 1) + (L - f) = k + (L - e)
  BY <1>1, <1>7
<1>6. \A j \in 1 .. k + (L - e) : s[j] = t[j]
  <2> TAKE j \in 1 .. k + (L - e)
  <2>5. j \in Int /\ k \in Int /\ e \in Int /\ f = e + 1
    BY <1>1, <1>3, <1>7
  <2>1. t[j] = IF j <= k + 1 THEN txt[j] ELSE W[f + (j - (k + 1))]
    BY <1>4, <1>5
  <2>2. CASE j <= k
    <3>1. j <= k + 1
      BY <2>2
    <3> QED
      BY <1>3, <2>1, <2>2, <3>1
  <2>3. CASE j = k + 1
    <3>1. ~(j <= k) /\ j <= k + 1 /\ e + (j - k) = e + 1
      BY <1>1, <2>3
    <3> QED
      BY <1>1, <1>3, <2>1, <2>3, <3>1
  <2>4. CASE j > k + 1
    <3>1. ~(j <= k) /\ ~(j <= k + 1) /\ e + (j - k) = f + (j - (k + 1))
      BY <2>4, <2>5
    <3> QED
      BY <1>3, <2>1, <3>1
  <2> QED
    BY <2>2, <2>3, <2>4
<1> QED
  BY <1>3, <1>4, <1>5, <1>6, SeqEqual DEF s, t

\* A part of a sequence, from behind x up to y.
LEMMA PartOf ==
    ASSUME NEW S, NEW s \in Seq(S), NEW x \in Nat, NEW y \in Nat, x <= y, y <= Len(s)
    PROVE  /\ SubSeq(s, x + 1, y) \in Seq(S) /\ Len(SubSeq(s, x + 1, y)) = y - x
           /\ \A j \in 1 .. y - x : SubSeq(s, x + 1, y)[j] = s[x + j]
<1> DEFINE p == x + 1
           u == SubSeq(s, p, y)
<1>1. \A j \in 1 .. Len(s) : s[j] \in S
  BY ElementOfSeq
<1>2. Len(s) \in Nat
  BY LenProperties
<1>3. p \in Int /\ y \in Int /\ p = x + 1
  OBVIOUS
<1>4. \A j \in p .. y : s[j] \in S
  BY <1>1, <1>2
<1> HIDE DEF p
<1>5. u \in Seq(S) /\ Len(u) = (IF p <= y THEN y - p + 1 ELSE 0) /\ \A j \in 1 .. y - p + 1 : u[j] = s[p + j - 1]
  BY <1>3, <1>4, SubSeqProperties
<1> HIDE DEF u
<1>6. y - p + 1 = y - x /\ Len(u) = y - x
  BY <1>3, <1>5
<1>7. \A j \in 1 .. y - x : p + j - 1 = x + j
  BY <1>3
<1> QED
  BY <1>5, <1>6, <1>7 DEF u, p

\* A part of a sequence is replaced by one element.
LEMMA Spliced ==
    ASSUME NEW S, NEW s \in Seq(S), NEW t \in Seq(S), NEW c \in S, NEW i \in Nat, NEW z \in Nat, i <= z, z <= Len(s),
           Len(t) = i + 1 + (Len(s) - z), \A j \in 1 .. i : t[j] = s[j], t[i + 1] = c,
           \A j \in 1 .. Len(s) - z : t[i + 1 + j] = s[z + j]
    PROVE  SubSeq(s, 1, i) \o <<c>> \o SubSeq(s, z + 1, Len(s)) = t
<1> DEFINE N == Len(s)
           u == SubSeq(s, 0 + 1, i)
           v == SubSeq(s, z + 1, N)
           b == <<c>>
           x == u \o b
           y == x \o v
<1>1. N \in Nat /\ N <= Len(s)
  BY LenProperties
<1>2. \A j \in 1 .. i : t[j] = s[j]
  OBVIOUS
<1>3. \A j \in 1 .. N - z : t[i + 1 + j] = s[z + j]
  OBVIOUS
<1>4. Len(t) = i + 1 + (N - z) /\ z <= N
  OBVIOUS
<1> HIDE DEF N
<1>5. u \in Seq(S) /\ Len(u) = i - 0 /\ \A j \in 1 .. i - 0 : u[j] = s[0 + j]
  <2>1. 0 \in Nat /\ 0 <= i /\ i <= Len(s)
    BY <1>1, <1>4 DEF N
  <2> DEFINE o == 0
  <2> HIDE DEF o
  <2>2. o \in Nat /\ o <= i
    BY <2>1 DEF o
  <2>3. SubSeq(s, o + 1, i) \in Seq(S) /\ Len(SubSeq(s, o + 1, i)) = i - o
        /\ \A j \in 1 .. i - o : SubSeq(s, o + 1, i)[j] = s[o + j]
    BY <2>1, <2>2, PartOf
  <2> QED
    BY <2>3 DEF o
<1>6. v \in Seq(S) /\ Len(v) = N - z /\ \A j \in 1 .. N - z : v[j] = s[z + j]
  BY <1>1, <1>4, PartOf
<1>7. b \in Seq(S) /\ Len(b) = 1 /\ b[1] = c
  OBVIOUS
<1> HIDE DEF u, v, b
<1>8. x \in Seq(S) /\ Len(x) = Len(u) + Len(b)
      /\ \A j \in 1 .. Len(u) + Len(b) : x[j] = IF j <= Len(u) THEN u[j] ELSE b[j - Len(u)]
  <2>1. u \in Seq(S) /\ b \in Seq(S)
    BY <1>5, <1>7
  <2> QED
    BY <2>1, ConcatProperties
<1> HIDE DEF x
<1>9. y \in Seq(S) /\ Len(y) = Len(x) + Len(v)
      /\ \A j \in 1 .. Len(x) + Len(v) : y[j] = IF j <= Len(x) THEN x[j] ELSE v[j - Len(x)]
  <2>1. x \in Seq(S) /\ v \in Seq(S)
    BY <1>6, <1>8
  <2> QED
    BY <2>1, ConcatProperties
<1> HIDE DEF y
<1>10. Len(u) = i /\ Len(x) = i + 1 /\ Len(x) + Len(v) = i + 1 + (N - z) /\ Len(u) + Len(b) = i + 1
  BY <1>1, <1>5, <1>6, <1>7, <1>8
<1>11. \A j \in 1 .. i : u[j] = s[j]
  BY <1>5
<1>12. \A j \in 1 .. i + 1 : x[j] = t[j]
  <2> TAKE j \in 1 .. i + 1
  <2>1. x[j] = IF j <= i THEN u[j] ELSE b[j - i]
    BY <1>8, <1>10
  <2>2. CASE j <= i
    BY <1>2, <1>11, <2>1, <2>2
  <2>3. CASE j = i + 1
    <3>1. ~(j <= i) /\ j - i = 1
      BY <2>3
    <3>2. x[j] = c
      BY <1>7, <2>1, <3>1
    <3> QED
      BY <2>3, <3>2
  <2> QED
    BY <2>2, <2>3
<1>13. \A j \in 1 .. i + 1 + (N - z) : y[j] = t[j]
  <2> TAKE j \in 1 .. i + 1 + (N - z)
  <2>1. y[j] = IF j <= i + 1 THEN x[j] ELSE v[j - (i + 1)]
    BY <1>9, <1>10
  <2>2. CASE j <= i + 1
    <3>1. j \in 1 .. i + 1
      BY <2>2
    <3> QED
      BY <1>12, <2>1, <2>2, <3>1
  <2>3. CASE ~(j <= i + 1)
    <3>1. j - (i + 1) \in 1 .. N - z /\ i + 1 + (j - (i + 1)) = j
      BY <1>1, <2>3
    <3>2. y[j] = v[j - (i + 1)]
      BY <2>1, <2>3
    <3>3. v[j - (i + 1)] = s[z + (j - (i + 1))]
      BY <1>6, <3>1
    <3>4. t[i + 1 + (j - (i + 1))] = s[z + (j - (i + 1))]
      BY <1>3, <3>1
    <3> QED
      BY <3>1, <3>2, <3>3, <3>4
  <2> QED
    BY <2>2, <2>3
<1>14. Len(y) = Len(t) /\ \A j \in 1 .. Len(y) : y[j] = t[j]
  BY <1>4, <1>9, <1>10, <1>13
<1>15. y \in Seq(S)
  BY <1>9
<1>16. y = t
  BY <1>14, <1>15, SeqEqual
<1>17. 0 + 1 = 1
  OBVIOUS
<1> QED
  BY <1>16, <1>17 DEF y, x, u, v, b, N

\* The loop, which looks for the next ampersand from here on.
CodesFrom(str, amp) == [str |-> str, amp |-> amp]
\* No code is longer than what is between these.
Short(amp, sc) == sc - amp - 1 <= MaxCode

\* A code from a to z, and what is made of it.
CodeAt(str, from, a, z, c) ==
    /\ Find(str, {Ampersand}, from) = a /\ Find(str, {Semicolon}, a) = z /\ a \in Nat /\ z \in Nat
    /\ z <= Len(str) /\ Len(str) \in Nat /\ HasCode(c) /\ SubSeq(str, a + 1, z - 1) = CodeOf(c) /\ Short(a, z)
WithCharacter(str, a, z, c) == CodesFrom(SubSeq(str, 1, a - 1) \o <<c>> \o SubSeq(str, z + 1, Len(str)), a + 1)

\* What NextCode() makes of a code.
LEMMA NextCodeIs ==
    ASSUME NEW str, NEW from, NEW a, NEW z, NEW c, CodeAt(str, from, a, z, c)
    PROVE  NextCode(CodesFrom(str, from)) = WithCharacter(str, a, z, c)
<1> DEFINE F == {p \in Codes : p[1] = CodeOf(c)}
           st == [str |-> str, amp |-> from]
<1>8. /\ Find(str, {Ampersand}, from) = a /\ Find(str, {Semicolon}, a) = z /\ a \in Nat /\ z \in Nat
      /\ z <= Len(str) /\ Len(str) \in Nat /\ HasCode(c) /\ SubSeq(str, a + 1, z - 1) = CodeOf(c) /\ Short(a, z)
  BY DEF CodeAt
<1>1. F # {} /\ (CHOOSE p \in F : TRUE)[2] = c
  BY <1>8, CodeIs
<1>2. st.str = str /\ st.amp = from
  OBVIOUS
<1>3. ~(z > Len(str)) /\ ~(z - a - 1 > MaxCode)
  BY <1>8 DEF Short, MaxCode
<1>4. {p \in Codes : p[1] = SubSeq(str, a + 1, z - 1)} = F
  BY <1>8
<1>7. Find(str, {"&"}, from) = a /\ Find(str, {";"}, a) = z
  BY <1>8 DEF Ampersand, Semicolon
<1> HIDE DEF F, st
<1>5. NextCode(st) = [str |-> SubSeq(str, 1, a - 1) \o <<c>> \o SubSeq(str, z + 1, Len(str)), amp |-> Behind(a)]
  <2>1. NextCode(st) =
        IF z > Len(str) THEN st
        ELSE IF z - a - 1 > MaxCode THEN [st EXCEPT !.amp = a + 1]
        ELSE IF F = {} THEN [st EXCEPT !.amp = z + 1]
        ELSE [str |-> SubSeq(str, 1, a - 1) \o << (CHOOSE p \in F : TRUE)[2] >> \o SubSeq(str, z + 1, Len(str)),
              amp |-> Behind(a)]
    BY <1>2, <1>4, <1>7, Zenon DEF NextCode
  <2> QED
    BY <1>1, <1>3, <2>1
<1>6. Behind(a) = a + 1
  BY DEF Behind
<1> QED
  BY <1>5, <1>6 DEF st, CodesFrom, WithCharacter

\* The next code is replaced by its character.
LEMMA CodeIsReplaced ==
    ASSUME NEW S, CodeLetters \subseteq S, NEW txt \in Seq(S), NEW W, NEW E, CodedIn(txt, W, E, S),
           NEW i \in Nat, i < Len(txt), NEW k \in 0 .. i, HasCode(txt[i + 1]),
           \A j \in k + 1 .. i : ~HasCode(txt[j])
    PROVE  NextCode(CodesFrom(ReplacedTo(txt, W, E, i), k + 1)) = CodesFrom(ReplacedTo(txt, W, E, i + 1), i + 2)
<1> DEFINE L == Len(W)
           e == E[i]
           f == E[i + 1]
           c == txt[i + 1]
           w == CodeOf(c)
           n == Len(w)
           s == ReplacedTo(txt, W, E, i)
           t == ReplacedTo(txt, W, E, i + 1)
           N == i + (L - e)
           a == i + 1
           z == i + (n + 2)
<1>1. HasCode(c) /\ w \in Seq(CodeLetters) /\ n \in 1 .. MaxCode /\ (\A j \in 1 .. n : w[j] # Semicolon)
  BY CodeIs
<1>2. /\ e \in Nat /\ f = e + (n + 2) /\ f <= L /\ W[e + 1] = Ampersand
      /\ \A j \in 1 .. n : W[e + (j + 1)] = w[j]
      /\ W[e + (n + 2)] = Semicolon
  BY PlaceInCoded
<1>3. s \in Seq(S) /\ Len(s) = N /\ \A j \in 1 .. N : s[j] = IF j <= i THEN txt[j] ELSE W[e + (j - i)]
  <2>1. i <= Len(txt)
    BY LenProperties
  <2> HIDE DEF L, e, f, c, w, n, s, t, N, a, z
  <2> DEFINE u == ReplacedTo(txt, W, E, i)
  <2>2. u \in Seq(S) /\ Len(u) = i + (Len(W) - E[i]) /\ \A j \in 1 .. i + (Len(W) - E[i]) : u[j] = IF j <= i THEN txt[j] ELSE W[E[i] + (j - i)]
    BY <2>1, ReplacedIsSeq
  <2> QED
    BY <2>2 DEF s, N, L, e
<1>4. t \in Seq(S) /\ Len(t) = a + (L - f) /\ \A j \in 1 .. a + (L - f) : t[j] = IF j <= a THEN txt[j] ELSE W[f + (j - a)]
  <2>1. a \in Nat /\ a <= Len(txt)
    BY LenProperties
  <2> DEFINE u == ReplacedTo(txt, W, E, a)
  <2> HIDE DEF a
  <2>2. /\ u \in Seq(S) /\ Len(u) = a + (L - E[a])
        /\ \A j \in 1 .. a + (L - E[a]) : u[j] = IF j <= a THEN txt[j] ELSE W[E[a] + (j - a)]
    BY <2>1, ReplacedIsSeq
  <2> QED
    BY <2>2 DEF a
<1>5. L \in Nat
  BY LenProperties DEF CodedIn
<1>6. c \in S
  <2>1. i + 1 \in 1 .. Len(txt)
    BY LenProperties
  <2> QED
    BY <2>1, ElementOfSeq
<1>20. \A j \in k + 1 .. i : ~HasCode(txt[j])
  OBVIOUS
<1>22. n = Len(w) /\ c = txt[i + 1]
  OBVIOUS
<1> HIDE DEF L, e, f, c, w, n, s, t
<1>21. n \in Nat /\ n >= 1 /\ n <= MaxCode
  <2>1. n \in 1 .. MaxCode
    BY <1>1
  <2> QED
    BY <2>1 DEF MaxCode
<1>7. a \in k + 1 .. N + 1 /\ a \in 1 .. N /\ z \in 1 .. N /\ z \in a .. N + 1 /\ N \in Nat /\ k + 1 \in 1 .. N + 1
  BY <1>2, <1>5, <1>21
<1>8. \A j \in 1 .. n + 2 : s[i + j] = W[e + j]
  <2> TAKE j \in 1 .. n + 2
  <2>1. i + j \in 1 .. N /\ ~(i + j <= i) /\ (i + j) - i = j
    BY <1>2, <1>5, <1>21
  <2> QED
    BY <1>3, <2>1
<1>9. s[a] = Ampersand /\ s[z] = Semicolon /\ \A j \in 1 .. n : s[a + j] = w[j]
  <2>1. 1 \in 1 .. n + 2 /\ n + 2 \in 1 .. n + 2 /\ \A j \in 1 .. n : j + 1 \in 1 .. n + 2 /\ a + j = i + (j + 1)
    BY <1>21
  <2> QED
    BY <1>2, <1>8, <2>1
<1>10. Find(s, {Ampersand}, k + 1) = a
  <2>1. \A j \in k + 1 .. a - 1 : s[j] \notin {Ampersand}
    <3> TAKE j \in k + 1 .. a - 1
    <3>1. j \in 1 .. N /\ j <= i /\ j \in k + 1 .. i
      BY <1>7
    <3>2. s[j] = txt[j] /\ ~HasCode(txt[j])
      BY <1>3, <1>20, <3>1
    <3> QED
      BY <3>2, CodesAre
  <2> HIDE DEF N
  <2>2. FoundAt(s, {Ampersand}, k + 1, a)
    BY <1>3, <1>7, <1>9, <2>1 DEF FoundAt
  <2>3. k + 1 \in 1 .. Len(s) + 1
    BY <1>3, <1>7
  <2> DEFINE q == k + 1
  <2>4. q \in 1 .. Len(s) + 1 /\ FoundAt(s, {Ampersand}, q, a)
    BY <2>2, <2>3
  <2> HIDE DEF q, a
  <2>5. Find(s, {Ampersand}, q) = a
    BY <1>3, <2>4, FoundOnce
  <2> QED
    BY <2>5 DEF q
<1>11. Find(s, {Semicolon}, a) = z
  <2>1. \A j \in a .. z - 1 : s[j] \notin {Semicolon}
    <3> TAKE j \in a .. z - 1
    <3>1. CASE j = a
      BY <1>9, <3>1, CodesAre
    <3>2. CASE j # a
      <4>1. j - a \in 1 .. n /\ a + (j - a) = j
        BY <1>7, <1>21, <3>2
      <4> QED
        BY <1>1, <1>9, <4>1
    <3> QED
      BY <3>1, <3>2
  <2> HIDE DEF N
  <2>2. FoundAt(s, {Semicolon}, a, z)
    BY <1>3, <1>7, <1>9, <2>1 DEF FoundAt
  <2>3. a \in 1 .. Len(s) + 1
    BY <1>3, <1>7
  <2> HIDE DEF a, z
  <2> QED
    BY <1>3, <2>2, <2>3, FoundOnce
<1>12. SubSeq(s, a + 1, z - 1) = w
  <2> DEFINE y == z - 1
             u == SubSeq(s, a + 1, y)
  <2>1. a \in Nat /\ y \in Nat /\ a <= y /\ y <= Len(s) /\ y - a = n
    BY <1>3, <1>7, <1>21
  <2>2. w \in Seq(S)
    BY <1>1, SeqMonotonic
  <2> HIDE DEF a, y
  <2>3. u \in Seq(S) /\ Len(u) = y - a /\ \A j \in 1 .. y - a : u[j] = s[a + j]
    BY <1>3, <2>1, PartOf
  <2> HIDE DEF u
  <2>4. Len(u) = Len(w) /\ \A j \in 1 .. Len(u) : u[j] = w[j]
    BY <1>9, <1>22, <2>1, <2>3
  <2>5. u \in Seq(S)
    BY <2>3
  <2> QED
    BY <2>2, <2>4, <2>5, SeqEqual DEF u, y
<1>13. z - a - 1 <= MaxCode /\ a \in Nat /\ z \in Nat /\ z <= N
  <2>1. z - a - 1 = n
    BY <1>21
  <2> QED
    BY <1>7, <1>21, <2>1
<1>14. SubSeq(s, 1, a - 1) \o <<c>> \o SubSeq(s, z + 1, N) = t
  <2>1. N - z = L - f /\ a + (L - f) = i + 1 + (N - z) /\ a - 1 = i /\ L - f \in Nat /\ z \in Nat /\ i <= z /\ z <= N
    BY <1>2, <1>5, <1>21
  <2>2. \A j \in 1 .. i : t[j] = s[j]
    <3> TAKE j \in 1 .. i
    <3>1. j \in 1 .. a + (L - f) /\ j <= a /\ j \in 1 .. N /\ j <= i
      BY <1>7, <2>1
    <3> QED
      BY <1>3, <1>4, <3>1
  <2>3. t[i + 1] = c
    <3>1. a \in 1 .. a + (L - f) /\ a <= a
      BY <2>1
    <3>2. t[a] = txt[a]
      BY <1>4, <3>1
    <3> QED
      BY <1>22, <3>2
  <2>4. \A j \in 1 .. N - z : t[i + 1 + j] = s[z + j]
    <3> TAKE j \in 1 .. N - z
    <3>1. i + 1 + j \in 1 .. a + (L - f) /\ ~(i + 1 + j <= a) /\ z + j \in 1 .. N /\ ~(z + j <= i)
      BY <1>7, <2>1
    <3>2. f + ((i + 1 + j) - a) = e + ((z + j) - i)
      <4>1. e \in Nat /\ f = e + (n + 2) /\ n \in Nat
        BY <1>2, <1>21
      <4>2. i \in Nat /\ j \in Int
        BY <2>1
      <4> QED
        BY <4>1, <4>2
    <3>3. t[i + 1 + j] = W[f + ((i + 1 + j) - a)]
      BY <1>4, <3>1
    <3>4. s[z + j] = W[e + ((z + j) - i)]
      BY <1>3, <3>1
    <3> QED
      BY <3>2, <3>3, <3>4
  <2>5. Len(t) = i + 1 + (N - z) /\ Len(s) = N
    BY <1>3, <1>4, <2>1
  <2> HIDE DEF z, N
  <2>7. s \in Seq(S) /\ t \in Seq(S) /\ c \in S /\ z \in Nat /\ i <= z /\ z <= Len(s) /\ Len(t) = i + 1 + (Len(s) - z)
        /\ \A j \in 1 .. Len(s) - z : t[i + 1 + j] = s[z + j]
    BY <1>3, <1>4, <1>6, <2>1, <2>4, <2>5
  <2>6. SubSeq(s, 1, i) \o <<c>> \o SubSeq(s, z + 1, Len(s)) = t
    BY <2>2, <2>3, <2>7, Spliced
  <2> QED
    BY <2>1, <2>5, <2>6
<1>15. NextCode(CodesFrom(s, k + 1)) = CodesFrom(t, a + 1)
  <2> DEFINE q == k + 1
  <2>1. z <= Len(s) /\ Len(s) \in Nat /\ a \in Nat /\ z \in Nat /\ Short(a, z)
    BY <1>3, <1>7, <1>13 DEF Short
  <2>2. Find(s, {Ampersand}, q) = a
    BY <1>10
  <2> HIDE DEF a, z, N, q
  <2>3. HasCode(c) /\ SubSeq(s, a + 1, z - 1) = CodeOf(c)
    BY <1>1, <1>12 DEF w
  <2>4. NextCode(CodesFrom(s, q)) = CodesFrom(SubSeq(s, 1, a - 1) \o <<c>> \o SubSeq(s, z + 1, Len(s)), a + 1)
    <3>1. CodeAt(s, q, a, z, c)
      BY <1>11, <2>1, <2>2, <2>3 DEF CodeAt
    <3> QED
      BY <3>1, NextCodeIs DEF WithCharacter
  <2> QED
    BY <1>3, <1>14, <2>4 DEF q
<1>16. a + 1 = i + 2
  OBVIOUS
<1> QED
  BY <1>15, <1>16 DEF s, t

\* No character of this part has a code.
Codeless(txt, from, to) == \A j \in from .. to : ~HasCode(txt[j])

\* Characters without a code are where they were.
LEMMA PlainAreKept ==
    ASSUME NEW S, CodeLetters \subseteq S, NEW txt \in Seq(S), NEW W, NEW E, CodedIn(txt, W, E, S),
           NEW i \in Nat, i <= Len(txt), NEW k \in 0 .. i, Codeless(txt, k + 1, i)
    PROVE  ReplacedTo(txt, W, E, k) = ReplacedTo(txt, W, E, i)
<1> DEFINE R(n) == ReplacedTo(txt, W, E, n)
           T == {n \in Nat : k + n <= i => R(k) = R(k + n)}
<1>1. Len(txt) \in Nat /\ i <= Len(txt)
  BY LenProperties
<1>2. \A n \in Nat : n \in Nat /\ k + n + 1 <= i => R(k + n) = R(k + n + 1)
  <2> SUFFICES ASSUME NEW n \in Nat, k + n + 1 <= i PROVE R(k + n) = R(k + n + 1)
    OBVIOUS
  <2> DEFINE q == k + n
  <2>1. q \in Nat /\ q < Len(txt) /\ q + 1 \in k + 1 .. i
    BY <1>1
  <2>2. ~HasCode(txt[q + 1])
    BY <2>1 DEF Codeless
  <2> HIDE DEF q
  <2>3. R(q) = R(q + 1)
    BY <2>1, <2>2, PlainIsKept
  <2> QED
    BY <2>3 DEF q
<1> HIDE DEF R
<1>3. \A n \in Nat : n \in T <=> (k + n <= i => R(k) = R(k + n))
  OBVIOUS
<1> HIDE DEF T
<1>4. k + 0 = k
  OBVIOUS
<1>5. 0 \in T
  BY <1>3, <1>4
<1>6. ASSUME NEW n \in Nat, n \in T PROVE n + 1 \in T
  <2>1. ASSUME k + (n + 1) <= i PROVE R(k) = R(k + (n + 1))
    <3>1. k + n <= i /\ k + n + 1 <= i /\ k + n + 1 = k + (n + 1)
      BY <2>1
    <3> QED
      BY <1>2, <1>3, <1>6, <3>1
  <2> QED
    BY <1>3, <2>1
<1>7. i - k \in T
  <2>1. i - k \in Nat
    OBVIOUS
  <2> QED
    BY <1>5, <1>6, <2>1, Induction
<1>8. k + (i - k) = i /\ i <= i /\ i - k \in Nat
  OBVIOUS
<1>9. R(k) = R(i)
  BY <1>3, <1>7, <1>8
<1> QED
  BY <1>9 DEF R

\* The last character is followed by nothing, and there are as many characters
\* in the coded text at least.
LEMMA AllAreReplaced ==
    ASSUME NEW S, CodeLetters \subseteq S, NEW txt \in Seq(S), NEW W, NEW E, CodedIn(txt, W, E, S)
    PROVE  ReplacedTo(txt, W, E, Len(txt)) = txt /\ ReplacedTo(txt, W, E, 0) = W /\ Len(txt) <= Len(W)
<1> DEFINE m == Len(txt)
           L == Len(W)
<1>1. m \in Nat /\ L \in Nat /\ W \in Seq(S) /\ m <= Len(txt)
  BY LenProperties DEF CodedIn
<1>2. E[0] = 0 /\ L = E[m] /\ \A k \in 0 .. m : E[k] \in Nat
  BY DEF CodedIn, PartsIn
<1>3. ReplacedTo(txt, W, E, m) = txt
  <2> DEFINE u == ReplacedTo(txt, W, E, m)
  <2>1. /\ u \in Seq(S) /\ Len(u) = m + (L - E[m])
        /\ \A j \in 1 .. m + (L - E[m]) : u[j] = IF j <= m THEN txt[j] ELSE W[E[m] + (j - m)]
    <3> HIDE DEF m
    <3> QED
      BY <1>1, ReplacedIsSeq
  <2>2. m + (L - E[m]) = m
    BY <1>1, <1>2
  <2>3. Len(u) = Len(txt) /\ \A j \in 1 .. Len(u) : u[j] = txt[j]
    <3> HIDE DEF u, L
    <3> QED
      BY <1>1, <2>1, <2>2
  <2> HIDE DEF u, m
  <2>4. u \in Seq(S)
    BY <2>1
  <2> QED
    BY <2>3, <2>4, SeqEqual DEF u
<1>4. ReplacedTo(txt, W, E, 0) = W
  <2> DEFINE o == 0
             u == ReplacedTo(txt, W, E, o)
  <2>0. o = 0 /\ o \in Nat /\ o <= Len(txt)
    BY <1>1
  <2> HIDE DEF o
  <2>1. /\ u \in Seq(S) /\ Len(u) = o + (L - E[o])
        /\ \A j \in 1 .. o + (L - E[o]) : u[j] = IF j <= o THEN txt[j] ELSE W[E[o] + (j - o)]
    BY <2>0, ReplacedIsSeq
  <2> HIDE DEF u, L
  <2>2. o + (L - E[o]) = L /\ E[o] = 0
    BY <1>1, <1>2, <2>0
  <2>3. \A j \in 1 .. L : ~(j <= o) /\ E[o] + (j - o) = j
    BY <2>0, <2>2
  <2>4. Len(u) = L /\ \A j \in 1 .. L : u[j] = W[j]
    BY <2>1, <2>2, <2>3
  <2>5. Len(u) = Len(W) /\ \A j \in 1 .. Len(u) : u[j] = W[j]
    BY <2>4 DEF L
  <2>6. u \in Seq(S)
    BY <2>1
  <2> QED
    BY <1>1, <2>0, <2>5, <2>6, SeqEqual DEF u
<1>5. m <= L
  <2> DEFINE T == {n \in Nat : n <= m => E[n] >= n}
  <2>1. \A n \in Nat : n \in T <=> (n <= m => E[n] >= n)
    OBVIOUS
  <2> HIDE DEF T
  <2>2. 0 \in T
    BY <1>2, <2>1
  <2>3. ASSUME NEW n \in Nat, n \in T PROVE n + 1 \in T
    <3>1. ASSUME n + 1 <= m PROVE E[n + 1] >= n + 1
      <4>1. n < m /\ n <= m
        BY <1>1, <3>1
      <4>2. E[n + 1] \in Nat /\ E[n] \in Nat /\ E[n + 1] >= E[n] + 1
        <5> DEFINE e == E[n]
                   f == E[n + 1]
                   c == txt[n + 1]
                   w == CodeOf(c)
                   l == Len(w)
        <5>1. e \in Nat /\ f \in Nat /\ (~HasCode(c) => f = e + 1) /\ (HasCode(c) => f = e + (l + 2))
          BY <4>1, PlaceInCoded
        <5>2. HasCode(c) => l \in Nat
          BY CodeIs
        <5> HIDE DEF e, f, c, l
        <5>3. f >= e + 1
          BY <5>1, <5>2
        <5> QED
          BY <5>1, <5>3 DEF e, f
      <4>3. E[n] >= n
        BY <2>1, <2>3, <4>1
      <4> QED
        BY <4>2, <4>3
    <3> QED
      BY <2>1, <3>1
  <2>4. m \in T
    BY <1>1, <2>2, <2>3, Induction
  <2> QED
    BY <1>1, <1>2, <2>1, <2>4
<1> QED
  BY <1>3, <1>4, <1>5

\* When no character with a code follows, the text has been read and stays as
\* it is.
LEMMA NoCodeIsLeft ==
    ASSUME NEW S, CodeLetters \subseteq S, NEW txt \in Seq(S), NEW W, NEW E, CodedIn(txt, W, E, S),
           NEW k \in 0 .. Len(txt), Codeless(txt, k + 1, Len(txt))
    PROVE  /\ ReplacedTo(txt, W, E, k) = txt
           /\ NextCode(CodesFrom(ReplacedTo(txt, W, E, k), k + 1)) = CodesFrom(ReplacedTo(txt, W, E, k), k + 1)
<1> DEFINE m == Len(txt)
           q == k + 1
           z == m + 1
           st == CodesFrom(txt, q)
<1>1. m \in Nat /\ m <= Len(txt) /\ q \in 1 .. m + 1 /\ z \in Nat /\ z = Len(txt) + 1 /\ z \in q .. Len(txt) + 1
  BY LenProperties
<1>2. ReplacedTo(txt, W, E, k) = txt
  <2>1. ReplacedTo(txt, W, E, k) = ReplacedTo(txt, W, E, m)
    <3> HIDE DEF m
    <3>1. k \in 0 .. m /\ Codeless(txt, k + 1, m)
      BY DEF m
    <3> QED
      BY <1>1, <3>1, PlainAreKept
  <2> QED
    BY <2>1, AllAreReplaced
<1>3. \A j \in q .. z - 1 : txt[j] \notin {Ampersand}
  <2> TAKE j \in q .. z - 1
  <2>1. j \in k + 1 .. Len(txt)
    BY <1>1
  <2>2. ~HasCode(txt[j])
    BY <2>1 DEF Codeless
  <2> QED
    BY <2>2, CodesAre
<1> HIDE DEF z, q
<1>4. Find(txt, {Ampersand}, q) = z
  <2>1. ~(z <= Len(txt))
    BY <1>1
  <2>2. FoundAt(txt, {Ampersand}, q, z)
    BY <1>1, <1>3, <2>1 DEF FoundAt
  <2> QED
    BY <1>1, <2>2, FoundOnce
<1>5. Find(txt, {Semicolon}, z) = z
  <2>1. ~(z <= Len(txt)) /\ z \in z .. Len(txt) + 1 /\ z \in 1 .. Len(txt) + 1 /\ \A j \in z .. z - 1 : FALSE
    BY <1>1
  <2>2. FoundAt(txt, {Semicolon}, z, z)
    BY <2>1 DEF FoundAt
  <2> QED
    BY <2>1, <2>2, FoundOnce
<1>6. NextCode(st) = st
  <2>1. st.str = txt /\ st.amp = q
    BY DEF CodesFrom
  <2>2. z > Len(txt)
    BY <1>1
  <2>3. Find(st.str, {"&"}, st.amp) = z /\ Find(st.str, {";"}, z) = z /\ z > Len(st.str)
    BY <1>4, <1>5, <2>1, <2>2 DEF Ampersand, Semicolon
  <2> HIDE DEF st
  <2> QED
    BY <2>3 DEF NextCode
<1> QED
  BY <1>2, <1>6 DEF q

\* When one follows, the next step replaces it.
LEMMA NextIsReplaced ==
    ASSUME NEW S, CodeLetters \subseteq S, NEW txt \in Seq(S), NEW W, NEW E, CodedIn(txt, W, E, S),
           NEW k \in 0 .. Len(txt), ~Codeless(txt, k + 1, Len(txt))
    PROVE  \E l \in k + 1 .. Len(txt) : NextCode(CodesFrom(ReplacedTo(txt, W, E, k), k + 1)) = CodesFrom(ReplacedTo(txt, W, E, l), l + 1)
<1> DEFINE m == Len(txt)
           T == {n \in Nat : n \in k + 1 .. m /\ HasCode(txt[n])}
<1>1. m \in Nat
  BY LenProperties
<1>2. T \in SUBSET Nat /\ T # {}
  BY <1>1 DEF Codeless
<1>3. \A n \in Nat : n \in T <=> n \in k + 1 .. m /\ HasCode(txt[n])
  OBVIOUS
<1> HIDE DEF T
<1>4. PICK l \in T : \A n \in T : l <= n
  BY <1>2, LeastNumber
<1>5. l \in Nat /\ l \in k + 1 .. m /\ HasCode(txt[l])
  BY <1>2, <1>3, <1>4
<1> DEFINE i == l - 1
<1>6. i \in Nat /\ i < m /\ k \in 0 .. i /\ i + 1 = l /\ i + 2 = l + 1
  BY <1>1, <1>5
<1>7. \A j \in k + 1 .. i : ~HasCode(txt[j])
  <2> TAKE j \in k + 1 .. i
  <2>1. j \in Nat /\ j \in k + 1 .. m /\ ~(l <= j)
    BY <1>1, <1>5
  <2> QED
    BY <1>3, <1>4, <2>1
<1> HIDE DEF i
<1>8. ReplacedTo(txt, W, E, k) = ReplacedTo(txt, W, E, i)
  <2>1. i <= Len(txt) /\ Codeless(txt, k + 1, i)
    BY <1>1, <1>6, <1>7 DEF Codeless
  <2> QED
    BY <1>6, <2>1, PlainAreKept
<1>9. NextCode(CodesFrom(ReplacedTo(txt, W, E, i), k + 1)) = CodesFrom(ReplacedTo(txt, W, E, i + 1), i + 2)
  <2>1. i < Len(txt) /\ HasCode(txt[i + 1])
    BY <1>5, <1>6
  <2> QED
    BY <1>6, <1>7, <2>1, CodeIsReplaced
<1>10. NextCode(CodesFrom(ReplacedTo(txt, W, E, k), k + 1)) = CodesFrom(ReplacedTo(txt, W, E, l), l + 1)
  BY <1>6, <1>8, <1>9
<1> QED
  BY <1>5, <1>10

\* The states of the loop: each has replaced the codes of some characters.
ReadTo(txt, W, E) == {CodesFrom(ReplacedTo(txt, W, E, k), k + 1) : k \in 0 .. Len(txt)}
ReadIn(g, W) ==
    /\ g[0] = CodesFrom(W, 1) /\ Html2Ascii(W) = g[Len(W)].str
    /\ \A n \in 1 .. Len(W) : g[n] = NextCode(g[n - 1])

\* A step leads from one to another.
LEMMA NextCodeInStates ==
    ASSUME NEW S, CodeLetters \subseteq S, NEW txt \in Seq(S), NEW W, NEW E, CodedIn(txt, W, E, S),
           NEW s \in ReadTo(txt, W, E)
    PROVE  NextCode(s) \in ReadTo(txt, W, E)
<1>1. PICK k \in 0 .. Len(txt) : s = CodesFrom(ReplacedTo(txt, W, E, k), k + 1)
  BY DEF ReadTo
<1>2. CASE Codeless(txt, k + 1, Len(txt))
  BY <1>1, <1>2, NoCodeIsLeft
<1>3. CASE ~Codeless(txt, k + 1, Len(txt))
  <2>1. PICK l \in k + 1 .. Len(txt) : NextCode(s) = CodesFrom(ReplacedTo(txt, W, E, l), l + 1)
    BY <1>1, <1>3, NextIsReplaced
  <2>2. l \in 0 .. Len(txt)
    BY <1>1, <2>1, LenProperties
  <2> QED
    BY <2>1, <2>2 DEF ReadTo
<1> QED
  BY <1>2, <1>3

\* There are states as the loop goes through them.
LEMMA StatesOfCodes ==
    ASSUME NEW S, CodeLetters \subseteq S, NEW txt \in Seq(S), NEW W, NEW E, CodedIn(txt, W, E, S)
    PROVE  \E g : ReadIn(g, W)
<1> DEFINE N == Len(W)
           Q == ReadTo(txt, W, E)
           a == [str |-> W, amp |-> 1]
           Body(f) == [i \in 0 .. N |-> IF i = 0 THEN a ELSE NextCode(f[i - 1])]
           F == [p \in (1 .. N) \X Q |-> NextCode(p[2])]
<1>1. N \in Nat /\ a = CodesFrom(W, 1)
  BY LenProperties DEF CodedIn, CodesFrom
<1>2. a \in Q
  <2>1. 0 \in 0 .. Len(txt) /\ 0 + 1 = 1
    BY LenProperties
  <2>2. CodesFrom(ReplacedTo(txt, W, E, 0), 0 + 1) \in Q
    BY <2>1 DEF ReadTo
  <2> QED
    BY <1>1, <2>1, <2>2, AllAreReplaced
<1>3. \A s \in Q : NextCode(s) \in Q
  BY NextCodeInStates
<1>4. Html2Ascii(W) = (CHOOSE e : e = Body(e))[N].str
  BY DEF Html2Ascii
<1> HIDE DEF N, Q, a
<1>5. PICK f : StepsOf(f, N, Q, a, F)
  <2>1. F \in [(1 .. N) \X Q -> Q]
    BY <1>3
  <2> HIDE DEF F
  <2> QED
    BY <1>1, <1>2, <2>1, Iterated
<1>6. f \in [0 .. N -> Q] /\ f[0] = a /\ \A n \in 1 .. N : f[n] = F[<<n, f[n - 1]>>]
  BY <1>5 DEF StepsOf
<1>7. \A n \in 1 .. N : f[n] = NextCode(f[n - 1])
  <2> TAKE n \in 1 .. N
  <2>1. n - 1 \in 0 .. N
    BY <1>1
  <2>2. f[n - 1] \in Q
    BY <1>6, <2>1
  <2>3. f[n] = F[<<n, f[n - 1]>>] /\ <<n, f[n - 1]>> \in (1 .. N) \X Q
    BY <1>6, <2>2
  <2> QED
    BY <2>3
<1> HIDE DEF F
<1>8. f = Body(f)
  <2>1. f = [n \in 0 .. N |-> f[n]]
    BY <1>6
  <2>2. \A n \in 0 .. N : f[n] = Body(f)[n]
    <3>1. \A n \in 0 .. N : n # 0 => n \in 1 .. N
      BY <1>1
    <3> QED
      BY <1>6, <1>7, <3>1
  <2> QED
    BY <2>1, <2>2
<1> DEFINE g == CHOOSE e : e = Body(e)
<1>9. g = Body(g)
  BY <1>8
<1>10. Html2Ascii(W) = g[N].str
  BY <1>4
<1> HIDE DEF g
<1>11. g[0] = a /\ \A n \in 1 .. N : g[n] = NextCode(g[n - 1])
  <2>1. \A n \in 0 .. N : g[n] = IF n = 0 THEN a ELSE NextCode(g[n - 1])
    BY <1>9
  <2>2. 0 \in 0 .. N /\ \A n \in 1 .. N : n \in 0 .. N /\ n # 0
    BY <1>1
  <2> QED
    BY <2>1, <2>2
<1>12. ReadIn(g, W)
  BY <1>1, <1>10, <1>11 DEF ReadIn, N
<1> QED
  BY <1>12

\* The codes are read as the characters they stand for.
LEMMA CodesAreRead ==
    ASSUME NEW S, CodeLetters \subseteq S, NEW txt \in Seq(S)
    PROVE  Html2Ascii(FlattenSeq(Coded(txt))) = txt
<1> DEFINE W == FlattenSeq(Coded(txt))
           m == Len(txt)
           L == Len(W)
<1>1. Coded(txt) \in Seq(Seq(S)) /\ Len(Coded(txt)) = m
  BY CodedParts
<1>2. W \in Seq(S) /\ \E E : PartsIn(E, W, Coded(txt), m)
  BY <1>1, PartsOfFlat
<1> HIDE DEF W
<1>3. PICK E : CodedIn(txt, W, E, S)
  BY <1>2 DEF CodedIn
<1>4. PICK g : ReadIn(g, W)
  BY <1>3, StatesOfCodes
<1>5. /\ g[0] = CodesFrom(W, 1) /\ Html2Ascii(W) = g[L].str
      /\ \A n \in 1 .. L : g[n] = NextCode(g[n - 1])
  BY <1>4 DEF ReadIn
<1>6. m \in Nat /\ L \in Nat
  BY <1>2, LenProperties
<1>7. ReplacedTo(txt, W, E, 0) = W /\ m <= L
  BY <1>3, AllAreReplaced
<1> DEFINE R(k) == ReplacedTo(txt, W, E, k)
           Reached(n, k) == k \in 0 .. m /\ g[n] = CodesFrom(R(k), k + 1) /\ (k >= n \/ Codeless(txt, k + 1, m))
           T == {n \in Nat : n <= L => \E k : Reached(n, k)}
<1> HIDE DEF L
<1>8. \A n \in Nat : n \in T <=> (n <= L => \E k : Reached(n, k))
  OBVIOUS
<1> HIDE DEF T
<1>9. 0 \in T
  <2>1. 0 \in 0 .. m /\ 0 >= 0 /\ 0 + 1 = 1
    BY <1>6
  <2>2. Reached(0, 0)
    BY <1>5, <1>7, <2>1
  <2> QED
    BY <1>8, <2>2
<1>10. ASSUME NEW n \in Nat, n \in T PROVE n + 1 \in T
  <2>1. ASSUME n + 1 <= L PROVE \E k : Reached(n + 1, k)
    <3>1. n <= L /\ n + 1 \in 1 .. L /\ (n + 1) - 1 = n
      BY <1>6, <2>1
    <3>2. g[n + 1] = NextCode(g[n])
      BY <1>5, <3>1
    <3>3. PICK k : Reached(n, k)
      BY <1>8, <1>10, <3>1
    <3>4. CASE Codeless(txt, k + 1, m)
      <4>1. NextCode(CodesFrom(R(k), k + 1)) = CodesFrom(R(k), k + 1)
        BY <1>3, <3>3, <3>4, NoCodeIsLeft
      <4>2. Reached(n + 1, k)
        BY <3>2, <3>3, <3>4, <4>1
      <4> QED
        BY <4>2
    <3>5. CASE ~Codeless(txt, k + 1, m)
      <4>1. PICK l \in k + 1 .. m : NextCode(CodesFrom(R(k), k + 1)) = CodesFrom(R(l), l + 1)
        BY <1>3, <3>3, <3>5, NextIsReplaced
      <4> HIDE DEF m, R
      <4>2. l \in 0 .. m /\ l >= n + 1
        BY <1>6, <3>3, <3>5, <4>1
      <4>3. g[n + 1] = CodesFrom(R(l), l + 1)
        BY <3>2, <3>3, <4>1
      <4>4. Reached(n + 1, l)
        BY <4>2, <4>3
      <4> QED
        BY <4>4
    <3> QED
      BY <3>4, <3>5
  <2> QED
    BY <1>8, <2>1
<1>11. PICK k : Reached(L, k)
  <2>1. L \in T /\ L <= L
    BY <1>6, <1>9, <1>10, Induction
  <2> QED
    BY <1>6, <1>8, <2>1
<1>12. Codeless(txt, k + 1, m)
  <2>1. CASE k >= L
    <3>1. k \in 0 .. m
      BY <1>11
    <3>2. \A j \in k + 1 .. m : FALSE
      <4> HIDE DEF m
      <4> QED
        BY <1>6, <1>7, <2>1, <3>1
    <3> QED
      BY <3>2 DEF Codeless
  <2>2. CASE ~(k >= L)
    BY <1>11, <2>2
  <2> QED
    BY <2>1, <2>2
<1>13. R(k) = txt
  BY <1>3, <1>11, <1>12, NoCodeIsLeft
<1>14. g[L].str = txt
  BY <1>11, <1>13 DEF CodesFrom
<1> QED
  BY <1>5, <1>14 DEF L, W

\* A text whose characters with a code have all been replaced by it is read as
\* that text, whatever the text: no code is read twice.
THEOREM HtmlAlwaysReadsBack == Spec => []HtmlReadsBack
<1> DEFINE OK == text \in Seq(Characters)
<1>1. Init => OK
  BY DEF Init, ConversionsInit
<1>2. OK /\ [Next]_vars => OK'
  <2> SUFFICES ASSUME OK, [Next]_vars PROVE OK'
    OBVIOUS
  <2>1. CASE Type
    <3>1. PICK c \in Characters : text' = Append(text, c)
      BY <2>1 DEF Type
    <3> QED
      BY <3>1, AppendProperties
  <2>2. CASE UNCHANGED text
    BY <2>2
  <2> QED
    BY <2>1, <2>2 DEF Next, UseDates, UseConversions, UseNames, UseEnvironment, UseEnumeration, UseChecks, UseTable, UsePipeline,
       MoreBytes, NextNumeral, MoveTime, conversions, vars
<1>3. OK => HtmlReadsBack
  <2> SUFFICES ASSUME OK PROVE HtmlReadsBack
    OBVIOUS
  <2> DEFINE S == Characters \cup CodeLetters
  <2>1. text \in Seq(S) /\ CodeLetters \subseteq S
    <3>1. Characters \subseteq S /\ CodeLetters \subseteq S
      OBVIOUS
    <3> HIDE DEF S
    <3> QED
      BY <3>1, SeqMonotonic
  <2> HIDE DEF S
  <2>2. Html2Ascii(FlattenSeq(Coded(text))) = text
    BY <2>1, CodesAreRead
  <2> QED
    BY <2>2 DEF HtmlReadsBack, Coded, HasCode, CodeOf
<1> QED
  BY <1>1, <1>2, <1>3, PTL DEF Spec

\* Each conversion agrees with its definition, whatever the data, the text, the
\* number and the times.
THEOREM ConversionsAlwaysAgree == Spec => []ConversionsAgree
BY Base64AlwaysReadsBack, NumeralsAlwaysHaveValue, TokensAlwaysBetween, HtmlAlwaysReadsBack, TimespecsAddUp,
   PTL DEF ConversionsAgree
=============================================================================

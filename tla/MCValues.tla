------------------------------ MODULE MCValues ------------------------------
(* Instances of Values for TLC.                                             *)
EXTENDS Values

MCAdditions == {0, 1, 59, 60, 719, 1439, 1440, 65535}

MCYears == {1899, 1900, 1999, 2000, 2023, 2024, 9999, 65535}

\* Ends of months and years, and texts that are no dates.
Dates == [year : {1900, 2000, 2023, 2024}, month : {1, 2, 5, 12}, day : {1, 28, 29, 30, 31}]
MCDateTexts == {Iso(d) : d \in Dates} \cup
    {<<2, 0, 0, 0, Other, Space, 9, Other, Plus, 9>>, <<2, 0, 0, 0, Minus, 0, 0, Minus, 0, 1>>,
     <<Minus, 9, 9, 9, Minus, 1, 1, Minus, 1, 1>>, <<2, 0, 0, 0, Minus, Other, 1, Minus, 1, 1>>}

MCMornings == {d \in [year : {1900, 2023, 2024}, month : {2, 5, 12}, day : {28, 29, 31}] : InCalendar(d)}

MCTimeCharacters == {0, 2, 4, 6, Colon}

MCBytes == {0, 1, 63, 64, 170, 255}
MCCharacters == {"&", ";", "<", " ", "a", "m", "p"}
MCIntervals == [sec : 0 .. 1, nsec : {0, Second \div 4, 3 * (Second \div 4)}]
MCMaxSeconds == 2

Arc(f, e, t) == [from |-> f, event |-> e, to |-> t]
MCArcs == {Arc(1, 1, 2), Arc(2, 2, 3), Arc(2, 1, 1), Arc(1, 2, 3)}

MCNumberText == <<"1", "2", "3">>

MCEntries == <<[name |-> "one", key |-> 1], [name |-> "two", key |-> 2]>>

\* Two names that differ in the ending only, one that is too short for it.
MCSuites == <<<<"A", "b", "C", "h", "e", "c", "k">>, <<"A", "c", "C", "h", "e", "c", "k">>,
              <<"A", "b">>, <<"B", "c", "h", "e", "c", "k">>>>
MCArguments == {<<"A", "b">>, <<"a", "B">>, <<"a">>, <<"A", "C">>, <<"B", "c", "h", "e", "c", "k">>}

Export(x, v) == [kind |-> "export", var |-> x, value |-> v]
Skipped == [kind |-> "skipped"]
TooShort == [kind |-> "too short"]
MCProfiles == {<<>>, <<Export("A", "p")>>, <<Skipped, Export("A", "p"), Export("A", "q"), Export("B", "p")>>,
               <<Export("B", "q"), TooShort, Export("A", "p")>>}

FileCharacters == {"d", "h", "q", "s", "r", "n", "F"}

\* Short files of all kinds, and some with two columns of one name.
MCGiven == BoundedSeq(FileCharacters, 4) \cup [1 .. 5 -> {"d", "q", "s", "n"}] \cup
    {<<"d", "s", "d", "n">> \o rest : rest \in {<<"d">>, <<"s", "d", "n">>, <<"q", "n", "q">>}} \cup
    {<<"d", "_", "0", "s", "d", "s", "d">> \o rest : rest \in {<<"n">>, <<"r", "n", "d">>}}
MCCellValues == {<<"x">>}

\* Nothing, data, a quote, and what ends fields, lines and files.
MCFields == {<<>>, <<"d">>, <<"q", "d">>, <<"s">>, <<"r">>, <<"h">>, <<"F">>}
=============================================================================

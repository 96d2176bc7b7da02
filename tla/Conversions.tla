---------------------------- MODULE Conversions ----------------------------
(***************************************************************************)
(* Conversions of data: src/hdr/bren/Base64.hpp, src/src/roman.cpp,        *)
(* src/src/Tokenize.cpp, src/src/functions.cpp, src/src/timespecops.cpp.   *)
(***************************************************************************)
EXTENDS Integers, Sequences, SequencesExt, FiniteSets

CONSTANTS
    Bytes,       \* bound: the bytes of the data
    MaxBytes,    \* bound: their number
    Characters,  \* bound: the characters of the text
    MaxText,     \* bound: their number
    MaxNumber,   \* bound: numerals up to here
    Intervals,   \* bound: times that are added and subtracted
    MaxSeconds   \* bound: seconds of the time

Second == 1000 * 1000 * 1000   \* in nanoseconds

ASSUME BytesAssumption == Bytes \subseteq 0 .. 255
ASSUME IntervalsAssumption == \A i \in Intervals :
    i = [sec |-> i.sec, nsec |-> i.nsec] /\ i.sec \in Int /\ i.nsec \in 0 .. Second - 1

VARIABLES
    bytes,       \* data to be encoded
    text,        \* a text to be taken apart, a sequence of characters
    number,      \* a number to be written in Roman numerals
    ts           \* a timespec

conversions == <<bytes, text, number, ts>>

ConversionsInit == bytes = <<>> /\ text = <<>> /\ number = 1 /\ ts = [sec |-> 0, nsec |-> 0]

-----------------------------------------------------------------------------
\* Base64.  A character is its value, or one of these.
Pad == 64
LineEnd == 65    \* carriage return, newline, backslash
Unknown == 66    \* anything else, the terminator included

EncodeGroup(a, b, c) == <<a \div 4, (a % 4) * 16 + b \div 16, (b % 16) * 4 + c \div 64, c % 64>>

\* Groups of four characters for three bytes each; what is missing is padded.
Encode(data) ==
    LET byte(i) == IF i <= Len(data) THEN data[i] ELSE 0
        group(n) == EncodeGroup(byte(3 * n + 1), byte(3 * n + 2), byte(3 * n + 3))
    IN  [i \in 1 .. 4 * ((Len(data) + 2) \div 3) |->
            IF 3 * (i - 1) >= 4 * Len(data) THEN Pad ELSE group((i - 1) \div 4)[((i - 1) % 4) + 1]]

\* The state of the loop: the bytes so far, the one that is built up, the
\* offset in the four characters; it ends at a padding or an error.
DecodeValue(st, v) ==
    CASE st.offset = 0 -> [st EXCEPT !.offset = 1, !.b = (v * 4) % 256]
      [] st.offset = 1 -> [st EXCEPT !.offset = 2, !.data = Append(@, st.b + v \div 16), !.b = (v * 16) % 256]
      [] st.offset = 2 -> [st EXCEPT !.offset = 3, !.data = Append(@, st.b + v \div 4), !.b = (v * 64) % 256]
      [] st.offset = 3 -> [st EXCEPT !.offset = 0, !.data = Append(@, st.b + v), !.b = 0]

DecodeStep(st, c) ==
    IF st.over \/ st.error \/ c = LineEnd THEN st
    ELSE IF c = Pad THEN [st EXCEPT !.over = st.offset > 1, !.error = st.offset <= 1]
    ELSE IF c = Unknown THEN [st EXCEPT !.error = TRUE]
    ELSE DecodeValue(st, c)

DecodeStart == [data |-> <<>>, b |-> 0, offset |-> 0, over |-> FALSE, error |-> FALSE]

Decode(str) ==
    LET decoded[i \in 0 .. Len(str)] == IF i = 0 THEN DecodeStart ELSE DecodeStep(decoded[i - 1], str[i])
    IN  decoded[Len(str)]

-----------------------------------------------------------------------------
\* Roman numerals, as the sequence of their values.
Ones == {1, 10, 100}

Subtracted(rem, i) == {j \in Ones : j < i /\ rem >= i - j}

RomanStep(st, i) ==
    LET full == [rem |-> st.rem % i, out |-> st.out \o [n \in 1 .. st.rem \div i |-> i]]
        less == Subtracted(full.rem, i)
        j == CHOOSE k \in less : \A l \in less : k <= l
    IN  IF less = {} THEN full ELSE [rem |-> full.rem - (i - j), out |-> full.out \o <<j, i>>]

Numerals == <<1000, 500, 100, 50, 10, 5, 1>>

ToRoman(num) ==
    LET written[n \in 0 .. 7] ==
            IF n = 0 THEN [rem |-> num, out |-> <<>>] ELSE RomanStep(written[n - 1], Numerals[n])
    IN  written[7].out

-----------------------------------------------------------------------------
\* Tokenize(): the positions of the first character that is no delimiter, and
\* of the next one that is, behind the end when there is none.
Find(str, set, from) == CHOOSE i \in from .. Len(str) + 1 :
    (i <= Len(str) => str[i] \in set) /\ \A j \in from .. i - 1 : str[j] \notin set

Token(str, lastPos, pos) == SubSeq(str, lastPos, pos - 1)

\* The loop: the tokens so far, and the delimiter behind the last one.
NextToken(str, delimiters, st) ==
    LET lastPos == Find(str, ToSet(str) \ delimiters, st.pos)
        pos == Find(str, delimiters, lastPos)
    IN  IF lastPos > Len(str) THEN st
        ELSE [tokens |-> Append(st.tokens, Token(str, lastPos, pos)), pos |-> pos]

Tokenize(str, delimiters) ==
    LET state[n \in 0 .. Len(str)] ==
            IF n = 0 THEN [tokens |-> <<>>, pos |-> 1] ELSE NextToken(str, delimiters, state[n - 1])
    IN  state[Len(str)].tokens

\* join(), with another separator before the last item if there is one.
Join(items, separator, lastsep) ==
    FlattenSeq([i \in 1 .. Len(items) |->
        IF i = 1 THEN items[1]
        ELSE (IF i = Len(items) /\ lastsep # <<>> THEN lastsep ELSE separator) \o items[i]])

\* hcerc2asc and htmlCharEntRefCodes2ascii(): what replaces a code is not
\* looked at again.
Codes == { <<<<"a", "m", "p">>, "&">>, <<<<"g", "t">>, ">">>, <<<<"l", "t">>, "<">>,
           <<<<"n", "b", "s", "p">>, " ">>, <<<<"p", "l", "u", "s">>, "+">>, <<<<"q", "u", "e", "s", "t">>, "?">> }
MaxCode == 5

\* Mutant: what replaces a code is looked at again.
Behind_Code(amp) == amp
Behind(amp) == amp + 1

\* The loop: the text, and where the next ampersand is looked for.
NextCode(st) ==
    LET amp == Find(st.str, {"&"}, st.amp)
        sc == Find(st.str, {";"}, amp)
        found == {p \in Codes : p[1] = SubSeq(st.str, amp + 1, sc - 1)}
    IN  IF sc > Len(st.str) THEN st
        ELSE IF sc - amp - 1 > MaxCode THEN [st EXCEPT !.amp = amp + 1]
        ELSE IF found = {} THEN [st EXCEPT !.amp = sc + 1]
        ELSE [str |-> SubSeq(st.str, 1, amp - 1) \o << (CHOOSE p \in found : TRUE)[2] >>
                          \o SubSeq(st.str, sc + 1, Len(st.str)),
              amp |-> Behind(amp)]

Html2Ascii(str) ==
    LET state[n \in 0 .. Len(str)] == IF n = 0 THEN [str |-> str, amp |-> 1] ELSE NextCode(state[n - 1])
    IN  state[Len(str)].str

-----------------------------------------------------------------------------
\* The operators of timespecs.
TsLess(a, b) == a.sec < b.sec \/ (a.sec = b.sec /\ a.nsec < b.nsec)
TsEq(a, b) == a.sec = b.sec /\ a.nsec = b.nsec
TsLessEq(a, b) == TsEq(a, b) \/ TsLess(a, b)

TsMinus(a, b) ==
    IF a.nsec < b.nsec THEN [sec |-> a.sec - b.sec - 1, nsec |-> a.nsec + Second - b.nsec]
                       ELSE [sec |-> a.sec - b.sec, nsec |-> a.nsec - b.nsec]

Carries(nsec) == nsec >= Second

TsPlus(a, b) ==
    LET nsec == a.nsec + b.nsec
    IN  IF Carries(nsec) THEN [sec |-> a.sec + b.sec + 1, nsec |-> nsec - Second]
                         ELSE [sec |-> a.sec + b.sec, nsec |-> nsec]

-----------------------------------------------------------------------------
MoreBytes ==
    /\ Len(bytes) < MaxBytes
    /\ bytes' \in {Append(bytes, b) : b \in Bytes}
    /\ UNCHANGED <<text, number, ts>>

Type ==
    /\ Len(text) < MaxText
    /\ text' \in {Append(text, c) : c \in Characters}
    /\ UNCHANGED <<bytes, number, ts>>

NextNumeral ==
    /\ number < MaxNumber
    /\ number' = number + 1
    /\ UNCHANGED <<bytes, text, ts>>

MoveTime ==
    /\ \E i \in Intervals : ts' \in {TsPlus(ts, i), TsMinus(ts, i)}
    /\ ts'.sec \in -MaxSeconds .. MaxSeconds
    /\ UNCHANGED <<bytes, text, number>>

-----------------------------------------------------------------------------
\* Data survives Base64, also when line ends or backslashes get between the
\* characters.
Base64ReadsBack ==
    LET str == Encode(bytes)
    IN  /\ Decode(str).data = bytes /\ ~Decode(str).error
        /\ \A i \in 1 .. Len(str) + 1 : Decode(InsertAt(str, i, LineEnd)).data = bytes

\* A numeral has the value of its number, when a smaller one before a larger
\* one is subtracted, and never four times the same in a row but thousands.
RomanHasValue ==
    LET out == ToRoman(number)
        signed(i) == IF i < Len(out) /\ out[i] < out[i + 1] THEN -out[i] ELSE out[i]
        value[i \in 0 .. Len(out)] == IF i = 0 THEN 0 ELSE value[i - 1] + signed(i)
    IN  /\ value[Len(out)] = number
        /\ \A i \in 1 .. Len(out) - 3 : out[i] = 1000 \/ Cardinality({out[j] : j \in i .. i + 3}) > 1

\* Tokens are what is between delimiters, in order, each as long as it can be,
\* and they are found again when they are joined.
Blanks == {" "}
Runs(str) == {r \in (1 .. Len(str)) \X (1 .. Len(str)) :
    /\ r[1] <= r[2] /\ \A i \in r[1] .. r[2] : str[i] \notin Blanks
    /\ r[1] > 1 => str[r[1] - 1] \in Blanks
    /\ r[2] < Len(str) => str[r[2] + 1] \in Blanks}
TokensAreBetween ==
    LET tokens == Tokenize(text, Blanks)
    IN  /\ Len(tokens) = Cardinality(Runs(text))
        /\ \A r \in Runs(text) :
               tokens[Cardinality({s \in Runs(text) : s[1] <= r[1]})] = SubSeq(text, r[1], r[2])
        /\ Tokenize(Join(tokens, <<" ">>, <<>>), Blanks) = tokens

\* A text in which all characters with a code have been replaced by it is read
\* as that text: no code is read twice.
HtmlReadsBack ==
    LET coded(c) == IF \E p \in Codes : p[2] = c
                    THEN <<"&">> \o (CHOOSE p \in Codes : p[2] = c)[1] \o <<";">> ELSE <<c>>
    IN  Html2Ascii(FlattenSeq([i \in 1 .. Len(text) |-> coded(text[i])])) = text

\* Sums and differences stay within the second, take each other back and keep
\* the order of times, as < and <= have it.
TimespecAddsUp ==
    /\ ts.nsec \in 0 .. Second - 1
    /\ \A i \in Intervals :
        /\ TsMinus(TsPlus(ts, i), i) = ts
        /\ \A j \in Intervals :
               /\ TsLess(i, j) <=> TsLess(TsPlus(ts, i), TsPlus(ts, j))
               /\ ~TsLess(j, i) <=> TsLessEq(TsPlus(ts, i), TsPlus(ts, j))

\* Each conversion agrees with its definition: what it makes is read back, or has
\* the value it stands for.
ConversionsAgree == Base64ReadsBack /\ RomanHasValue /\ TokensAreBetween /\ HtmlReadsBack /\ TimespecAddsUp
=============================================================================

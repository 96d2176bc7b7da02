----------------------------- MODULE CsvReader -----------------------------
(***************************************************************************)
(* The reader of CSV files, src/src/readCSV.cpp, which returns a Table.    *)
(*                                                                         *)
(* A file is a sequence of characters, of which the reader tells apart     *)
(*     s  separator     q  quote     r  carriage return     n  newline     *)
(*     h  a byte above 0x7F     F  the byte 0xFF, which is EOF in a char   *)
(* and everything else.  The state of the loop is a record; good is the    *)
(* state of the stream, which is over when the end of the file has been    *)
(* read, and also when peek() has seen it.                                 *)
(***************************************************************************)
EXTENDS Table

At(file, i) == IF i <= Len(file) THEN file[i] ELSE "end"

Start == [tab |-> NewTable, h |-> <<>>, heading |-> TRUE, quoted |-> FALSE, f |-> <<>>,
          col |-> 0, row |-> 0, last |-> "startOfRecord", pos |-> 1, good |-> TRUE, error |-> FALSE]

Refused(st) == [st EXCEPT !.error = TRUE]
Returned(st) == [st EXCEPT !.good = FALSE]

\* The loop goes on behind the n characters it has read.
Continue(file, st, n, peeked) ==
    [st EXCEPT !.pos = @ + n,
               !.good = st.pos <= Len(file) /\ ~(peeked /\ st.pos = Len(file))]

Push(st, str) == [st EXCEPT !.f = @ \o str, !.last = "fieldData"]

\* Mutant: the field is not cleared.
FieldReady_Kept(st) ==
    IF st.heading THEN [st EXCEPT !.h = Append(@, st.f)]
                  ELSE [st EXCEPT !.tab = SetCell(@, st.col, st.row, st.f)]

FieldReady(st) ==
    IF st.heading THEN [st EXCEPT !.h = Append(@, st.f), !.f = <<>>]
                  ELSE [st EXCEPT !.tab = SetCell(@, st.col, st.row, st.f), !.f = <<>>]

-----------------------------------------------------------------------------
InQuotes(file, st) ==
    LET c == At(file, st.pos)
        twice == At(file, st.pos + 1) = (IF c = "r" THEN "n" ELSE "q")
    IN  CASE c \in {"end", "F"} -> Refused(st)
          [] c = "r" -> IF twice THEN Continue(file, Push(st, <<"r", "n">>), 2, FALSE)
                                 ELSE Continue(file, Push(st, <<"r">>), 1, TRUE)
          [] c = "q" -> IF twice THEN Continue(file, Push(st, <<"q">>), 2, FALSE)
                        ELSE Continue(file, [st EXCEPT !.quoted = FALSE, !.last = "endQuote"], 1, TRUE)
          [] OTHER   -> Continue(file, Push(st, <<c>>), 1, FALSE)

\* The first record makes the columns and row 0.
FirstRow(tab, h) ==
    LET filled[c \in 0 .. Len(h)] ==
            IF c = 0 THEN SetColumns(tab, Len(h)) ELSE SetCell(filled[c - 1], c - 1, 0, h[c])
    IN  filled[Len(h)]

HeaderReady(st) ==
    IF Len(st.h) >= MaxColumns THEN Refused(st)
    ELSE [st EXCEPT !.tab = FirstRow(@, st.h), !.h = <<>>, !.row = 1, !.col = 0, !.heading = FALSE]

\* A record with too few fields is accepted: the test for one looks at the
\* field when it has been cleared.
NextRow(st) == IF st.row = Wide - 1 THEN Refused(st) ELSE [st EXCEPT !.row = @ + 1, !.col = 0]

EndOfRecord(file, st) ==
    LET crlf == At(file, st.pos) = "r" /\ At(file, st.pos + 1) = "n"
        n == IF crlf THEN 2 ELSE 1
        peeked == At(file, st.pos) = "r" /\ ~crlf
        ended == IF st.heading THEN HeaderReady(FieldReady(st)) ELSE NextRow(FieldReady(st))
    IN  IF st.last = "startOfRecord"
        THEN IF At(file, st.pos + n) # "end" THEN Refused(st) ELSE Returned(st)
        ELSE Continue(file, [ended EXCEPT !.last = "startOfRecord"], n, peeked)

Quote(file, st) ==
    CASE st.last = "fieldData" -> Continue(file, Push(st, <<"q">>), 1, FALSE)
      [] st.last = "endQuote"  -> Refused(st)
      [] OTHER -> Continue(file, [st EXCEPT !.quoted = TRUE, !.f = <<>>], 1, FALSE)

Separator(file, st) ==
    LET ready == [FieldReady(st) EXCEPT !.last = "separator"]
    IN  IF st.heading THEN Continue(file, ready, 1, FALSE)
        ELSE IF st.col + 1 >= st.tab.cols THEN Refused(ready)
        ELSE Continue(file, [ready EXCEPT !.col = @ + 1], 1, FALSE)

Step(file, st) ==
    LET c == At(file, st.pos)
    IN  CASE st.heading /\ st.last = "startOfRecord" /\ c = "h" -> Continue(file, st, 1, FALSE)
          [] OTHER ->
             CASE st.quoted -> InQuotes(file, st)
               [] ~st.quoted /\ c \in {"r", "n", "end", "F"} -> EndOfRecord(file, st)
               [] ~st.quoted /\ c = "q" -> Quote(file, st)
               [] ~st.quoted /\ c = "s" -> Separator(file, st)
               [] OTHER -> Continue(file, Push(st, <<c>>), 1, FALSE)

\* Every step reads one character or two, or the end.
NextState(file, st) == IF st.good /\ ~st.error THEN Step(file, st) ELSE st

ReadCSV(file) ==
    LET read[i \in 0 .. Len(file) + 1] == IF i = 0 THEN Start ELSE NextState(file, read[i - 1])
    IN  read[Len(file) + 1]
=============================================================================

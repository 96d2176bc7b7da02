------------------------------- MODULE Table -------------------------------
(***************************************************************************)
(* The tables of src/hdr/bren/Table.hpp and the table whose first row has  *)
(* the names of the columns, src/src/HeaderedTable.cpp.                    *)
(*                                                                         *)
(* A table is a record: cols_, the vector data_ of the cells row by row,   *)
(* and hdrs_, a function from the names to their columns, empty until it   *)
(* is read.  A cell is a sequence of characters.  Columns and rows count   *)
(* from 0, and the arithmetic of rows has the width of the code.           *)
(***************************************************************************)
EXTENDS Naturals, Sequences, SequencesExt, TLC

CONSTANTS
    Wide,       \* one more than the largest uint32_t
    MaxColumns  \* the largest uint16_t

ASSUME WidthAssumption == Wide \in Nat \ {0} /\ MaxColumns \in 1 .. Wide - 1

\* Two numbers are written as two texts.
ASSUME NumeralsAssumption == \A a, b \in 0 .. MaxColumns - 1 :
    ToString(a) \in STRING /\ (ToString(a) = ToString(b) => a = b)

NewTable == [cols |-> 0, data |-> <<>>, hdrs |-> <<>>]

RowCount(t) == IF t.cols = 0 THEN 0 ELSE Len(t.data) \div t.cols

SetColumns(t, n) == [t EXCEPT !.cols = n]

\* Mutant: the index is by columns.
Index_Swapped(t, c, r) == (c * RowCount(t) + r) % Wide

\* rows(n): the vector is resized.
SetRows(t, n) ==
    [t EXCEPT !.data = [i \in 1 .. (t.cols * n) % Wide |-> IF i <= Len(@) THEN @[i] ELSE <<>>]]

Index(t, c, r) == (r * t.cols + c) % Wide

\* cell(): rows are added when there are too few.  The index may still be
\* outside of the vector, which throws.
Grown(t, r) == IF r >= RowCount(t) THEN SetRows(t, (r + 1) % Wide) ELSE t

Reaches(t, c, r) == c < t.cols /\ Index(t, c, r) < Len(t.data)

CellAt(t, c, r) == t.data[Index(t, c, r) + 1]

SetCell(t, c, r, v) ==
    LET g == Grown(t, r)
    IN  IF Reaches(g, c, r) THEN [g EXCEPT !.data[Index(g, c, r) + 1] = v] ELSE g

RowsOf(t) ==
    [r \in 1 .. RowCount(t) |-> [c \in 1 .. t.cols |-> CellAt(t, c - 1, r - 1)]]

-----------------------------------------------------------------------------
\* A table with headers.
ColumnNames(t) == {CellAt(t, c, 0) : c \in 0 .. t.cols - 1}

\* Mutant: the new name is not compared with the others.
Unique_Blindly(t, name) == name \o <<"_", "0">>

\* A name with a number, the first one that no column has.
Unique(t, name) ==
    LET numbered(a) == name \o <<"_", ToString(a)>>
        free == {a \in 0 .. MaxColumns - 1 : numbered(a) \notin ColumnNames(t)}
    IN  numbered(CHOOSE a \in free : \A b \in free : a <= b)

\* makeHeadersUnique_(): the later one of two columns with one name gets
\* another name.
Rename(t, c, d) ==
    IF c < d /\ CellAt(t, c, 0) = CellAt(t, d, 0) THEN SetCell(t, d, 0, Unique(t, CellAt(t, d, 0))) ELSE t

MakeHeadersUnique(t) ==
    LET renamed[n \in 0 .. t.cols * t.cols] ==
            IF n = 0 THEN t ELSE Rename(renamed[n - 1], (n - 1) \div t.cols, (n - 1) % t.cols)
    IN  renamed[t.cols * t.cols]

\* readHeaders_(): an empty name is refused, when the others have been changed.
ReadHeaders(t) ==
    LET u == MakeHeadersUnique(t)
    IN  IF <<>> \in ColumnNames(u) THEN [u EXCEPT !.hdrs = <<>>]
        ELSE [u EXCEPT !.hdrs =
                 [n \in ColumnNames(u) |-> CHOOSE c \in 0 .. u.cols - 1 : CellAt(u, c, 0) = n]]

\* cell(name, r), which reads the headers when it has none; what it finds is
\* the cell of a column, if the name is known.
WithHeaders(t) == IF t.hdrs = <<>> THEN ReadHeaders(t) ELSE t

SetNamed(t, name, r, v) ==
    LET u == WithHeaders(t)
    IN  IF name \in DOMAIN u.hdrs THEN SetCell(u, u.hdrs[name], r, v) ELSE u
=============================================================================

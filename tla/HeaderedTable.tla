--------------------------- MODULE HeaderedTable ---------------------------
(***************************************************************************)
(* The use of a table with headers, src/hdr/bren/HeaderedTable.hpp: it is  *)
(* made from a file that is read, and its cells are set by the number or   *)
(* by the name of their column, and its rows by their number.              *)
(***************************************************************************)
EXTENDS CsvReader, FiniteSets

CONSTANTS
    Given,       \* bound: the files
    CellValues,  \* bound: what cells are set to
    MaxUses      \* bound: calls that change the table

\* The end is no character of a file, and files are so short that the width of
\* the code holds the number of their cells; a cell takes a character of a line,
\* or of the first one.
ASSUME GivenAssumption ==
    \A f \in Given : f \in Seq(STRING \ {"end"}) /\ (Len(f) + 1) * (Len(f) + 1) < Wide
ASSUME ValuesAssumption == CellValues \subseteq Seq(STRING)

VARIABLES
    source,    \* the file
    reader,    \* the state of the reader at its end, or before it starts
    table,     \* the headered table
    want,      \* history: the rows the user expects behind the header
    fresh,     \* history: row 0 is as it was when the headers were read
    uses       \* the number of calls so far

tabling == <<source, reader, table, want, fresh, uses>>

TableInit ==
    /\ source = <<>> /\ reader = Start /\ table = NewTable
    /\ want = <<>> /\ fresh = TRUE /\ uses = 0

\* Before a file has been read.
Unread == reader = Start

ReadGiven ==
    /\ Unread
    /\ source' \in Given
    /\ reader' = ReadCSV(source')
    /\ table' = reader'.tab
    /\ want' = IF RowCount(table') = 0 THEN <<>> ELSE Tail(RowsOf(table'))
    /\ UNCHANGED <<fresh, uses>>

-----------------------------------------------------------------------------
\* A row that is set to v in column c, with rows in between if there are none;
\* a table of n rows, row 0 included.
EmptyRow == [c \in 1 .. table.cols |-> <<>>]
Sized(n) == [r \in 1 .. n |-> IF r <= Len(want) THEN want[r] ELSE EmptyRow]
Expect(c, r, v) ==
    LET rows == IF r > Len(want) THEN Sized(r) ELSE want
    IN  [rows EXCEPT ![r][c + 1] = v]

Using == ~Unread /\ ~reader.error /\ table.cols > 0 /\ uses < MaxUses
CellSet(c, r, v) ==
    /\ want' = IF r = 0 THEN want ELSE Expect(c, r, v)
    /\ fresh' = (fresh /\ (r = 0 => table'.hdrs = <<>>))

\* Rows up to the next one: what is beyond of the width is not asked for here.
UseCell == \E c \in 0 .. table.cols - 1, r \in 0 .. RowCount(table), v \in CellValues :
    /\ Using /\ (r + 1) * table.cols < Wide
    /\ table' = SetCell(table, c, r, v)
    /\ CellSet(c, r, v)
    /\ uses' = uses + 1
    /\ UNCHANGED <<source, reader>>

\* The names that the columns have, and those they had when they were read.  An
\* unknown name, or a table without a header, is refused.
KnownNames ==
    IF RowCount(table) = 0 THEN {}
    ELSE (ColumnNames(MakeHeadersUnique(table)) \ {<<>>}) \cup DOMAIN table.hdrs

UseNamed == \E name \in KnownNames, r \in 0 .. RowCount(table), v \in CellValues :
    /\ Using /\ (r + 1) * table.cols < Wide
    /\ table' = SetNamed(table, name, r, v)
    /\ IF name \in DOMAIN table'.hdrs THEN CellSet(table'.hdrs[name], r, v) ELSE UNCHANGED <<want, fresh>>
    /\ uses' = uses + 1
    /\ UNCHANGED <<source, reader>>

UseRows == \E n \in 0 .. RowCount(table) + 1 :
    /\ Using /\ n * table.cols < Wide
    /\ table' = SetRows(table, n)
    /\ want' = IF n = 0 THEN <<>> ELSE Sized(n - 1)
    /\ fresh' = (fresh /\ n > 0)
    /\ uses' = uses + 1
    /\ UNCHANGED <<source, reader>>

TableNext == ReadGiven \/ UseCell \/ UseNamed \/ UseRows

-----------------------------------------------------------------------------
\* Whatever the file, with a newline at its end: what the reader accepts has
\* all of its data, neither lost nor doubled.
DataIn(str) == {i \in 1 .. Len(str) : str[i] = "d"}
DataOf(t) ==
    UNION {{<<c, r, i>> : i \in DataIn(CellAt(t, c, r))} : c \in 0 .. t.cols - 1, r \in 0 .. RowCount(t) - 1}
DataIsKept ==
    ~reader.error /\ source # <<>> /\ Last(source) = "n" =>
        Cardinality(DataOf(reader.tab)) = Cardinality(DataIn(source))

\* A cell keeps what was last put into it, however it was addressed and the
\* table was resized.
CellsAreKept == ~reader.error /\ RowCount(table) > 0 => Tail(RowsOf(table)) = want

\* As long as row 0 is as it was when the names were read, each name leads to
\* the column that has it, and there is one for each column.
NamesLeadToColumns ==
    fresh /\ table.hdrs # <<>> =>
        /\ Cardinality(DOMAIN table.hdrs) = table.cols
        /\ \A n \in DOMAIN table.hdrs : CellAt(table, table.hdrs[n], 0) = n
=============================================================================

----------------------------- MODULE CsvWriter -----------------------------
(***************************************************************************)
(* The writer of CSV files, src/src/CsvWriter.cpp.                         *)
(*                                                                         *)
(* What it has written is a record: column_, columns_, lines_ and the file *)
(* itself; rows is the history of the fields in it, row by row, the last   *)
(* one unfinished.  Characters are the ones of CsvReader; F occurs in no   *)
(* valid UTF-8.  A call that is refused changes nothing, except that       *)
(* fields() and headers() write the fields before one that is refused.     *)
(***************************************************************************)
EXTENDS CsvReader

CONSTANTS
    Fields,      \* bound: what is written
    MaxWritten   \* bound: fields of a file

VARIABLES
    settings,    \* settings_
    connected,   \* out_ is not null
    output       \* what has been written

writer == <<settings, connected, output>>

Settings == [carriageReturn : BOOLEAN, forceHeader : BOOLEAN, quoting : {"never", "always", "needed"}]

Nothing == [column |-> 0, columns |-> 0, lines |-> 0, file |-> <<>>, rows |-> << <<>> >>, refused |-> FALSE]

WriterInit == settings \in Settings /\ connected = FALSE /\ output = Nothing

-----------------------------------------------------------------------------
Has(f, bad) == ToSet(f) \cap bad # {}

DoubleQuote(f) == FlattenSeq([i \in 1 .. Len(f) |-> IF f[i] = "q" THEN <<"q", "q">> ELSE <<f[i]>>])

Acceptable(f) == ~Has(f, {"F"}) /\ (settings.quoting = "never" => ~Has(f, {"r", "n", "s"}))

\* Mutant: carriage returns need no quotes around them.
NeedsQuotes_NotReturns(f) == settings.quoting = "always" \/ Has(f, {"n", "s", "q"})

NeedsQuotes(f) == settings.quoting = "always" \/ (settings.quoting = "needed" /\ Has(f, {"r", "n", "s", "q"}))

ToPrint(f) ==
    LET doubled == IF settings.quoting = "never" THEN f ELSE DoubleQuote(f)
    IN  IF NeedsQuotes(f) THEN <<"q">> \o doubled \o <<"q">> ELSE doubled

EndLine(v) ==
    [v EXCEPT !.columns = IF @ = 0 THEN v.column ELSE @,
              !.column = 0, !.lines = @ + 1, !.rows = Append(@, <<>>),
              !.file = @ \o IF settings.carriageReturn THEN <<"r", "n">> ELSE <<"n">>]

RowFull(v) == v.columns # 0 /\ v.column = v.columns

\* quotedField_()
Put(v, f) ==
    LET put == [v EXCEPT !.file = @ \o (IF v.column > 0 THEN <<"s">> ELSE <<>>) \o ToPrint(f),
                         !.column = @ + 1,
                         !.rows[Len(v.rows)] = Append(@, f)]
    IN  IF v.refused \/ ~Acceptable(f) THEN [v EXCEPT !.refused = TRUE]
        ELSE IF RowFull(put) THEN EndLine(put) ELSE put

-----------------------------------------------------------------------------
\* destination(): it may only be set once.
Destination ==
    /\ ~connected /\ connected' = TRUE
    /\ UNCHANGED <<settings, output>>

\* writeFields_(): fields that the row has room for.
WriteFields(fs) ==
    /\ connected /\ Len(FlattenSeq(output.rows)) + Len(fs) <= MaxWritten
    /\ output.columns # 0 => output.column + Len(fs) <= output.columns
    /\ output' = [FoldLeft(Put, output, fs) EXCEPT !.refused = FALSE]
    /\ UNCHANGED <<settings, connected>>

Field(f) == (settings.forceHeader => output.lines > 0) /\ WriteFields(<<f>>)
FieldsCall(fs) == (settings.forceHeader => output.lines > 0) /\ WriteFields(fs)
Header(f) == output.lines = 0 /\ WriteFields(<<f>>)
Headers(fs) == output.lines = 0 /\ WriteFields(fs)

\* endRow() while the columns are not known: afterwards rows end by themselves,
\* and it does nothing, or refuses to.  A row without fields leaves them unknown.
EndRow ==
    /\ connected /\ output.columns = 0 /\ output.lines < MaxWritten
    /\ output' = EndLine(output)
    /\ UNCHANGED <<settings, connected>>

Write ==
    \/ Destination \/ EndRow
    \/ \E f \in Fields : Field(f) \/ Header(f)
    \/ \E f, g \in Fields : FieldsCall(<<f, g>>) \/ Headers(<<f, g>>)
=============================================================================

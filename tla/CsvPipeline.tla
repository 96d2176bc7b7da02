---------------------------- MODULE CsvPipeline ----------------------------
(***************************************************************************)
(* What the writer has made is read, whether the writer has come to the    *)
(* end of a row or not.                                                    *)
(***************************************************************************)
EXTENDS CsvWriter

VARIABLES
    phase,     \* "write" or "read"
    read       \* the state of the reader at its end

pipeline == <<writer, phase, read>>

PipelineInit == WriterInit /\ phase = "write" /\ read = Start

WriteSome == phase = "write" /\ Write /\ UNCHANGED <<phase, read>>

Read ==
    /\ phase = "write" /\ phase' = "read"
    /\ read' = ReadCSV(output.file)
    /\ UNCHANGED writer

PipelineNext == WriteSome \/ Read

-----------------------------------------------------------------------------
\* The reader drops the bytes above 0x7F at the beginning of the file, also in
\* quotes.
Stripped(f) ==
    LET kept == {i \in 1 .. Len(f) : f[i] # "h"}
    IN  IF kept = {} THEN <<>> ELSE SubSeq(f, CHOOSE i \in kept : \A j \in kept : i <= j, Len(f))

AsRead(i) ==
    IF i = 1 /\ output.rows[1] # <<>> THEN [output.rows[1] EXCEPT ![1] = Stripped(@)] ELSE output.rows[i]

\* Two things the writer lets its user write that the reader does not read: an
\* empty line, and without quoting a field that begins with a quote.
NoBlankLine == \A i \in 1 .. output.lines :
    AsRead(i) # <<>> /\ (settings.quoting # "always" => AsRead(i) # << <<>> >>)
NoOpenQuote == settings.quoting = "never" =>
    \A i \in 1 .. Len(output.rows) : \A c \in 1 .. Len(AsRead(i)) : ~IsPrefix(<<"q">>, AsRead(i)[c])

\* With these exceptions the rows the writer has completed are read as they
\* were given to it, in every quoting, also when it has not come to the end of
\* the next one; and nothing else is read from a file that is complete.
RowsAreReadAsWritten ==
    phase = "read" /\ NoBlankLine /\ NoOpenQuote =>
        /\ ~read.error
        /\ RowCount(read.tab) - output.lines \in (IF output.column = 0 THEN {0} ELSE {0, 1})
        /\ \A i \in 1 .. output.lines : RowsOf(read.tab)[i] = AsRead(i)
=============================================================================

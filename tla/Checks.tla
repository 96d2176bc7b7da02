------------------------------- MODULE Checks -------------------------------
(***************************************************************************)
(* The selection of unit checks, src/src/runchecks.cpp.  The names of the  *)
(* suites and the filters are sequences of characters.                     *)
(***************************************************************************)
EXTENDS Naturals, Sequences, SequencesExt, FiniteSets, TLC

CONSTANTS
    Suites,     \* names, in the order of the registry
    Arguments,  \* bound: what may be typed as a filter
    MaxFilters  \* bound: how many filters are typed

ASSUME SuitesAssumption == Suites \in Seq(Seq(STRING)) /\ Arguments \subseteq Seq(STRING)

VARIABLES
    filters,    \* filters
    added       \* how often each suite is run; empty before

checks == <<filters, added>>

ChecksInit == filters = <<>> /\ added = <<>>

LowerOf == "A" :> "a" @@ "B" :> "b" @@ "C" :> "c"
Lowered(s) == [i \in 1 .. Len(s) |-> IF s[i] \in DOMAIN LowerOf THEN LowerOf[s[i]] ELSE s[i]]

\* The map of tests: a name without "Check" at its end, if there is enough
\* before it, leads to the last suite that has it.
Ending == <<"c", "h", "e", "c", "k">>
Sanitized(name) ==
    IF Len(name) >= 7 /\ IsSuffix(Ending, Lowered(name)) THEN SubSeq(name, 1, Len(name) - 5) ELSE name

Listed == {Sanitized(Suites[s]) : s \in DOMAIN Suites}
TestOf(name) == CHOOSE s \in DOMAIN Suites :
    Sanitized(Suites[s]) = name /\ \A u \in DOMAIN Suites : u > s => Sanitized(Suites[u]) # name

Matches(f, name) == \E i \in 0 .. Len(name) : IsPrefix(Lowered(f), SubSeq(Lowered(name), i + 1, Len(name)))

\* A suite is added once for each filter in its name.
Times(s) == Cardinality({i \in DOMAIN filters :
    s = TestOf(Sanitized(Suites[s])) /\ Matches(filters[i], Sanitized(Suites[s]))})

AddFilter == \E f \in Arguments :
    /\ added = <<>> /\ Len(filters) < MaxFilters
    /\ filters' = Append(filters, f)
    /\ UNCHANGED added

RunChecks ==
    /\ added = <<>>
    /\ added' = [s \in DOMAIN Suites |-> IF filters = <<>> THEN 1 ELSE Times(s)]
    /\ UNCHANGED filters

ChecksNext == AddFilter \/ RunChecks

\* What is listed can be run: a filter that is a listed name, in small letters
\* or capitals, runs its suite; and a suite is run at most once for each filter.
ListedIsFound == added # <<>> => \A name \in Listed : \A i \in DOMAIN filters :
    Lowered(filters[i]) = Lowered(name) => added[TestOf(name)] \in 1 .. Len(filters)
=============================================================================

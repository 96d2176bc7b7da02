------------------------------- MODULE Values -------------------------------
(***************************************************************************)
(* The parts of the library that hold or convert values, each one by       *)
(* itself: a behaviour uses one of them.                                   *)
(***************************************************************************)
EXTENDS NaiveDate, Conversions, Names, Environment, CoolEnum, Checks, HeaderedTable,
    CsvPipeline

CONSTANTS
    TimeCharacters,  \* bound: what a time is typed with
    MaxTyped         \* bound: how long it may be

ASSUME CharactersAssumption == TimeCharacters \subseteq 0 .. 14

VARIABLES
    part,    \* what is used
    typed    \* a text that a time is assigned from

dates == <<date, time, typed>>
vars == <<part, dates, conversions, naming, environment, cool, checks, tabling, pipeline>>

Parts == {"date", "time", "typed time", "bytes", "text", "number", "timespec", "names", "environment",
          "enumeration", "checks", "table", "pipeline"}

Init ==
    /\ part \in Parts /\ typed = <<>>
    /\ DateInit /\ TimeInit /\ ConversionsInit /\ NamesInit /\ EnvironmentInit
    /\ CoolInit /\ ChecksInit /\ TableInit /\ PipelineInit
    \* bound: other parts do not look at the settings of the writer
    /\ part # "pipeline" => settings = [carriageReturn |-> FALSE, forceHeader |-> FALSE, quoting |-> "needed"]

TypeTime ==
    /\ Len(typed) < MaxTyped
    /\ typed' \in {Append(typed, c) : c \in TimeCharacters}
    /\ UNCHANGED <<date, time>>

AssignTyped == AssignText(typed) /\ typed' = <<>> /\ UNCHANGED date

UseDates ==
    /\ \/ part = "date" /\ DateNext /\ UNCHANGED <<time, typed>>
       \/ part = "time" /\ TimeNext /\ UNCHANGED <<date, typed>>
       \/ part = "typed time" /\ time = UnsetTime /\ (TypeTime \/ AssignTyped)
    /\ UNCHANGED <<part, conversions, naming, environment, cool, checks, tabling, pipeline>>

UseConversions ==
    /\ \/ part = "bytes" /\ MoreBytes
       \/ part = "text" /\ Type
       \/ part = "number" /\ NextNumeral
       \/ part = "timespec" /\ MoveTime
    /\ UNCHANGED <<part, dates, naming, environment, cool, checks, tabling, pipeline>>

UseNames ==
    /\ part = "names" /\ NamesNext
    /\ UNCHANGED <<part, dates, conversions, environment, cool, checks, tabling, pipeline>>

UseEnvironment ==
    /\ part = "environment" /\ EnvironmentNext
    /\ UNCHANGED <<part, dates, conversions, naming, cool, checks, tabling, pipeline>>

UseEnumeration ==
    /\ part = "enumeration" /\ CoolNext
    /\ UNCHANGED <<part, dates, conversions, naming, environment, checks, tabling, pipeline>>

UseChecks ==
    /\ part = "checks" /\ ChecksNext
    /\ UNCHANGED <<part, dates, conversions, naming, environment, cool, tabling, pipeline>>

UseTable ==
    /\ part = "table" /\ TableNext
    /\ UNCHANGED <<part, dates, conversions, naming, environment, cool, checks, pipeline>>

UsePipeline ==
    /\ part = "pipeline" /\ PipelineNext
    /\ UNCHANGED <<part, dates, conversions, naming, environment, cool, checks, tabling>>

Next ==
    \/ UseDates \/ UseConversions \/ UseNames \/ UseEnvironment
    \/ UseEnumeration \/ UseChecks \/ UseTable \/ UsePipeline

Spec == Init /\ [][Next]_vars

\* What a time may be typed as, by src/hdr/bren/NaiveTime.hpp:102: one or two
\* digits for the hour and for the minute.  The documented texts are accepted
\* and nothing else.
Forms(top) == {<<n \div 10, n % 10>> : n \in 0 .. top} \cup {<<n>> : n \in 0 .. 9}
DocumentedTimes == UNION {{s \o <<Colon>> \o u : u \in Forms(59)} : s \in Forms(23)}
AssignsDocumented ==
    (\E i \in 1 .. Len(typed) : TextOfTime(typed, i)) <=> typed \in DocumentedTimes

\* Times are those of a day: sums, order, and the texts that are one.
TimesAgree == TimeTypeOK /\ AdditionsAddUp /\ TimesInOrder /\ TimeReadsBack /\ AssignsDocumented

\* What is listed under a name is found by it: the entries of an enumeration,
\* and the suites of checks.
NamesFind == LookupsAnswer /\ ListedIsFound
=============================================================================

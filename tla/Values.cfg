\* Each part that holds or converts values by itself.  Numbers, texts, data and
\* files grow to their bounds.
SPECIFICATION Spec
CONSTANTS
    Additions <- MCAdditions
    Years <- MCYears
    DateTexts <- MCDateTexts
    Mornings <- MCMornings
    TimeCharacters <- MCTimeCharacters
    MaxTyped = 6
    Bytes <- MCBytes
    MaxBytes = 4
    Characters <- MCCharacters
    MaxText = 4
    MaxNumber = 1999
    Intervals <- MCIntervals
    MaxSeconds <- MCMaxSeconds
    StateKeys = {1, 2, 3}
    EventKeys = {1, 2}
    Scopes = {"", "Job::"}
    NoScope = ""
    ShortNames = {"a", "b", "2"}
    NumberText <- MCNumberText
    GraphArcs <- MCArcs
    EnvVars = {"A", "B"}
    EnvValues = {"v", "w"}
    Profiles <- MCProfiles
    Seekers = {t1, t2}
    Entries <- MCEntries
    Suites <- MCSuites
    Arguments <- MCArguments
    MaxFilters = 2
    Wide = 128
    MaxColumns = 5
    Given <- MCGiven
    CellValues <- MCCellValues
    MaxUses = 2
    Fields <- MCFields
    MaxWritten = 4
INVARIANTS
    TimesAgree DatesAgree ConversionsAgree ArcsLookDifferent OwnVariablesWin NamesFind
    DataIsKept CellsAreKept NamesLeadToColumns RowsAreReadAsWritten
PROPERTY ParsedIsDate
CHECK_DEADLOCK FALSE

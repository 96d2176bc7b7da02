\* Two threads: one runs in every way with every fault, one captures.
SPECIFICATION FairSpec
CONSTANTS
    a = a
    b = b
    Threads = {a, b}
    Modes <- MCModes
    Parent = Parent
    Codes = {0, 1}
    text = text
    Chunks = {text, nul}
    Nul = nul
    Outputs <- MCOutputs
    Capacity = 1
    Faults <- MCFaults
    Threw = Threw
INVARIANTS NothingLeft StatusIsOwn OutputComplete
PROPERTY RunsEnd
CHECK_DEADLOCK FALSE

\* Three threads log and switch among two streams and the log of the system.
SPECIFICATION Spec
CONSTANTS
    NoProcess = NoProcess
    None = None
    Threads = {t1, t2, t3}
    Streams = {s1, s2}
    Levels = {2, 3, 7}
INVARIANTS OneTarget EntriesArrive
SYMMETRY Symmetry
CHECK_DEADLOCK FALSE

\* One caller who waits for every event, and an observer that does not throw.
SPECIFICATION Spec
CONSTANTS
    Callers = {u1}
    Workers = {}
    Modes <- SyncOnly
    States <- MCStates
    Start = "new"
    End = "done"
    ArcSet <- JobArcs
    NoArc = NoArc
    Observers = {o1}
    Throwers = {}
INVARIANT WantedIsTold
CHECK_DEADLOCK FALSE

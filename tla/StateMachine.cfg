\* A caller who waits or not and two detached threads: up to three events
\* overlap in every way, and the observer may throw.  The system may stop: that
\* may end the process, and nothing leaves the end state.
SPECIFICATION FairSpec
CONSTANTS
    Callers = {u1}
    Workers = {w1, w2}
    Modes <- BothModes
    States <- MCStates
    Start = "new"
    End = "done"
    ArcSet <- WorkArcs
    NoArc = NoArc
    Observers = {o1}
    Throwers = {o1}
INVARIANTS TypeOK ObserversCurrent ReleasedAtEnd HandlerAlive
PROPERTIES HandlingEnds ArcSpec
CHECK_DEADLOCK FALSE

\* Overlapping events around the end state.
SPECIFICATION FairSpec
CONSTANTS
    Callers = {u1}
    Workers = {w1, w2}
    Modes <- BothModes
    States <- MCStates
    Start = "new"
    End = "done"
    ArcSet <- JobArcs
    NoArc = NoArc
    Observers = {o1}
    Throwers = {}
PROPERTY EndIsFinal
CHECK_DEADLOCK FALSE

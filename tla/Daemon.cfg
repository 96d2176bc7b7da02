\* main(), a thread of the application and two threads of the wrapper.  The
\* system may stop: main() has returned and a handler waits for the instance.
SPECIFICATION FairSpec
CONSTANTS
    NoProcess = NoProcess
    Main = main
    Callers = {main, app}
    Workers = {w1, w2}
    MaxPosted = 2
INVARIANTS AllJoinable GuardAsWished
PROPERTY StopEnds
CHECK_DEADLOCK FALSE

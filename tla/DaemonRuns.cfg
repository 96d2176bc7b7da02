\* main() alone.
SPECIFICATION FairSpec
CONSTANTS
    NoProcess = NoProcess
    Main = main
    Callers = {main}
    Workers = {}
    MaxPosted = 1
PROPERTY BlocksUntilIdle
CHECK_DEADLOCK FALSE

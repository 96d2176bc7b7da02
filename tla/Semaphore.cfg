\* Three threads and a counter of four values: enough for a waiter, a thief and
\* a giver, and for a wrap-around.  The system may stop: all calls done.
SPECIFICATION FairSpec
CONSTANTS
    Threads = {t1, t2, t3}
    NoThread = NoThread
    CounterMod <- MCCounterMod
    Count0 = 1
    MaxGiven = 4
INVARIANTS TypeOK NoLostWakeup NoTokenFromNothing
PROPERTY WaiterServed
CHECK_DEADLOCK FALSE

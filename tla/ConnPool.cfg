\* Three threads compete for the connections of one string.  The system may
\* stop: the pool destroyed and every handle dropped.
SPECIFICATION FairSpec
CONSTANTS
    Threads <- ThreeThreads
    Params = {p1}
    AllParams = AllParams
    Conns = {c1, c2}
    NoConn = NoConn
    NoThread = NoThread
INVARIANTS TypeOK Exclusive NoEmptyPool
PROPERTIES PurgeClosesIdle CallsEnd LeaseSpec
CHECK_DEADLOCK FALSE

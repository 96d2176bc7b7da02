\* One thread sets and adds and removes, the other one adds and removes; one
\* observer may throw.
SPECIFICATION FairSpec
CONSTANTS
    Threads = {t1, t2}
    Setters = {t1}
    Observers = {o1, o2, o3}
    Throwers = {o1}
    Values <- Two
    NoObserver = NoObserver
INVARIANTS CalledOnce FreshOrDue
PROPERTY SetsReturn

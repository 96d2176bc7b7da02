------------------------------ MODULE ConnLease ------------------------------
(***************************************************************************)
(* What a connection pool promises: a connection is leased to at most one  *)
(* thread at a time, and only an unleased connection is closed or leased   *)
(* to another thread.  ConnPool implements this specification.             *)
(***************************************************************************)
CONSTANTS
    Threads,      \* who leases
    Conns,        \* what is leased
    Free, Closed  \* not threads: a connection without a lease

VARIABLES
    holder,   \* the thread each connection is leased to, or Free or Closed
    open      \* the pool exists

Init ==
    /\ holder = [c \in Conns |-> Closed]
    /\ open = TRUE

\* A thread gets a connection: a new one, or one that nobody uses.
Lease(t, c) ==
    /\ open
    /\ holder[c] \in {Free, Closed}
    /\ holder' = [holder EXCEPT ![c] = t]
    /\ UNCHANGED open

\* The thread drops its last handle: the pool keeps the connection, if it exists.
Return(c) ==
    /\ holder[c] \in Threads
    /\ holder' = [holder EXCEPT ![c] = IF open THEN Free ELSE Closed]
    /\ UNCHANGED open

\* The pool closes connections that nobody uses.
Close(idle) ==
    /\ \A c \in idle : holder[c] = Free
    /\ holder' = [c \in Conns |-> IF c \in idle THEN Closed ELSE holder[c]]
    /\ UNCHANGED open

\* The pool goes away, and with it all it still keeps.
Shutdown ==
    /\ open
    /\ open' = FALSE
    /\ holder' = [c \in Conns |-> IF holder[c] = Free THEN Closed ELSE holder[c]]

Next ==
    \/ \E c \in Conns : Return(c) \/ \E t \in Threads : Lease(t, c)
    \/ \E idle \in SUBSET Conns : Close(idle)
    \/ Shutdown

Spec == Init /\ [][Next]_<<holder, open>>
=============================================================================

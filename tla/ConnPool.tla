------------------------------ MODULE ConnPool ------------------------------
(***************************************************************************)
(* The connection pool of src/hdr/bren/ConnPool.hpp.                       *)
(*                                                                         *)
(* pool_a maps a connection string to a map from thread ids to shared      *)
(* pointers.  It changes only under mux_a, but a thread drops the handle   *)
(* that get() returned at any time, without the mutex: every use_count()   *)
(* that get() and purge() read is a step of its own.  What they do to the  *)
(* maps between two such reads is one step.                                *)
(***************************************************************************)
EXTENDS Integers, FiniteSets

CONSTANTS
    Threads,   \* thread ids, the keys of a connmap_t; ordered as numbers
    Params,    \* connection strings
    AllParams, \* the empty string: purge every pool
    Conns,     \* connection objects
    NoConn,    \* "no entry"
    NoThread   \* "nobody holds mux_a"

ASSUME ThreadsAssumption == Threads \subseteq Nat /\ IsFiniteSet(Threads) /\ NoThread \notin Threads
ASSUME ParamsAssumption == IsFiniteSet(Params) /\ AllParams \notin Params
ASSUME ConnsAssumption == IsFiniteSet(Conns) /\ NoConn \notin Conns

VARIABLES
    keys,      \* the connection strings that pool_a has a map for
    pool,      \* pool_a: the connection of each entry, or NoConn
    held,      \* the connections each thread has a handle of
    mux,       \* the holder of mux_a
    pc,        \* where each thread is
    arg,       \* the parameter of each thread's call
    cur,       \* locals of the holder of mux_a: the pool it scans,
    left,      \*   the entries of it still to look at,
    idle,      \*   the entries of it found idle,
    pools,     \*   the pools still to purge,
    empty,     \*   the pools to erase
    alive,     \* the pool object exists
    idleBefore \* history: what was idle when the running purge began

locals == <<cur, left, idle, pools, empty>>
vars == <<keys, pool, held, mux, pc, arg, locals, alive, idleBefore>>

Locations == {"idle", "get_lock", "get_scan", "get_connect", "purge_lock",
              "purge_pools", "purge_look"}

Entries(p) == {t \in Threads : pool[p][t] # NoConn}
Refs(c) == {r \in Params \X Threads : pool[r[1]][r[2]] = c}
Holders(c) == {t \in Threads : c \in held[t]}

\* shared_ptr::use_count(): the pool's own references and the handles.
UseCount(c) == Cardinality(Refs(c)) + Cardinality(Holders(c))

\* Mutant: one reference too many counts as free.
Unused_OffByOne(p, j) == UseCount(pool[p][j]) <= 2

\* The test of get() and purge_() that nobody uses the connection of an entry.
Unused(p, j) == UseCount(pool[p][j]) = 1

Init ==
    /\ keys = {}
    /\ pool = [p \in Params |-> [t \in Threads |-> NoConn]]
    /\ held = [t \in Threads |-> {}]
    /\ mux = NoThread
    /\ pc = [t \in Threads |-> "idle"]
    /\ arg = [t \in Threads |-> AllParams]
    /\ cur = AllParams /\ left = {} /\ idle = {} /\ pools = {} /\ empty = {}
    /\ alive = TRUE
    /\ idleBefore = {}

-----------------------------------------------------------------------------
Goto(t, loc) == pc' = [pc EXCEPT ![t] = loc]
Enter(t, loc) == mux = NoThread /\ mux' = t /\ Goto(t, loc)
Leave(t) ==
    /\ mux' = NoThread
    /\ Goto(t, "idle")
    /\ cur' = AllParams /\ left' = {} /\ idle' = {} /\ pools' = {} /\ empty' = {}
Return(t, c) == held' = [held EXCEPT ![t] = @ \cup {c}]

CallGet(t, p) ==
    /\ alive /\ pc[t] = "idle"
    /\ arg' = [arg EXCEPT ![t] = p]
    /\ Goto(t, "get_lock")
    /\ UNCHANGED <<keys, pool, held, mux, locals, alive, idleBefore>>

\* get(): the thread has an entry in the pool of its connection string.
GetOwn(t) ==
    /\ pc[t] = "get_lock" /\ mux = NoThread
    /\ arg[t] \in keys /\ pool[arg[t]][t] # NoConn
    /\ Return(t, pool[arg[t]][t])
    /\ Goto(t, "idle")
    /\ UNCHANGED <<keys, pool, mux, arg, locals, alive, idleBefore>>

\* get(): there is no pool for the string yet: connect, ...
GetFirst(t) ==
    /\ pc[t] = "get_lock"
    /\ arg[t] \notin keys
    /\ Enter(t, "get_connect")
    /\ UNCHANGED <<keys, pool, held, arg, locals, alive, idleBefore>>

\* ... or there is one: look for a free connection.
GetSearch(t) ==
    /\ pc[t] = "get_lock"
    /\ arg[t] \in keys /\ pool[arg[t]][t] = NoConn
    /\ Enter(t, "get_scan")
    /\ left' = Entries(arg[t])
    /\ UNCHANGED <<keys, pool, held, arg, cur, idle, pools, empty, alive, idleBefore>>

\* Mutant: the old entry stays.
Move_NoErase(p, j, t) == [pool EXCEPT ![p] = [@ EXCEPT ![t] = pool[p][j]]]

\* The entry of j becomes the entry of t.
Move(p, j, t) == [pool EXCEPT ![p] = [@ EXCEPT ![j] = NoConn, ![t] = pool[p][j]]]

\* The loop of get(): the next entry in the order of the thread ids.  A free
\* connection moves to the entry of the calling thread.
GetScan(t) ==
    /\ pc[t] = "get_scan"
    /\ \E j \in left :
        /\ \A k \in left : j <= k
        /\ \/ /\ Unused(arg[t], j)
              /\ pool' = Move(arg[t], j, t)
              /\ Return(t, pool[arg[t]][j])
              /\ Leave(t)
           \/ /\ ~Unused(arg[t], j)
              /\ left' = left \ {j}
              /\ UNCHANGED <<pool, held, mux, pc, cur, idle, pools, empty>>
    /\ UNCHANGED <<keys, arg, alive, idleBefore>>

GetNoneFree(t) ==
    /\ pc[t] = "get_scan" /\ left = {}
    /\ Goto(t, "get_connect")
    /\ UNCHANGED <<keys, pool, held, mux, arg, locals, alive, idleBefore>>

\* new T(params) works: a connection of its own gets an entry ...
GetConnect(t) ==
    /\ pc[t] = "get_connect"
    /\ \E c \in Conns :
        /\ UseCount(c) = 0
        /\ pool' = [pool EXCEPT ![arg[t]][t] = c]
        /\ Return(t, c)
    /\ keys' = keys \cup {arg[t]}
    /\ Leave(t)
    /\ UNCHANGED <<arg, alive, idleBefore>>

\* Mutant: the map of the string is made before the connection.
GetFail_KeyKept(t) ==
    /\ pc[t] = "get_connect"
    /\ keys' = keys \cup {arg[t]}
    /\ Leave(t)
    /\ UNCHANGED <<pool, held, arg, alive, idleBefore>>

\* Mutant: the mutex stays locked when connecting fails.
GetFail_KeepsMutex(t) ==
    /\ pc[t] = "get_connect"
    /\ Goto(t, "idle")
    /\ UNCHANGED <<keys, pool, held, mux, arg, locals, alive, idleBefore>>

\* ... or throws, and the exception leaves get().
GetFail(t) ==
    /\ pc[t] = "get_connect"
    /\ Leave(t)
    /\ UNCHANGED <<keys, pool, held, arg, alive, idleBefore>>

\* The thread drops its last handle of a connection, outside of any call.
Drop(t, c) ==
    /\ pc[t] = "idle" /\ c \in held[t]
    /\ held' = [held EXCEPT ![t] = @ \ {c}]
    /\ UNCHANGED <<keys, pool, mux, pc, arg, locals, alive, idleBefore>>

-----------------------------------------------------------------------------
CallPurge(t, p) ==
    /\ alive /\ pc[t] = "idle"
    /\ arg' = [arg EXCEPT ![t] = p]
    /\ Goto(t, "purge_lock")
    /\ UNCHANGED <<keys, pool, held, mux, locals, alive, idleBefore>>

\* Mutant: the empty string is taken for the name of a pool.
Purged_Literal(t) == {arg[t]}

\* purge(): all the pools, or the one of the given string if it is there.
Purged(t) == IF arg[t] = AllParams THEN keys ELSE keys \cap {arg[t]}

PurgeStart(t) ==
    /\ pc[t] = "purge_lock"
    /\ Enter(t, "purge_pools")
    /\ pools' = Purged(t)
    /\ idleBefore' = {c \in Conns : UseCount(c) = 1 /\ \E p \in Purged(t), j \in Threads : pool[p][j] = c}
    /\ UNCHANGED <<keys, pool, held, arg, cur, left, idle, empty, alive>>

PurgePool(t) ==
    /\ pc[t] = "purge_pools"
    /\ \E p \in pools : pools' = pools \ {p} /\ cur' = p /\ left' = Entries(p)
    /\ idle' = {}
    /\ Goto(t, "purge_look")
    /\ UNCHANGED <<keys, pool, held, mux, arg, empty, alive, idleBefore>>

\* Mutant: the loop ends at the first connection in use.
PurgeLook_StopsAtBusy(t) ==
    /\ pc[t] = "purge_look"
    /\ \E j \in left :
        /\ \A k \in left : j <= k
        /\ left' = IF Unused(cur, j) THEN left \ {j} ELSE {}
        /\ idle' = IF Unused(cur, j) THEN idle \cup {j} ELSE idle
    /\ UNCHANGED <<keys, pool, held, mux, pc, arg, cur, pools, empty, alive, idleBefore>>

\* purge_(): collect the entries nobody else refers to, ...
PurgeLook(t) ==
    /\ pc[t] = "purge_look"
    /\ \E j \in left :
        /\ \A k \in left : j <= k
        /\ left' = left \ {j}
        /\ idle' = IF Unused(cur, j) THEN idle \cup {j} ELSE idle
    /\ UNCHANGED <<keys, pool, held, mux, pc, arg, cur, pools, empty, alive, idleBefore>>

\* ... then erase them, and note whether any entry is left.
PurgeErase(t) ==
    /\ pc[t] = "purge_look" /\ left = {}
    /\ pool' = [pool EXCEPT ![cur] = [j \in Threads |-> IF j \in idle THEN NoConn ELSE @[j]]]
    /\ empty' = IF Entries(cur) \subseteq idle THEN empty \cup {cur} ELSE empty
    /\ Goto(t, "purge_pools")
    /\ UNCHANGED <<keys, held, mux, arg, cur, left, idle, pools, alive, idleBefore>>

PurgeEnd(t) ==
    /\ pc[t] = "purge_pools" /\ pools = {}
    /\ keys' = keys \ empty
    /\ idleBefore' = {}
    /\ Leave(t)
    /\ UNCHANGED <<pool, held, arg, alive>>

\* ~ConnPool(): purge(), then the maps go with all that is left in them.
\* Nobody is inside a call then; threads may still have handles.
Destroy ==
    /\ alive /\ \A t \in Threads : pc[t] = "idle"
    /\ alive' = FALSE
    /\ keys' = {}
    /\ pool' = [p \in Params |-> [t \in Threads |-> NoConn]]
    /\ UNCHANGED <<held, mux, pc, arg, locals, idleBefore>>

-----------------------------------------------------------------------------
Getting(t) ==
    GetFirst(t) \/ GetOwn(t) \/ GetSearch(t)

Running(t) ==
    \/ GetScan(t) \/ GetNoneFree(t) \/ GetConnect(t) \/ GetFail(t)
    \/ PurgePool(t) \/ PurgeLook(t) \/ PurgeErase(t) \/ PurgeEnd(t)

Next ==
    \/ \E t \in Threads :
        \/ Getting(t) \/ PurgeStart(t) \/ Running(t)
        \/ \E p \in Params : CallGet(t, p)
        \/ \E p \in Params \cup {AllParams} : CallPurge(t, p)
        \/ \E c \in Conns : Drop(t, c)
    \/ Destroy

Spec == Init /\ [][Next]_vars

\* mux_a is granted sooner or later to a thread that keeps asking, its holder
\* runs on, and connecting ends one way or the other.
Fairness ==
    \A t \in Threads : SF_vars(Getting(t) \/ PurgeStart(t)) /\ WF_vars(Running(t))

FairSpec == Spec /\ Fairness

-----------------------------------------------------------------------------
TypeOK ==
    /\ keys \subseteq Params
    /\ pool \in [Params -> [Threads -> Conns \cup {NoConn}]]
    /\ held \in [Threads -> SUBSET Conns]
    /\ mux \in Threads \cup {NoThread}
    /\ pc \in [Threads -> Locations]
    /\ arg \in [Threads -> Params \cup {AllParams}]
    /\ cur \in Params \cup {AllParams}
    /\ left \subseteq Threads /\ idle \subseteq Threads
    /\ pools \subseteq Params /\ empty \subseteq Params
    /\ alive \in BOOLEAN
    /\ idleBefore \subseteq Conns

\* No two threads ever have a handle of the same connection, although entries
\* move between threads while others use and drop theirs.
Exclusive ==
    \A t, u \in Threads : t # u => held[t] \cap held[u] = {}

\* While the pool exists, a connection in use is in the pool, under the id of
\* the thread that uses it: it is neither purged nor given to another thread.
HeldIsPooled ==
    alive => \A t \in Threads : \A c \in held[t] : \E p \in keys : pool[p][t] = c

\* A connection has one entry at most, also after it moved.
PooledOnce ==
    \A p, q \in Params : \A t, u \in Threads :
        pool[p][t] = pool[q][u] /\ pool[p][t] # NoConn => p = q /\ t = u

\* While nobody is inside, the pool has no map without connections and no
\* connection without a map: a failed connect leaves nothing behind, and a
\* purge removes every map that it emptied.
NoEmptyPool == mux = NoThread => keys = {p \in Params : Entries(p) # {}}

\* A purge closes every connection that was idle when it began.
PurgeClosesIdle ==
    [][\A t \in Threads : PurgeEnd(t) => \A c \in idleBefore : Refs(c)' = {}]_vars

\* A call of get() returns or throws, a call of purge() returns.
CallsEnd == \A t \in Threads : pc[t] # "idle" ~> pc[t] = "idle"

\* The pool implements leases: see ConnLease.  Thread ids are not negative.
FreeConn == -1
ClosedConn == -2

Holder(c) ==
    IF Holders(c) # {} THEN CHOOSE t \in Threads : c \in held[t]
    ELSE IF Refs(c) # {} THEN FreeConn ELSE ClosedConn

L == INSTANCE ConnLease WITH
        Free <- FreeConn, Closed <- ClosedConn,
        holder <- [c \in Conns |-> Holder(c)], open <- alive
LeaseSpec == L!Spec
=============================================================================

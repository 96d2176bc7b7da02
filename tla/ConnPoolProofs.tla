--------------------------- MODULE ConnPoolProofs ---------------------------
(***************************************************************************)
(* The safety properties of ConnPool, and that it implements ConnLease,    *)
(* for every set of threads, connection strings and connections.           *)
(***************************************************************************)
EXTENDS ConnPool, FiniteSetTheorems, TLAPS

GetLocations == {"get_scan", "get_connect"}
PurgeLocations == {"purge_pools", "purge_look"}

\* mux_a is held by the thread inside a critical section; the locals are its.
MuxDiscipline ==
    /\ \A t \in Threads : mux = t <=> pc[t] \in GetLocations \cup PurgeLocations
    /\ mux = NoThread => left = {} /\ idle = {} /\ pools = {} /\ empty = {}

\* get() has a connection string, purge_() the one of the pool it scans.
ParamsMatch ==
    \A t \in Threads :
        /\ pc[t] \in {"get_lock", "get_scan", "get_connect"} => arg[t] \in Params
        /\ pc[t] = "purge_look" => cur \in Params

\* Entries belong to a map that is there, and a map without entries is about
\* to be erased.
MapsMatch ==
    /\ \A p \in Params : \A t \in Threads : pool[p][t] # NoConn => p \in keys
    /\ \A p \in keys : Entries(p) = {} => p \in empty
    /\ \A p \in empty : Entries(p) = {}

\* A thread that searches or connects has no entry yet, and what it still has
\* to look at are entries of the pool it searches.
Searching ==
    \A t \in Threads :
        /\ pc[t] \in GetLocations =>
            pool[arg[t]][t] = NoConn /\ empty = {}
        /\ pc[t] = "get_scan" => arg[t] \in keys /\ left \subseteq Entries(arg[t])

\* What purge found idle stays idle until it is erased.
Idle(j) == pool[cur][j] # NoConn /\ Holders(pool[cur][j]) = {}
Purging ==
    \A t \in Threads :
        pc[t] = "purge_look" =>
            /\ left \subseteq Entries(cur)
            /\ \A j \in idle : Idle(j)

\* Once the pool is destroyed it is empty and nobody is inside a call.
Destroyed == ~alive => keys = {} /\ \A t \in Threads : pc[t] = "idle"

-----------------------------------------------------------------------------
\* Both kinds of references to a connection are finitely many.
LEMMA FiniteRefs ==
    ASSUME NEW c
    PROVE  /\ IsFiniteSet(Refs(c)) /\ Cardinality(Refs(c)) \in Nat
           /\ IsFiniteSet(Holders(c)) /\ Cardinality(Holders(c)) \in Nat
<1>1. IsFiniteSet(Params \X Threads)
  BY FS_Product, ThreadsAssumption, ParamsAssumption
<1>2. Refs(c) \subseteq Params \X Threads /\ Holders(c) \subseteq Threads
  BY DEF Refs, Holders
<1> QED
  BY <1>1, <1>2, ThreadsAssumption, FS_Subset, FS_CardinalityType

\* A use count of one, seen on an entry, is the reference of that entry:
\* nobody has a handle.
LEMMA UnusedMeans ==
    ASSUME NEW p \in Params, NEW j \in Threads, Unused(p, j)
    PROVE  Holders(pool[p][j]) = {}
<1> DEFINE c == pool[p][j]
<1>1. <<p, j>> \in Refs(c)
  BY DEF Refs
<1>2. Cardinality(Refs(c)) # 0
  BY <1>1, FiniteRefs, FS_EmptySet
<1>3. Cardinality(Refs(c)) + Cardinality(Holders(c)) = 1
  BY DEF Unused, UseCount
<1>4. Cardinality(Holders(c)) = 0
  BY <1>2, <1>3, FiniteRefs
<1> QED
  BY <1>4, FiniteRefs, FS_EmptySet

\* A use count of zero: neither handle nor entry.
LEMMA NewMeans ==
    ASSUME NEW c, UseCount(c) = 0
    PROVE  /\ \A t \in Threads : c \notin held[t]
           /\ \A p \in Params : \A t \in Threads : pool[p][t] # c
<1>1. Cardinality(Refs(c)) = 0 /\ Cardinality(Holders(c)) = 0
  BY FiniteRefs DEF UseCount
<1>2. Refs(c) = {} /\ Holders(c) = {}
  BY <1>1, FiniteRefs, FS_EmptySet
<1>3. ASSUME NEW p \in Params, NEW t \in Threads, pool[p][t] = c PROVE FALSE
  <2>1. <<p, t>> \in Refs(c)
    BY <1>3 DEF Refs
  <2> QED
    BY <2>1, <1>2
<1> QED
  BY <1>2, <1>3 DEF Holders

-----------------------------------------------------------------------------
\* A step of the search either moves an unused entry to the caller, or only
\* forgets an entry in use.
Moves(t, j) ==
    /\ j \in Threads /\ j # t
    /\ arg[t] \in keys /\ pool[arg[t]][t] = NoConn
    /\ pool[arg[t]][j] # NoConn /\ Holders(pool[arg[t]][j]) = {}
    /\ pool' = Move(arg[t], j, t)
    /\ held' = [held EXCEPT ![t] = @ \cup {pool[arg[t]][j]}]
    /\ Leave(t)

LEMMA ScanStep ==
    ASSUME TypeOK, Searching, NEW t \in Threads, GetScan(t)
    PROVE  /\ UNCHANGED <<keys, arg, alive, idleBefore>>
           /\ \/ \E j \in Threads : Moves(t, j)
              \/ /\ UNCHANGED <<pool, held, mux, pc, cur, idle, pools, empty>>
                 /\ left' \subseteq left
<1>1. UNCHANGED <<keys, arg, alive, idleBefore>>
  BY DEF GetScan
<1>2. /\ arg[t] \in keys /\ arg[t] \in Params /\ pool[arg[t]][t] = NoConn
      /\ left \subseteq Entries(arg[t])
  BY DEF GetScan, Searching, GetLocations, TypeOK
<1>3. PICK j \in left :
        \/ Unused(arg[t], j) /\ pool' = Move(arg[t], j, t) /\ Return(t, pool[arg[t]][j]) /\ Leave(t)
        \/ left' = left \ {j} /\ UNCHANGED <<pool, held, mux, pc, cur, idle, pools, empty>>
  BY DEF GetScan
<1>4. j \in Threads /\ j # t /\ pool[arg[t]][j] # NoConn
  BY <1>2 DEF Entries
<1>5. CASE Unused(arg[t], j) /\ pool' = Move(arg[t], j, t) /\ Return(t, pool[arg[t]][j]) /\ Leave(t)
  <2>1. Holders(pool[arg[t]][j]) = {}
    BY <1>2, <1>4, <1>5, UnusedMeans
  <2> QED
    BY <1>1, <1>2, <1>4, <1>5, <2>1 DEF Moves, Return
<1>6. CASE left' = left \ {j} /\ UNCHANGED <<pool, held, mux, pc, cur, idle, pools, empty>>
  BY <1>1, <1>6
<1> QED
  BY <1>3, <1>5, <1>6

\* Types: the parameters of the calls stand for themselves.
LEMMA TypeStep ==
    ASSUME TypeOK, ParamsMatch, Searching, [Next]_vars PROVE TypeOK'
<1> USE DEF TypeOK, Locations, locals
<1>1. ASSUME NEW t \in Threads, Getting(t) PROVE TypeOK'
  BY <1>1 DEF Getting, GetFirst, GetOwn, GetSearch, Enter, Return, Goto, Entries
<1>2. ASSUME NEW t \in Threads, PurgeStart(t) PROVE TypeOK'
  BY <1>2 DEF PurgeStart, Enter, Goto, Purged
<1>3. ASSUME NEW t \in Threads, Running(t) PROVE TypeOK'
  <2>1. CASE GetScan(t)
    <3>1. CASE \E j \in Threads : Moves(t, j)
      <4>1. PICK j \in Threads : Moves(t, j)
        BY <3>1
      <4>2. arg[t] \in Params /\ pool[arg[t]][j] \in Conns
        BY <4>1 DEF Moves
      <4>3. pool' \in [Params -> [Threads -> Conns \cup {NoConn}]]
        BY <4>1, <4>2 DEF Moves, Move
      <4>4. held' \in [Threads -> SUBSET Conns]
        BY <4>1, <4>2 DEF Moves
      <4>5. UNCHANGED <<keys, arg, alive, idleBefore>> /\ Leave(t)
        BY <2>1, <4>1, ScanStep DEF Moves
      <4> QED
        BY <4>3, <4>4, <4>5 DEF Leave, Goto
    <3>2. CASE ~\E j \in Threads : Moves(t, j)
      BY <2>1, <3>2, ScanStep
    <3> QED
      BY <3>1, <3>2
  <2>2. CASE GetNoneFree(t)
    BY <2>2 DEF GetNoneFree, Goto
  <2>3. CASE GetConnect(t)
    BY <2>3 DEF GetConnect, Return, Leave, Goto, ParamsMatch
  <2>4. CASE GetFail(t)
    BY <2>4 DEF GetFail, Leave, Goto
  <2>5. CASE PurgePool(t)
    BY <2>5 DEF PurgePool, Goto, Entries
  <2>6. CASE PurgeLook(t)
    BY <2>6 DEF PurgeLook
  <2>7. CASE PurgeErase(t)
    BY <2>7 DEF PurgeErase, Goto, ParamsMatch
  <2>8. CASE PurgeEnd(t)
    BY <2>8 DEF PurgeEnd, Leave, Goto
  <2> QED
    BY <1>3, <2>1, <2>2, <2>3, <2>4, <2>5, <2>6, <2>7, <2>8 DEF Running
<1>4. ASSUME NEW t \in Threads, NEW p \in Params, CallGet(t, p) PROVE TypeOK'
  BY <1>4 DEF CallGet, Goto
<1>5. ASSUME NEW t \in Threads, NEW p \in Params \cup {AllParams}, CallPurge(t, p) PROVE TypeOK'
  BY <1>5 DEF CallPurge, Goto
<1>6. ASSUME NEW t \in Threads, NEW c \in Conns, Drop(t, c) PROVE TypeOK'
  BY <1>6 DEF Drop
<1>7. CASE Destroy
  BY <1>7 DEF Destroy
<1>8. CASE UNCHANGED vars
  BY <1>8 DEF vars
<1> QED
  BY <1>1, <1>2, <1>3, <1>4, <1>5, <1>6, <1>7, <1>8 DEF Next

\* The critical sections exclude each other, and leave no locals behind.
LEMMA MutexStep ==
    ASSUME TypeOK, MuxDiscipline, [Next]_vars PROVE MuxDiscipline'
<1> USE ThreadsAssumption DEF TypeOK, MuxDiscipline, GetLocations, PurgeLocations, locals
<1>1. ASSUME NEW t \in Threads, Getting(t) PROVE MuxDiscipline'
  BY <1>1 DEF Getting, GetFirst, GetOwn, GetSearch, Enter, Goto
<1>2. ASSUME NEW t \in Threads, PurgeStart(t) PROVE MuxDiscipline'
  BY <1>2 DEF PurgeStart, Enter, Goto
<1>3. ASSUME NEW t \in Threads, Running(t) PROVE MuxDiscipline'
  <2>1. CASE GetScan(t)
    BY <2>1 DEF GetScan, Leave, Goto
  <2>2. CASE GetNoneFree(t)
    BY <2>2 DEF GetNoneFree, Goto
  <2>3. CASE GetConnect(t) \/ GetFail(t) \/ PurgeEnd(t)
    BY <2>3 DEF GetConnect, GetFail, PurgeEnd, Leave, Goto
  <2>4. CASE PurgePool(t) \/ PurgeErase(t)
    BY <2>4 DEF PurgePool, PurgeErase, Goto
  <2>5. CASE PurgeLook(t)
    BY <2>5 DEF PurgeLook
  <2> QED
    BY <1>3, <2>1, <2>2, <2>3, <2>4, <2>5 DEF Running
<1>4. ASSUME NEW t \in Threads, NEW p \in Params, CallGet(t, p) PROVE MuxDiscipline'
  BY <1>4 DEF CallGet, Goto
<1>5. ASSUME NEW t \in Threads, NEW p, CallPurge(t, p) PROVE MuxDiscipline'
  BY <1>5 DEF CallPurge, Goto
<1>6. ASSUME NEW t \in Threads, NEW c \in Conns, Drop(t, c) PROVE MuxDiscipline'
  BY <1>6 DEF Drop
<1>7. CASE Destroy
  BY <1>7 DEF Destroy
<1>8. CASE UNCHANGED vars
  BY <1>8 DEF vars
<1> QED
  BY <1>1, <1>2, <1>3, <1>4, <1>5, <1>6, <1>7, <1>8 DEF Next

\* A parameter is set before the call needs it; cur belongs to the one thread
\* that holds mux_a.
LEMMA ParamsStep ==
    ASSUME TypeOK, MuxDiscipline, ParamsMatch, [Next]_vars PROVE ParamsMatch'
<1> USE ThreadsAssumption DEF TypeOK, ParamsMatch, MuxDiscipline, GetLocations, PurgeLocations, locals
<1>1. ASSUME NEW t \in Threads, Getting(t) \/ PurgeStart(t) PROVE ParamsMatch'
  BY <1>1 DEF Getting, GetFirst, GetOwn, GetSearch, PurgeStart, Enter, Goto
<1>2. ASSUME NEW t \in Threads, Running(t) PROVE ParamsMatch'
  <2>1. CASE GetScan(t)
    BY <2>1 DEF GetScan, Leave, Goto
  <2>2. CASE GetNoneFree(t)
    BY <2>2 DEF GetNoneFree, Goto
  <2>3. CASE GetConnect(t) \/ GetFail(t) \/ PurgeEnd(t)
    BY <2>3 DEF GetConnect, GetFail, PurgeEnd, Leave, Goto
  <2>4. CASE PurgePool(t)
    BY <2>4 DEF PurgePool, Goto
  <2>5. CASE PurgeErase(t) \/ PurgeLook(t)
    BY <2>5 DEF PurgeErase, PurgeLook, Goto
  <2> QED
    BY <1>2, <2>1, <2>2, <2>3, <2>4, <2>5 DEF Running
<1>3. ASSUME NEW t \in Threads, NEW p \in Params, CallGet(t, p) PROVE ParamsMatch'
  BY <1>3 DEF CallGet, Goto
<1>4. ASSUME NEW t \in Threads, NEW p, CallPurge(t, p) PROVE ParamsMatch'
  BY <1>4 DEF CallPurge, Goto
<1>5. ASSUME NEW t \in Threads, NEW c, Drop(t, c) PROVE ParamsMatch'
  BY <1>5 DEF Drop
<1>6. CASE Destroy \/ UNCHANGED vars
  BY <1>6 DEF Destroy, vars
<1> QED
  BY <1>1, <1>2, <1>3, <1>4, <1>5, <1>6 DEF Next

\* Calls only start while the pool exists.
LEMMA DestroyedStep ==
    ASSUME TypeOK, Destroyed, [Next]_vars PROVE Destroyed'
<1> USE DEF TypeOK, Destroyed, Goto
<1>1. CASE Destroy \/ UNCHANGED vars
  BY <1>1 DEF Destroy, vars
<1>2. ASSUME NEW t \in Threads, NEW p, CallGet(t, p) \/ CallPurge(t, p) PROVE Destroyed'
  BY <1>2 DEF CallGet, CallPurge
<1>3. ASSUME NEW t \in Threads, NEW c, Drop(t, c) PROVE Destroyed'
  BY <1>3 DEF Drop
<1>4. ASSUME NEW t \in Threads, Getting(t) \/ PurgeStart(t) \/ Running(t)
      PROVE  alive' = alive /\ pc[t] # "idle"
  BY <1>4 DEF Getting, GetFirst, GetOwn, GetSearch, PurgeStart, Running, GetScan, GetNoneFree,
              GetConnect, GetFail, PurgePool, PurgeLook, PurgeErase, PurgeEnd
<1> QED
  BY <1>1, <1>2, <1>3, <1>4 DEF Next

\* The maps change only under mux_a: entries appear together with their map,
\* and a map that purge_() emptied is noted in "empty" until it is erased.
LEMMA MapsStep ==
    ASSUME TypeOK, MuxDiscipline, ParamsMatch, MapsMatch, Searching, [Next]_vars PROVE MapsMatch'
<1> USE DEF TypeOK, MapsMatch, Entries, Goto
<1>1. ASSUME UNCHANGED <<keys, pool, empty>> PROVE MapsMatch'
  BY <1>1
<1>2. ASSUME NEW t \in Threads, Running(t) PROVE MapsMatch'
  <2>1. CASE GetScan(t)
    <3>1. CASE ~\E j \in Threads : Moves(t, j)
      BY <2>1, <3>1, ScanStep, <1>1
    <3>2. CASE \E j \in Threads : Moves(t, j)
      <4>1. PICK j \in Threads : Moves(t, j)
        BY <3>2
      <4>2. keys' = keys /\ arg[t] \in keys /\ arg[t] \in Params /\ empty = {} /\ empty' = {}
        BY <2>1, <4>1, ScanStep DEF GetScan, Searching, GetLocations, Moves, Leave
      <4>3. pool'[arg[t]][t] = pool[arg[t]][j] /\ pool[arg[t]][j] # NoConn
        BY <4>1, <4>2 DEF Move, Moves
      <4>4. \A q \in Params : q # arg[t] => pool'[q] = pool[q]
        BY <4>1, <4>2 DEF Move, Moves
      <4> QED
        BY <4>2, <4>3, <4>4
    <3> QED
      BY <3>1, <3>2
  <2>2. CASE GetConnect(t)
    <3>1. PICK c \in Conns : pool' = [pool EXCEPT ![arg[t]][t] = c]
      BY <2>2 DEF GetConnect
    <3>2. keys' = keys \cup {arg[t]} /\ arg[t] \in Params /\ empty = {} /\ empty' = {}
      BY <2>2 DEF GetConnect, Searching, GetLocations, ParamsMatch, Leave
    <3>3. pool'[arg[t]][t] = c /\ c # NoConn
      BY <3>1, <3>2, ConnsAssumption
    <3>4. \A q \in Params : q # arg[t] => pool'[q] = pool[q]
      BY <3>1, <3>2
    <3> QED
      BY <3>2, <3>3, <3>4
  <2>3. CASE GetFail(t)
    BY <2>3 DEF GetFail, Leave, Searching, GetLocations
  <2>4. CASE GetNoneFree(t) \/ PurgePool(t) \/ PurgeLook(t)
    BY <2>4, <1>1 DEF GetNoneFree, PurgePool, PurgeLook, locals
  <2>5. CASE PurgeErase(t)
    <3>1. /\ keys' = keys /\ cur \in Params
          /\ \A q \in Params : q # cur => pool'[q] = pool[q]
          /\ \A j \in Threads : pool'[cur][j] = IF j \in idle THEN NoConn ELSE pool[cur][j]
      BY <2>5 DEF PurgeErase, ParamsMatch
    <3>2. empty' = IF Entries(cur) \subseteq idle THEN empty \cup {cur} ELSE empty
      BY <2>5 DEF PurgeErase
    <3> QED
      BY <3>1, <3>2
  <2>6. CASE PurgeEnd(t)
    BY <2>6 DEF PurgeEnd, Leave
  <2> QED
    BY <1>2, <2>1, <2>2, <2>3, <2>4, <2>5, <2>6 DEF Running
<1>3. ASSUME NEW t \in Threads, Getting(t) \/ PurgeStart(t) PROVE MapsMatch'
  BY <1>3, <1>1 DEF Getting, GetFirst, GetOwn, GetSearch, PurgeStart, Enter, locals
<1>4. ASSUME NEW t \in Threads, NEW p, NEW c, CallGet(t, p) \/ CallPurge(t, p) \/ Drop(t, c)
      PROVE  MapsMatch'
  BY <1>4, <1>1 DEF CallGet, CallPurge, Drop, locals
<1>5. CASE UNCHANGED vars
  BY <1>5, <1>1 DEF vars, locals
<1>6. CASE Destroy
  BY <1>6 DEF Destroy, locals
<1> QED
  BY <1>2, <1>3, <1>4, <1>5, <1>6 DEF Next

\* A search starts from a map it is not in, under mux_a, and no entry of the
\* map goes away before it ends.
LEMMA SearchingStep ==
    ASSUME TypeOK, MuxDiscipline, ParamsMatch, MapsMatch, Searching, [Next]_vars PROVE Searching'
<1> USE ThreadsAssumption DEF TypeOK, GetLocations, PurgeLocations, Searching
<1>1. ASSUME NEW t \in Threads, Getting(t) \/ PurgeStart(t) PROVE Searching'
  <2>1. CASE GetOwn(t)
    BY <2>1 DEF GetOwn, Goto, MuxDiscipline
  <2>2. CASE PurgeStart(t)
    BY <2>2 DEF PurgeStart, Enter, Goto, MuxDiscipline
  <2>3. CASE GetFirst(t)
    <3>1. pool[arg[t]][t] = NoConn /\ empty = {}
      BY <2>3 DEF GetFirst, Enter, MapsMatch, ParamsMatch, MuxDiscipline
    <3>2. \A u \in Threads : u # t => pc'[u] \notin GetLocations
      BY <2>3 DEF GetFirst, Enter, Goto, MuxDiscipline
    <3> QED
      BY <2>3, <3>1, <3>2 DEF GetFirst, Enter, Goto, locals
  <2>4. CASE GetSearch(t)
    <3>1. pool[arg[t]][t] = NoConn /\ empty = {}
      BY <2>4 DEF GetSearch, Enter, MuxDiscipline
    <3>2. \A u \in Threads : u # t => pc'[u] \notin GetLocations
      BY <2>4 DEF GetSearch, Enter, Goto, MuxDiscipline
    <3> QED
      BY <2>4, <3>1, <3>2 DEF GetSearch, Enter, Goto, Entries
  <2> QED
    BY <1>1, <2>1, <2>2, <2>3, <2>4 DEF Getting
<1>2. ASSUME NEW t \in Threads, Running(t) PROVE Searching'
  <2>1. \A u \in Threads : u # t => pc[u] \notin GetLocations
    BY <1>2 DEF Running, GetScan, GetNoneFree, GetConnect, GetFail, PurgePool, PurgeLook,
                PurgeErase, PurgeEnd, MuxDiscipline
  <2>2. CASE GetScan(t)
    <3>1. CASE \E j \in Threads : Moves(t, j)
      BY <2>1, <3>1 DEF Moves, Leave, Goto
    <3>2. CASE ~\E j \in Threads : Moves(t, j)
      BY <2>2, <3>2, ScanStep DEF Entries
    <3> QED
      BY <3>1, <3>2
  <2>3. CASE GetNoneFree(t)
    BY <2>1, <2>3 DEF GetNoneFree, Goto, locals
  <2>4. CASE GetConnect(t) \/ GetFail(t) \/ PurgeEnd(t)
    BY <2>1, <2>4 DEF GetConnect, GetFail, PurgeEnd, Leave, Goto
  <2>5. CASE PurgePool(t) \/ PurgeErase(t)
    BY <2>1, <2>5 DEF PurgePool, PurgeErase, Goto
  <2>6. CASE PurgeLook(t)
    BY <2>1, <2>6 DEF PurgeLook
  <2> QED
    BY <1>2, <2>2, <2>3, <2>4, <2>5, <2>6 DEF Running
<1>3. ASSUME NEW t \in Threads, NEW p, CallGet(t, p) \/ CallPurge(t, p) PROVE Searching'
  <2>1. pc'[t] \notin GetLocations /\ UNCHANGED <<keys, pool, left, empty>>
    BY <1>3 DEF CallGet, CallPurge, Goto, locals
  <2>2. \A u \in Threads : u # t => pc'[u] = pc[u] /\ arg'[u] = arg[u]
    BY <1>3 DEF CallGet, CallPurge, Goto
  <2> QED
    BY <2>1, <2>2 DEF Entries
<1>4. ASSUME NEW t \in Threads, NEW c, Drop(t, c) PROVE Searching'
  BY <1>4 DEF Drop, Entries, locals
<1>5. CASE Destroy
  BY <1>5 DEF Destroy
<1>6. CASE UNCHANGED vars
  BY <1>6 DEF vars, locals, Entries
<1> QED
  BY <1>1, <1>2, <1>3, <1>4, <1>5, <1>6 DEF Next

\* An idle connection gets no new handle while a purge holds mux_a.
LEMMA PurgingStep ==
    ASSUME TypeOK, MuxDiscipline, ParamsMatch, Searching, Purging, [Next]_vars PROVE Purging'
<1> USE ThreadsAssumption DEF TypeOK, GetLocations, PurgeLocations, Purging, Idle, Holders
<1>1. ASSUME NEW t \in Threads, Getting(t) \/ PurgeStart(t) PROVE Purging'
  <2>1. \A u \in Threads : pc'[u] # "purge_look"
    BY <1>1 DEF Getting, GetOwn, GetFirst, GetSearch, PurgeStart, Enter, Goto, MuxDiscipline
  <2> QED
    BY <2>1
<1>2. ASSUME NEW t \in Threads, Running(t) PROVE Purging'
  <2>1. \A u \in Threads : u # t => pc[u] # "purge_look"
    BY <1>2 DEF Running, GetScan, GetNoneFree, GetConnect, GetFail, PurgePool, PurgeLook,
                PurgeErase, PurgeEnd, MuxDiscipline
  <2>2. CASE GetScan(t)
    <3>1. \A u \in Threads : pc'[u] # "purge_look"
      BY <2>1, <2>2 DEF GetScan, Leave, Goto
    <3> QED
      BY <3>1
  <2>3. CASE GetNoneFree(t) \/ GetConnect(t) \/ GetFail(t) \/ PurgeEnd(t) \/ PurgeErase(t)
    <3>1. \A u \in Threads : pc'[u] # "purge_look"
      BY <2>1, <2>3 DEF GetNoneFree, GetConnect, GetFail, PurgeEnd, PurgeErase, Leave, Goto
    <3> QED
      BY <3>1
  <2>4. CASE PurgePool(t)
    BY <2>1, <2>4 DEF PurgePool, Goto, Entries
  <2>5. CASE PurgeLook(t)
    <3>1. UNCHANGED <<pool, held, pc, cur>> /\ pc[t] = "purge_look" /\ cur \in Params
      BY <2>5 DEF PurgeLook, ParamsMatch
    <3>2. PICK j \in left : /\ left' = left \ {j}
                            /\ idle' = IF Unused(cur, j) THEN idle \cup {j} ELSE idle
      BY <2>5 DEF PurgeLook
    <3>3. j \in Threads /\ left \subseteq Entries(cur) /\ left' \subseteq Entries(cur)
      BY <3>1, <3>2
    <3>4. Unused(cur, j) => Idle(j)
      BY <3>1, <3>2, <3>3, UnusedMeans DEF Entries
    <3>5. \A i \in idle' : Idle(i)
      BY <3>1, <3>2, <3>4
    <3> QED
      BY <2>1, <3>1, <3>3, <3>5 DEF Entries
  <2> QED
    BY <1>2, <2>2, <2>3, <2>4, <2>5 DEF Running
<1>3. ASSUME NEW t \in Threads, NEW p, CallGet(t, p) \/ CallPurge(t, p) PROVE Purging'
  BY <1>3 DEF CallGet, CallPurge, Goto, Entries, locals
<1>4. ASSUME NEW t \in Threads, NEW c, Drop(t, c) PROVE Purging'
  BY <1>4 DEF Drop, Entries, locals
<1>5. CASE Destroy
  BY <1>5 DEF Destroy
<1>6. CASE UNCHANGED vars
  BY <1>6 DEF vars, locals, Entries
<1> QED
  BY <1>1, <1>2, <1>3, <1>4, <1>5, <1>6 DEF Next

-----------------------------------------------------------------------------
\* A connection moves with its entry, and a new one has no entry yet.
LEMMA OnceStep ==
    ASSUME TypeOK, ParamsMatch, Searching, PooledOnce, [Next]_vars PROVE PooledOnce'
<1> USE DEF TypeOK, PooledOnce
<1>1. ASSUME pool' = pool PROVE PooledOnce'
  BY <1>1
<1>2. ASSUME NEW t \in Threads, Running(t) PROVE PooledOnce'
  <2>1. CASE GetScan(t)
    <3>1. CASE \E j \in Threads : Moves(t, j)
      <4>1. PICK j \in Threads : Moves(t, j)
        BY <3>1
      <4>2. arg[t] \in Params /\ j # t /\ pool[arg[t]][t] = NoConn
        BY <4>1 DEF Moves
      <4>3. \A q \in Params : \A u \in Threads :
              pool'[q][u] = IF q # arg[t] THEN pool[q][u]
                            ELSE IF u = t THEN pool[arg[t]][j]
                            ELSE IF u = j THEN NoConn ELSE pool[q][u]
        BY <4>1, <4>2 DEF Moves, Move
      <4> QED
        BY <4>2, <4>3
    <3>2. CASE ~\E j \in Threads : Moves(t, j)
      BY <2>1, <3>2, ScanStep, <1>1
    <3> QED
      BY <3>1, <3>2
  <2>2. CASE GetConnect(t)
    <3>1. PICK c \in Conns : UseCount(c) = 0 /\ pool' = [pool EXCEPT ![arg[t]][t] = c]
      BY <2>2 DEF GetConnect
    <3>2. arg[t] \in Params
      BY <2>2 DEF GetConnect, ParamsMatch
    <3>3. \A q \in Params : \A u \in Threads :
            pool'[q][u] = IF q = arg[t] /\ u = t THEN c ELSE pool[q][u]
      BY <3>1, <3>2
    <3>4. \A q \in Params : \A u \in Threads : pool[q][u] # c
      BY <3>1, NewMeans
    <3> QED
      BY <3>3, <3>4
  <2>3. CASE GetNoneFree(t) \/ GetFail(t) \/ PurgePool(t) \/ PurgeLook(t) \/ PurgeEnd(t)
    BY <2>3, <1>1 DEF GetNoneFree, GetFail, PurgePool, PurgeLook, PurgeEnd
  <2>4. CASE PurgeErase(t)
    <3>1. \A q \in Params : \A u \in Threads : pool'[q][u] \in {NoConn, pool[q][u]}
      BY <2>4 DEF PurgeErase, ParamsMatch
    <3> QED
      BY <3>1
  <2> QED
    BY <1>2, <2>1, <2>2, <2>3, <2>4 DEF Running
<1>3. ASSUME NEW t \in Threads, Getting(t) \/ PurgeStart(t) PROVE PooledOnce'
  BY <1>3, <1>1 DEF Getting, GetFirst, GetOwn, GetSearch, PurgeStart
<1>4. ASSUME NEW t \in Threads, NEW p, NEW c, CallGet(t, p) \/ CallPurge(t, p) \/ Drop(t, c)
      PROVE  PooledOnce'
  BY <1>4, <1>1 DEF CallGet, CallPurge, Drop
<1>5. CASE UNCHANGED vars
  BY <1>5, <1>1 DEF vars
<1>6. CASE Destroy
  BY <1>6 DEF Destroy
<1> QED
  BY <1>2, <1>3, <1>4, <1>5, <1>6 DEF Next

\* An entry moves or goes only when nobody has a handle of its connection,
\* and a handle is made only together with an entry of its thread.
LEMMA PooledStep ==
    ASSUME TypeOK, ParamsMatch, MapsMatch, Searching, Purging, HeldIsPooled, [Next]_vars
    PROVE  HeldIsPooled'
<1> USE DEF TypeOK, HeldIsPooled
<1>1. ASSUME UNCHANGED <<keys, pool, alive>>, \A u \in Threads : held'[u] \subseteq held[u]
      PROVE  HeldIsPooled'
  BY <1>1
<1>2. ASSUME NEW t \in Threads, Running(t) PROVE HeldIsPooled'
  <2>1. CASE GetScan(t)
    <3>1. CASE \E j \in Threads : Moves(t, j)
      <4>1. PICK j \in Threads : Moves(t, j)
        BY <3>1
      <4> DEFINE a == arg[t]
                 c == pool[arg[t]][j]
      <4>2. a \in Params /\ a \in keys /\ j # t /\ pool[a][t] = NoConn /\ keys' = keys /\ alive' = alive
        BY <2>1, <4>1, ScanStep DEF Moves
      <4>3. \A q \in Params : \A u \in Threads :
              pool'[q][u] = IF q # a THEN pool[q][u]
                            ELSE IF u = t THEN c ELSE IF u = j THEN NoConn ELSE pool[q][u]
        BY <4>1, <4>2 DEF Moves, Move
      <4>4. \A u \in Threads : c \notin held[u]
        BY <4>1 DEF Moves, Holders
      <4>5. \A u \in Threads : held'[u] = IF u = t THEN held[u] \cup {c} ELSE held[u]
        BY <4>1 DEF Moves
      <4> SUFFICES ASSUME alive', NEW u \in Threads, NEW d \in held'[u]
                   PROVE  \E q \in keys' : pool'[q][u] = d
        OBVIOUS
      <4>6. CASE u = t /\ d = c
        BY <4>2, <4>3, <4>6
      <4>7. CASE d \in held[u]
        <5>1. PICK q \in keys : pool[q][u] = d
          BY <4>2, <4>7
        <5>2. d # c /\ d # NoConn /\ q \in Params
          BY <4>4, <4>7, ConnsAssumption
        <5>3. pool'[q][u] = d
          BY <4>2, <4>3, <5>1, <5>2
        <5> QED
          BY <4>2, <5>3
      <4> QED
        BY <4>5, <4>6, <4>7
    <3>2. CASE ~\E j \in Threads : Moves(t, j)
      BY <2>1, <3>2, ScanStep, <1>1
    <3> QED
      BY <3>1, <3>2
  <2>2. CASE GetConnect(t)
    <3>1. PICK c \in Conns : pool' = [pool EXCEPT ![arg[t]][t] = c] /\ Return(t, c)
      BY <2>2 DEF GetConnect
    <3>2. arg[t] \in Params /\ pool[arg[t]][t] = NoConn /\ keys' = keys \cup {arg[t]} /\ alive' = alive
      BY <2>2 DEF GetConnect, ParamsMatch, Searching, GetLocations
    <3>3. \A q \in Params : \A u \in Threads :
            pool'[q][u] = IF q = arg[t] /\ u = t THEN c ELSE pool[q][u]
      BY <3>1, <3>2
    <3>4. \A u \in Threads : held'[u] = IF u = t THEN held[u] \cup {c} ELSE held[u]
      BY <3>1 DEF Return
    <3> SUFFICES ASSUME alive', NEW u \in Threads, NEW d \in held'[u]
                 PROVE  \E q \in keys' : pool'[q][u] = d
      OBVIOUS
    <3>5. CASE u = t /\ d = c
      BY <3>2, <3>3, <3>5
    <3>6. CASE d \in held[u]
      <4>1. PICK q \in keys : pool[q][u] = d
        BY <3>2, <3>6
      <4>2. d # NoConn
        BY <3>6, ConnsAssumption
      <4> QED
        BY <3>2, <3>3, <4>1, <4>2
    <3> QED
      BY <3>4, <3>5, <3>6
  <2>3. CASE GetNoneFree(t) \/ GetFail(t) \/ PurgePool(t) \/ PurgeLook(t)
    BY <2>3, <1>1 DEF GetNoneFree, GetFail, PurgePool, PurgeLook
  <2>4. CASE PurgeErase(t)
    <3>1. cur \in Params /\ \A i \in idle : Holders(pool[cur][i]) = {}
      BY <2>4 DEF PurgeErase, ParamsMatch, Purging, Idle
    <3>2. \A q \in Params : \A u \in Threads :
            pool'[q][u] = IF q = cur /\ u \in idle THEN NoConn ELSE pool[q][u]
      BY <2>4, <3>1 DEF PurgeErase
    <3>3. UNCHANGED <<keys, held, alive>>
      BY <2>4 DEF PurgeErase
    <3> SUFFICES ASSUME alive, NEW u \in Threads, NEW d \in held[u]
                 PROVE  \E q \in keys : pool'[q][u] = d
      BY <3>3
    <3>4. PICK q \in keys : pool[q][u] = d
      OBVIOUS
    <3>5. ~(q = cur /\ u \in idle)
      BY <3>1, <3>4 DEF Holders
    <3> QED
      BY <3>2, <3>4, <3>5
  <2>5. CASE PurgeEnd(t)
    <3>1. UNCHANGED <<pool, held, alive>> /\ keys' = keys \ empty
      BY <2>5 DEF PurgeEnd
    <3>2. \A q \in empty : \A u \in Threads : pool[q][u] = NoConn
      BY DEF MapsMatch, Entries
    <3> QED
      BY <3>1, <3>2, ConnsAssumption
  <2> QED
    BY <1>2, <2>1, <2>2, <2>3, <2>4, <2>5 DEF Running
<1>3. ASSUME NEW t \in Threads, Getting(t) \/ PurgeStart(t) PROVE HeldIsPooled'
  <2>1. CASE GetOwn(t)
    <3>1. /\ arg[t] \in keys /\ UNCHANGED <<keys, pool, alive>>
          /\ \A u \in Threads : held'[u] = IF u = t THEN held[u] \cup {pool[arg[t]][t]} ELSE held[u]
      BY <2>1 DEF GetOwn, Return
    <3> SUFFICES ASSUME alive', NEW u \in Threads, NEW d \in held'[u]
                 PROVE  \E q \in keys : pool[q][u] = d
      BY <3>1
    <3>2. CASE u = t /\ d = pool[arg[t]][t]
      BY <3>1, <3>2
    <3>3. CASE d \in held[u]
      BY <3>1, <3>3
    <3> QED
      BY <3>1, <3>2, <3>3
  <2>2. CASE ~GetOwn(t)
    BY <1>3, <2>2, <1>1 DEF Getting, GetFirst, GetSearch, PurgeStart
  <2> QED
    BY <2>1, <2>2
<1>4. ASSUME NEW t \in Threads, NEW p, CallGet(t, p) \/ CallPurge(t, p) PROVE HeldIsPooled'
  BY <1>4, <1>1 DEF CallGet, CallPurge
<1>5. ASSUME NEW t \in Threads, NEW c, Drop(t, c) PROVE HeldIsPooled'
  BY <1>5, <1>1 DEF Drop
<1>6. CASE UNCHANGED vars
  BY <1>6, <1>1 DEF vars
<1>7. CASE Destroy
  BY <1>7 DEF Destroy
<1> QED
  BY <1>2, <1>3, <1>4, <1>5, <1>6, <1>7 DEF Next

\* get() returns the caller's own entry, or a connection without handles.
LEMMA ExclusiveStep ==
    ASSUME TypeOK, ParamsMatch, Searching, Destroyed, Exclusive, HeldIsPooled, PooledOnce,
           [Next]_vars
    PROVE  Exclusive'
<1> USE DEF TypeOK, Exclusive
<1>1. ASSUME \A u \in Threads : held'[u] \subseteq held[u] PROVE Exclusive'
  BY <1>1
<1>2. ASSUME NEW t \in Threads, NEW c, held' = [held EXCEPT ![t] = @ \cup {c}],
             \A u \in Threads : u # t => c \notin held[u]
      PROVE  Exclusive'
  <2>1. \A u \in Threads : held'[u] = IF u = t THEN held[u] \cup {c} ELSE held[u]
    BY <1>2
  <2> QED
    BY <1>2, <2>1
<1>3. ASSUME NEW t \in Threads, Running(t) PROVE Exclusive'
  <2>1. CASE GetScan(t)
    <3>1. CASE \E j \in Threads : Moves(t, j)
      <4>1. PICK j \in Threads : Moves(t, j)
        BY <3>1
      <4>2. \A u \in Threads : pool[arg[t]][j] \notin held[u]
        BY <4>1 DEF Moves, Holders
      <4>3. held' = [held EXCEPT ![t] = @ \cup {pool[arg[t]][j]}]
        BY <4>1 DEF Moves
      <4> QED
        BY <4>2, <4>3, <1>2
    <3>2. CASE ~\E j \in Threads : Moves(t, j)
      BY <2>1, <3>2, ScanStep, <1>1
    <3> QED
      BY <3>1, <3>2
  <2>2. CASE GetConnect(t)
    <3>1. PICK c \in Conns : UseCount(c) = 0 /\ held' = [held EXCEPT ![t] = @ \cup {c}]
      BY <2>2 DEF GetConnect, Return
    <3>2. \A u \in Threads : c \notin held[u]
      BY <3>1, NewMeans
    <3> QED
      BY <3>1, <3>2, <1>2
  <2>3. CASE ~GetScan(t) /\ ~GetConnect(t)
    <3>1. held' = held
      BY <1>3, <2>3 DEF Running, GetNoneFree, GetFail, PurgePool, PurgeLook, PurgeErase, PurgeEnd
    <3> QED
      BY <3>1, <1>1
  <2> QED
    BY <2>1, <2>2, <2>3
<1>4. ASSUME NEW t \in Threads, Getting(t) \/ PurgeStart(t) PROVE Exclusive'
  <2>1. CASE GetOwn(t)
    <3> DEFINE c == pool[arg[t]][t]
    <3>1. arg[t] \in keys /\ arg[t] \in Params /\ c # NoConn /\ held' = [held EXCEPT ![t] = @ \cup {c}]
      BY <2>1 DEF GetOwn, Return
    <3>2. alive
      BY <2>1 DEF GetOwn, Destroyed
    <3>3. ASSUME NEW u \in Threads, u # t, c \in held[u] PROVE FALSE
      <4>1. PICK q \in keys : pool[q][u] = c
        BY <3>2, <3>3 DEF HeldIsPooled
      <4>2. q \in Params
        OBVIOUS
      <4> QED
        BY <3>1, <3>3, <4>1, <4>2 DEF PooledOnce
    <3> QED
      BY <3>1, <3>3, <1>2
  <2>2. CASE ~GetOwn(t)
    <3>1. held' = held
      BY <1>4, <2>2 DEF Getting, GetFirst, GetSearch, PurgeStart
    <3> QED
      BY <3>1, <1>1
  <2> QED
    BY <2>1, <2>2
<1>5. ASSUME NEW t \in Threads, NEW p, CallGet(t, p) \/ CallPurge(t, p) PROVE Exclusive'
  BY <1>5, <1>1 DEF CallGet, CallPurge
<1>6. ASSUME NEW t \in Threads, NEW c, Drop(t, c) PROVE Exclusive'
  <2>1. \A u \in Threads : held'[u] \subseteq held[u]
    BY <1>6 DEF Drop
  <2> QED
    BY <2>1, <1>1
<1>7. CASE Destroy \/ UNCHANGED vars
  <2>1. held' = held
    BY <1>7 DEF Destroy, vars
  <2> QED
    BY <2>1, <1>1
<1> QED
  BY <1>3, <1>4, <1>5, <1>6, <1>7 DEF Next

-----------------------------------------------------------------------------
Inv ==
    /\ TypeOK /\ MuxDiscipline /\ ParamsMatch
    /\ MapsMatch /\ Searching /\ Purging /\ Destroyed
    /\ Exclusive /\ HeldIsPooled /\ PooledOnce

\* The inductive invariant holds in every state.
THEOREM Invariance == Spec => []Inv
<1>1. Init => Inv
  BY ThreadsAssumption DEF Init, Inv, TypeOK, Locations, MuxDiscipline, ParamsMatch, MapsMatch,
       Searching, Purging, Destroyed, Exclusive, HeldIsPooled, PooledOnce, GetLocations,
       PurgeLocations, Entries
<1>2. Inv /\ [Next]_vars => Inv'
  <2> SUFFICES ASSUME Inv, [Next]_vars PROVE Inv'
    OBVIOUS
  <2>1. TypeOK' /\ MuxDiscipline' /\ ParamsMatch'
    BY TypeStep, MutexStep, ParamsStep DEF Inv
  <2>2. MapsMatch' /\ Searching' /\ Purging' /\ Destroyed'
    BY MapsStep, SearchingStep, PurgingStep, DestroyedStep DEF Inv
  <2>3. Exclusive' /\ HeldIsPooled' /\ PooledOnce'
    BY ExclusiveStep, PooledStep, OnceStep DEF Inv
  <2> QED
    BY <2>1, <2>2, <2>3 DEF Inv
<1> QED
  BY <1>1, <1>2, PTL DEF Spec

\* Every variable of the pool always has its type.
THEOREM TypeCorrect == Spec => []TypeOK
<1>1. Inv => TypeOK
  BY DEF Inv
<1> QED
  BY <1>1, Invariance, PTL

\* No two threads ever have a handle of the same connection, and while the
\* pool exists a connection in use keeps its entry under the id of its user:
\* for any number of threads, connection strings and connections.
THEOREM Safety == Spec => [](Exclusive /\ HeldIsPooled /\ PooledOnce)
<1>1. Inv => Exclusive /\ HeldIsPooled /\ PooledOnce
  BY DEF Inv
<1> QED
  BY <1>1, Invariance, PTL

\* While nobody is inside, exactly the strings with connections have a map.
THEOREM NothingLeftBehind == Spec => []NoEmptyPool
<1>1. Inv => NoEmptyPool
  BY DEF Inv, TypeOK, MuxDiscipline, MapsMatch, NoEmptyPool, Entries
<1> QED
  BY <1>1, Invariance, PTL

-----------------------------------------------------------------------------
\* While a purge is inside, nobody has a handle of what was idle when it began,
\* and what is still pooled of it is in a pool it has not come to yet, or among
\* the entries it has not looked at or has found idle.
ToBeClosed ==
    \A t \in Threads : pc[t] \in PurgeLocations => \A c \in idleBefore :
        /\ Holders(c) = {}
        /\ \A p \in Params : \A j \in Threads : pool[p][j] = c =>
               p \in pools \/ (pc[t] = "purge_look" /\ p = cur /\ j \in left \cup idle)

\* A connection that nobody has a handle of counts as unused on its one entry.
LEMMA UnusedIs ==
    ASSUME TypeOK, PooledOnce, NEW p \in Params, NEW j \in Threads,
           pool[p][j] # NoConn, Holders(pool[p][j]) = {}
    PROVE  Unused(p, j)
<1> DEFINE c == pool[p][j]
<1>1. Refs(c) = {<<p, j>>}
  <2>1. <<p, j>> \in Refs(c)
    BY DEF Refs
  <2>2. ASSUME NEW r \in Refs(c) PROVE r = <<p, j>>
    <3>1. r \in Params \X Threads /\ pool[r[1]][r[2]] = c
      BY <2>2 DEF Refs
    <3>2. r[1] = p /\ r[2] = j
      BY <3>1 DEF PooledOnce
    <3> QED
      BY <3>1, <3>2
  <2> QED
    BY <2>1, <2>2
<1>2. Cardinality(Refs(c)) = 1 /\ Cardinality(Holders(c)) = 0
  BY <1>1, FS_Singleton, FS_EmptySet
<1> QED
  BY <1>2 DEF Unused, UseCount

\* What the handles and the maps look like when a purge begins.
LEMMA ClosedStart ==
    ASSUME Inv, NEW t \in Threads, PurgeStart(t) PROVE ToBeClosed'
<1> USE ThreadsAssumption, ConnsAssumption DEF Inv, TypeOK, locals, Goto, Enter
<1>1. UNCHANGED <<pool, held>> /\ pools' = Purged(t) /\ mux = NoThread
  BY DEF PurgeStart
<1>2. idleBefore' = {c \in Conns : UseCount(c) = 1 /\ \E p \in Purged(t), j \in Threads : pool[p][j] = c}
  BY DEF PurgeStart
<1>3. ASSUME NEW c \in idleBefore'
      PROVE  Holders(c)' = {} /\ \A p \in Params : \A j \in Threads : pool[p][j] = c => p \in pools'
  <2>1. PICK q \in Purged(t), i \in Threads : pool[q][i] = c
    BY <1>2
  <2>2. q \in Params /\ c # NoConn /\ UseCount(c) = 1
    BY <1>2 DEF Purged
  <2>3. Holders(c) = {}
    BY <2>1, <2>2, UnusedMeans DEF Unused
  <2>4. Holders(c)' = {}
    BY <1>1, <2>3 DEF Holders
  <2> QED
    BY <1>1, <2>1, <2>2, <2>4 DEF PooledOnce
<1> QED
  BY <1>1, <1>3 DEF ToBeClosed

\* Every step of a purge leaves what is to be closed for later, or closes it.
LEMMA ClosedRunning ==
    ASSUME Inv, ToBeClosed, NEW t \in Threads, pc[t] \in PurgeLocations, Running(t)
    PROVE  ToBeClosed'
<1> USE DEF Inv, TypeOK, locals, Goto, PurgeLocations
<1>1. \A u \in Threads : u # t => pc[u] \notin PurgeLocations
  BY ThreadsAssumption DEF MuxDiscipline
<1>2. CASE PurgePool(t)
  <2>1. PICK q \in pools : pools' = pools \ {q} /\ cur' = q /\ left' = Entries(q)
    BY <1>2 DEF PurgePool
  <2>2. UNCHANGED <<pool, held, idleBefore>> /\ pc' = [pc EXCEPT ![t] = "purge_look"]
    BY <1>2 DEF PurgePool
  <2>3. ASSUME NEW c \in idleBefore, NEW p \in Params, NEW j \in Threads, pool[p][j] = c
        PROVE  p \in pools' \/ (p = cur' /\ j \in left')
    <3>1. p \in pools /\ c # NoConn
      BY <1>2, <2>3, ConnsAssumption DEF PurgePool, ToBeClosed
    <3> QED
      BY <2>1, <2>3, <3>1 DEF Entries
  <2>4. \A c \in idleBefore : Holders(c)' = {}
    BY <2>2 DEF ToBeClosed, Holders
  <2> QED
    BY <1>1, <2>2, <2>3, <2>4 DEF ToBeClosed
<1>3. CASE PurgeLook(t)
  <2>1. PICK i \in left : /\ left' = left \ {i}
                          /\ idle' = IF Unused(cur, i) THEN idle \cup {i} ELSE idle
    BY <1>3 DEF PurgeLook
  <2>2. UNCHANGED <<pool, held, pools, cur, pc, idleBefore>> /\ pc[t] = "purge_look" /\ cur \in Params
    BY <1>3 DEF PurgeLook, ParamsMatch
  <2>3. pool[cur][i] \in idleBefore => Unused(cur, i)
    BY <2>1, <2>2, UnusedIs, ConnsAssumption DEF ToBeClosed
  <2>4. \A c \in idleBefore : Holders(c)' = {}
    BY <2>2 DEF ToBeClosed, Holders
  <2>5. ASSUME NEW c \in idleBefore, NEW p \in Params, NEW j \in Threads, pool[p][j] = c
        PROVE  p \in pools \/ (p = cur /\ j \in left' \cup idle')
    BY <2>1, <2>2, <2>3, <2>5 DEF ToBeClosed
  <2> QED
    BY <1>1, <2>2, <2>4, <2>5 DEF ToBeClosed
<1>4. CASE PurgeErase(t)
  <2>1. UNCHANGED <<held, pools, idleBefore>> /\ pc[t] = "purge_look" /\ left = {} /\ cur \in Params
    BY <1>4 DEF PurgeErase, ParamsMatch
  <2>2. \A q \in Params : \A u \in Threads :
          pool'[q][u] = IF q = cur /\ u \in idle THEN NoConn ELSE pool[q][u]
    BY <1>4, <2>1 DEF PurgeErase
  <2>3. \A c \in idleBefore : Holders(c)' = {}
    BY <2>1 DEF ToBeClosed, Holders
  <2>4. ASSUME NEW c \in idleBefore, NEW p \in Params, NEW j \in Threads, pool'[p][j] = c
        PROVE  p \in pools
    BY <2>1, <2>2, <2>4, ConnsAssumption DEF ToBeClosed
  <2> QED
    BY <1>1, <1>4, <2>1, <2>3, <2>4 DEF ToBeClosed, PurgeErase
<1>5. CASE PurgeEnd(t)
  BY <1>5 DEF PurgeEnd, ToBeClosed
<1>6. CASE GetScan(t) \/ GetNoneFree(t) \/ GetConnect(t) \/ GetFail(t)
  BY <1>6 DEF GetScan, GetNoneFree, GetConnect, GetFail
<1> QED
  BY <1>2, <1>3, <1>4, <1>5, <1>6 DEF Running

\* Nobody else makes a handle of such a connection or moves it.
LEMMA ClosedStep ==
    ASSUME Inv, ToBeClosed, [Next]_vars PROVE ToBeClosed'
<1> USE DEF Inv, TypeOK, locals, Goto, PurgeLocations
<1>1. ASSUME UNCHANGED <<pool, pools, cur, left, idle, idleBefore>>,
             \A u \in Threads : pc'[u] \in PurgeLocations => pc'[u] = pc[u],
             \A u \in Threads : held'[u] \subseteq held[u]
      PROVE  ToBeClosed'
  <2>1. \A c : Holders(c)' \subseteq Holders(c)
    BY <1>1 DEF Holders
  <2> QED
    BY <1>1, <2>1 DEF ToBeClosed
<1>2. ASSUME \A u \in Threads : pc'[u] \notin PurgeLocations PROVE ToBeClosed'
  BY <1>2 DEF ToBeClosed
<1>3. ASSUME NEW t \in Threads, Getting(t) PROVE ToBeClosed'
  <2>1. \A u \in Threads : pc[u] \notin PurgeLocations
    BY <1>3, ThreadsAssumption DEF MuxDiscipline, Getting, GetFirst, GetOwn, GetSearch, Enter
  <2>2. \A u \in Threads : pc'[u] \notin PurgeLocations
    BY <1>3, <2>1 DEF Getting, GetFirst, GetOwn, GetSearch, Enter
  <2> QED
    BY <2>2, <1>2
<1>4. ASSUME NEW t \in Threads, PurgeStart(t) PROVE ToBeClosed'
  BY <1>4, ClosedStart
<1>5. ASSUME NEW t \in Threads, Running(t) PROVE ToBeClosed'
  <2>1. CASE pc[t] \in PurgeLocations
    BY <1>5, <2>1, ClosedRunning
  <2>2. CASE pc[t] \notin PurgeLocations
    <3>1. pc[t] \in GetLocations
      BY <1>5, <2>2 DEF Running, GetScan, GetNoneFree, GetConnect, GetFail, PurgePool, PurgeLook,
                        PurgeErase, PurgeEnd, GetLocations
    <3>2. \A u \in Threads : pc[u] \notin PurgeLocations
      BY <2>2, <3>1, ThreadsAssumption DEF MuxDiscipline
    <3>3. \A u \in Threads : pc'[u] \notin PurgeLocations
      BY <1>5, <2>2, <3>2 DEF Running, GetScan, GetNoneFree, GetConnect, GetFail, PurgePool,
                              PurgeLook, PurgeErase, PurgeEnd, Leave
    <3> QED
      BY <3>3, <1>2
  <2> QED
    BY <2>1, <2>2
<1>6. ASSUME NEW t \in Threads, NEW p, CallGet(t, p) \/ CallPurge(t, p) PROVE ToBeClosed'
  BY <1>6, <1>1 DEF CallGet, CallPurge
<1>7. ASSUME NEW t \in Threads, NEW c, Drop(t, c) PROVE ToBeClosed'
  BY <1>7, <1>1 DEF Drop
<1>8. CASE Destroy
  BY <1>8, <1>2 DEF Destroy
<1>9. CASE UNCHANGED vars
  BY <1>9, <1>1 DEF vars
<1> QED
  BY <1>3, <1>4, <1>5, <1>6, <1>7, <1>8, <1>9 DEF Next

\* A purge closes every connection that was idle when it began, although users
\* drop handles of others while it looks at their entries.
THEOREM IdleIsClosed == Spec => PurgeClosesIdle
<1>1. Init => ToBeClosed
  BY DEF Init, ToBeClosed, PurgeLocations
<1>2. Inv /\ ToBeClosed /\ [Next]_vars => ToBeClosed'
  BY ClosedStep
<1>3. ToBeClosed => [\A t \in Threads : PurgeEnd(t) => \A c \in idleBefore : Refs(c)' = {}]_vars
  <2> SUFFICES ASSUME ToBeClosed, NEW t \in Threads, PurgeEnd(t), NEW c \in idleBefore
               PROVE  Refs(c)' = {}
    OBVIOUS
  <2>1. pool' = pool /\ pools = {} /\ pc[t] = "purge_pools"
    BY DEF PurgeEnd
  <2>2. \A p \in Params : \A j \in Threads : pool'[p][j] # c
    BY <2>1 DEF ToBeClosed, PurgeLocations
  <2> QED
    BY <2>2 DEF Refs
<1> QED
  BY <1>1, <1>2, <1>3, Invariance, PTL DEF Spec, PurgeClosesIdle

-----------------------------------------------------------------------------
Pooled(c) == \E p \in Params : \E t \in Threads : pool[p][t] = c

\* The holder of a connection in the sense of ConnLease.
LEMMA HolderIs ==
    ASSUME Inv, NEW c \in Conns
    PROVE  /\ \A t \in Threads : c \in held[t] => Holder(c) = t
           /\ (\A t \in Threads : c \notin held[t]) =>
                Holder(c) = IF Pooled(c) THEN FreeConn ELSE ClosedConn
<1>1. ASSUME NEW t \in Threads, c \in held[t] PROVE Holder(c) = t
  <2>1. \A u \in Threads : c \in held[u] => u = t
    BY <1>1 DEF Inv, Exclusive
  <2> QED
    BY <1>1, <2>1 DEF Holder, Holders
<1>2. Refs(c) # {} <=> Pooled(c)
  <2>1. ASSUME NEW p \in Params, NEW t \in Threads, pool[p][t] = c PROVE Refs(c) # {}
    <3>1. <<p, t>> \in Refs(c)
      BY <2>1 DEF Refs
    <3> QED
      BY <3>1
  <2>2. ASSUME NEW r \in Refs(c) PROVE Pooled(c)
    <3>1. r[1] \in Params /\ r[2] \in Threads /\ pool[r[1]][r[2]] = c
      BY <2>2 DEF Refs
    <3> QED
      BY <3>1 DEF Pooled
  <2> QED
    BY <2>1, <2>2 DEF Pooled
<1> QED
  BY <1>1, <1>2 DEF Holder, Holders

\* The same in the next state.
LEMMA HolderIsNext ==
    ASSUME Inv', NEW c \in Conns
    PROVE  /\ \A t \in Threads : c \in held'[t] => Holder(c)' = t
           /\ (\A t \in Threads : c \notin held'[t]) =>
                Holder(c)' = IF Pooled(c)' THEN FreeConn ELSE ClosedConn
<1>1. ASSUME NEW t \in Threads, c \in held'[t] PROVE Holder(c)' = t
  <2>1. \A u \in Threads : c \in held'[u] => u = t
    BY <1>1 DEF Inv, Exclusive
  <2> QED
    BY <1>1, <2>1 DEF Holder, Holders
<1>2. Refs(c)' # {} <=> Pooled(c)'
  <2>1. ASSUME NEW p \in Params, NEW t \in Threads, pool'[p][t] = c PROVE Refs(c)' # {}
    <3>1. <<p, t>> \in Refs(c)'
      BY <2>1 DEF Refs
    <3> QED
      BY <3>1
  <2>2. ASSUME NEW r \in Refs(c)' PROVE Pooled(c)'
    <3>1. r[1] \in Params /\ r[2] \in Threads /\ pool'[r[1]][r[2]] = c
      BY <2>2 DEF Refs
    <3> QED
      BY <3>1 DEF Pooled
  <2> QED
    BY <2>1, <2>2 DEF Pooled
<1> QED
  BY <1>1, <1>2 DEF Holder, Holders

\* A step that adds a handle of one connection that nobody has leases it.
LEMMA LeaseStep ==
    ASSUME Inv, Inv', NEW t \in Threads, NEW c \in Conns, alive, alive' = alive,
           held' = [held EXCEPT ![t] = @ \cup {c}],
           \A u \in Threads : c \notin held[u],
           \A d \in Conns : d # c => (Pooled(d)' <=> Pooled(d))
    PROVE  L!Lease(t, c)
<1>1. Holder(c) \in {FreeConn, ClosedConn}
  BY HolderIs
<1>2. \A u \in Threads : held'[u] = IF u = t THEN held[u] \cup {c} ELSE held[u]
  BY DEF Inv, TypeOK
<1>3. Holder(c)' = t
  BY <1>2, HolderIsNext
<1>4. ASSUME NEW d \in Conns, d # c PROVE Holder(d)' = Holder(d)
  <2>1. \A u \in Threads : d \in held'[u] <=> d \in held[u]
    BY <1>2, <1>4
  <2> QED
    BY <2>1, <1>4, HolderIs, HolderIsNext
<1> QED
  BY <1>1, <1>3, <1>4 DEF L!Lease

\* A step that neither changes the handles nor what is pooled is a stutter.
LEMMA StutterStep ==
    ASSUME Inv, Inv', held' = held, alive' = alive,
           \A d \in Conns : Pooled(d)' <=> Pooled(d)
    PROVE  UNCHANGED <<[c \in Conns |-> Holder(c)], alive>>
<1>1. \A d \in Conns : Holder(d)' = Holder(d)
  BY HolderIs, HolderIsNext
<1> QED
  BY <1>1

\* Every step of the pool is a step of the leases, or a stutter.
LEMMA LeaseNext ==
    ASSUME Inv, Inv', [Next]_vars
    PROVE  [L!Next]_<<[c \in Conns |-> Holder(c)], alive>>
<1> DEFINE hs == [c \in Conns |-> Holder(c)]
<1>0. /\ TypeOK /\ ParamsMatch /\ Searching /\ Purging
      /\ Destroyed /\ HeldIsPooled /\ PooledOnce /\ MapsMatch
  BY DEF Inv
<1>1. ASSUME UNCHANGED <<held, pool, alive>> PROVE UNCHANGED <<hs, alive>>
  <2>1. \A d \in Conns : Pooled(d)' <=> Pooled(d)
    BY <1>1 DEF Pooled
  <2> QED
    BY <1>1, <2>1, StutterStep
<1>2. ASSUME NEW t \in Threads, NEW c \in Conns, L!Lease(t, c) PROVE L!Next
  BY <1>2 DEF L!Next
<1>3. ASSUME NEW t \in Threads, GetOwn(t) PROVE [L!Next]_<<hs, alive>>
  <2> DEFINE c == pool[arg[t]][t]
  <2>1. /\ arg[t] \in Params /\ arg[t] \in keys /\ c \in Conns /\ pool' = pool /\ alive' = alive
        /\ held' = [held EXCEPT ![t] = @ \cup {c}]
    BY <1>0, <1>3 DEF GetOwn, Return, TypeOK
  <2>2. alive
    BY <1>0, <1>3 DEF GetOwn, Destroyed
  <2>3. CASE c \in held[t]
    <3>1. held' = held
      BY <1>0, <2>1, <2>3 DEF TypeOK
    <3> QED
      BY <2>1, <3>1, <1>1
  <2>4. CASE c \notin held[t]
    <3>1. \A u \in Threads : c \notin held[u]
      <4> SUFFICES ASSUME NEW u \in Threads, c \in held[u] PROVE FALSE
        OBVIOUS
      <4>1. PICK q \in keys : pool[q][u] = c
        BY <1>0, <2>2 DEF HeldIsPooled
      <4>2. q \in Params /\ c # NoConn
        BY <1>0, <2>1, ConnsAssumption DEF TypeOK
      <4> QED
        BY <1>0, <2>1, <2>4, <4>1, <4>2 DEF PooledOnce
    <3>2. \A d \in Conns : Pooled(d)' <=> Pooled(d)
      BY <2>1 DEF Pooled
    <3>3. L!Lease(t, c)
      BY <2>1, <2>2, <3>1, <3>2, LeaseStep
    <3> QED
      BY <2>1, <3>3, <1>2
  <2> QED
    BY <2>3, <2>4
<1>4. ASSUME NEW t \in Threads, GetScan(t) PROVE [L!Next]_<<hs, alive>>
  <2>1. CASE \E j \in Threads : Moves(t, j)
    <3>1. PICK j \in Threads : Moves(t, j)
      BY <2>1
    <3> DEFINE a == arg[t]
               c == pool[a][j]
    <3>2. a \in Params /\ c \in Conns /\ j # t /\ pool[a][t] = NoConn /\ alive' = alive
      BY <1>0, <1>4, <3>1, ScanStep DEF Moves, TypeOK
    <3>3. \A q \in Params : \A u \in Threads :
            pool'[q][u] = IF q # a THEN pool[q][u]
                          ELSE IF u = t THEN c ELSE IF u = j THEN NoConn ELSE pool[q][u]
      BY <1>0, <3>1, <3>2 DEF Moves, Move, TypeOK
    <3>4. \A d \in Conns : d # c => (Pooled(d)' <=> Pooled(d))
      BY <3>2, <3>3, ConnsAssumption DEF Pooled
    <3>5. \A u \in Threads : c \notin held[u]
      BY <3>1 DEF Moves, Holders
    <3>6. held' = [held EXCEPT ![t] = @ \cup {c}]
      BY <3>1 DEF Moves
    <3>7. alive
      BY <1>0, <1>4 DEF GetScan, Destroyed
    <3>8. L!Lease(t, c)
      BY <3>2, <3>4, <3>5, <3>6, <3>7, LeaseStep
    <3> QED
      BY <3>2, <3>8, <1>2
  <2>2. CASE ~\E j \in Threads : Moves(t, j)
    BY <1>0, <1>4, <2>2, ScanStep, <1>1
  <2> QED
    BY <2>1, <2>2
<1>5. ASSUME NEW t \in Threads, GetConnect(t) PROVE [L!Next]_<<hs, alive>>
  <2>1. PICK c \in Conns : /\ UseCount(c) = 0 /\ pool' = [pool EXCEPT ![arg[t]][t] = c]
                           /\ held' = [held EXCEPT ![t] = @ \cup {c}]
    BY <1>5 DEF GetConnect, Return
  <2>2. arg[t] \in Params /\ pool[arg[t]][t] = NoConn /\ alive' = alive /\ alive
    BY <1>0, <1>5 DEF GetConnect, ParamsMatch, Searching, GetLocations, Destroyed
  <2>3. \A q \in Params : \A u \in Threads :
          pool'[q][u] = IF q = arg[t] /\ u = t THEN c ELSE pool[q][u]
    BY <1>0, <2>1, <2>2 DEF TypeOK
  <2>4. \A d \in Conns : d # c => (Pooled(d)' <=> Pooled(d))
    BY <2>2, <2>3, ConnsAssumption DEF Pooled
  <2>5. \A u \in Threads : c \notin held[u]
    BY <2>1, NewMeans
  <2>6. L!Lease(t, c)
    BY <2>1, <2>2, <2>4, <2>5, LeaseStep
  <2> QED
    BY <2>6, <1>2
<1>6. ASSUME NEW t \in Threads, NEW c \in Conns, Drop(t, c) PROVE [L!Next]_<<hs, alive>>
  <2>1. /\ pool' = pool /\ alive' = alive /\ c \in held[t]
        /\ \A u \in Threads : held'[u] = IF u = t THEN held[u] \ {c} ELSE held[u]
    BY <1>0, <1>6 DEF Drop, TypeOK
  <2>2. \A u \in Threads : c \notin held'[u]
    BY <2>1 DEF Inv, Exclusive
  <2>3. \A d \in Conns : Pooled(d)' <=> Pooled(d)
    BY <2>1 DEF Pooled
  <2>4. \A d \in Conns : d # c => Holder(d)' = Holder(d)
    <3> SUFFICES ASSUME NEW d \in Conns, d # c PROVE Holder(d)' = Holder(d)
      OBVIOUS
    <3>1. \A u \in Threads : d \in held'[u] <=> d \in held[u]
      BY <2>1
    <3> QED
      BY <3>1, <2>3, HolderIs, HolderIsNext
  <2>5. Pooled(c) <=> alive
    <3>1. CASE alive
      <4>1. PICK q \in keys : pool[q][t] = c
        BY <1>0, <2>1, <3>1 DEF HeldIsPooled
      <4> QED
        BY <1>0, <3>1, <4>1 DEF Pooled, TypeOK
    <3>2. CASE ~alive
      BY <1>0, <3>2, ConnsAssumption DEF Destroyed, MapsMatch, Pooled
    <3> QED
      BY <3>1, <3>2
  <2>6. Holder(c) = t /\ Holder(c)' = IF alive THEN FreeConn ELSE ClosedConn
    BY <2>1, <2>2, <2>3, <2>5, HolderIs, HolderIsNext
  <2>7. L!Return(c)
    BY <2>1, <2>4, <2>6 DEF L!Return
  <2> QED
    BY <2>7 DEF L!Next
<1>7. ASSUME NEW t \in Threads, PurgeErase(t) PROVE [L!Next]_<<hs, alive>>
  <2> DEFINE erased == {c \in Conns : \E i \in idle : pool[cur][i] = c}
  <2>1. cur \in Params /\ (\A i \in idle : Idle(i)) /\ UNCHANGED <<held, alive>>
    BY <1>0, <1>7 DEF PurgeErase, ParamsMatch, Purging
  <2>2. \A q \in Params : \A u \in Threads :
          pool'[q][u] = IF q = cur /\ u \in idle THEN NoConn ELSE pool[q][u]
    BY <1>0, <1>7, <2>1 DEF PurgeErase, TypeOK
  <2>3. ASSUME NEW c \in erased PROVE Holder(c) = FreeConn /\ Holder(c)' = ClosedConn
    <3>1. PICK i \in idle : pool[cur][i] = c
      OBVIOUS
    <3>2. \A u \in Threads : c \notin held[u]
      BY <2>1, <3>1 DEF Idle, Holders
    <3>3. Pooled(c) /\ c # NoConn /\ i \in Threads
      BY <1>0, <2>1, <3>1, ConnsAssumption DEF Pooled, TypeOK
    <3>4. ~Pooled(c)'
      BY <1>0, <2>1, <2>2, <3>1, <3>3 DEF Pooled, PooledOnce
    <3> QED
      BY <2>1, <3>2, <3>3, <3>4, HolderIs, HolderIsNext
  <2>4. ASSUME NEW c \in Conns \ erased PROVE Holder(c)' = Holder(c)
    <3>1. Pooled(c)' <=> Pooled(c)
      BY <1>0, <2>1, <2>2, ConnsAssumption DEF Pooled, TypeOK
    <3> QED
      BY <2>1, <3>1, HolderIs, HolderIsNext
  <2>5. L!Close(erased)
    BY <2>1, <2>3, <2>4 DEF L!Close
  <2>6. erased \in SUBSET Conns
    OBVIOUS
  <2> QED
    BY <2>5, <2>6 DEF L!Next
<1>8. CASE Destroy
  <2>1. /\ alive /\ alive' = FALSE /\ held' = held
        /\ \A d \in Conns : ~Pooled(d)'
    BY <1>8, ConnsAssumption DEF Destroy, Pooled
  <2>2. FreeConn # ClosedConn /\ \A t \in Threads : t # FreeConn
    BY ThreadsAssumption DEF FreeConn, ClosedConn
  <2>3. ASSUME NEW c \in Conns
        PROVE  Holder(c)' = IF Holder(c) = FreeConn THEN ClosedConn ELSE Holder(c)
    BY <2>1, <2>2, HolderIs, HolderIsNext
  <2>4. L!Shutdown
    BY <2>1, <2>3 DEF L!Shutdown
  <2> QED
    BY <2>4 DEF L!Next
<1>9. ASSUME UNCHANGED <<held, pool, alive>> PROVE [L!Next]_<<hs, alive>>
  BY <1>9, <1>1
<1>10. ASSUME NEW t \in Threads,
              \/ GetFirst(t) \/ GetSearch(t) \/ PurgeStart(t) \/ GetNoneFree(t) \/ GetFail(t)
              \/ PurgePool(t) \/ PurgeLook(t) \/ PurgeEnd(t)
       PROVE  UNCHANGED <<held, pool, alive>>
  BY <1>10 DEF GetFirst, GetSearch, PurgeStart, GetNoneFree, GetFail, PurgePool, PurgeLook, PurgeEnd
<1>11. ASSUME NEW t \in Threads, NEW p, CallGet(t, p) \/ CallPurge(t, p)
       PROVE  UNCHANGED <<held, pool, alive>>
  BY <1>11 DEF CallGet, CallPurge
<1>12. CASE UNCHANGED vars
  BY <1>12, <1>9 DEF vars
<1> HIDE DEF hs
<1> QED
  BY <1>3, <1>4, <1>5, <1>6, <1>7, <1>8, <1>9, <1>10, <1>11, <1>12
     DEF Next, Getting, Running, hs

\* The pool implements leases, for any number of threads and connections: a
\* connection in use is never closed and never given to another thread.
THEOREM ImplementsLease == Spec => LeaseSpec
<1>1. Init => L!Init
  <2> SUFFICES ASSUME Init PROVE L!Init
    OBVIOUS
  <2>1. \A c \in Conns : Holders(c) = {} /\ Refs(c) = {}
    <3> SUFFICES ASSUME NEW c \in Conns PROVE Holders(c) = {} /\ Refs(c) = {}
      OBVIOUS
    <3>1. \A r \in Params \X Threads : pool[r[1]][r[2]] = NoConn
      BY DEF Init
    <3> QED
      BY <3>1, ConnsAssumption DEF Init, Holders, Refs
  <2> QED
    BY <2>1 DEF Init, L!Init, Holder
<1>2. Inv /\ Inv' /\ [Next]_vars => [L!Next]_<<[c \in Conns |-> Holder(c)], alive>>
  BY LeaseNext
<1> QED
  BY <1>1, <1>2, Invariance, PTL DEF Spec, LeaseSpec, L!Spec
=============================================================================

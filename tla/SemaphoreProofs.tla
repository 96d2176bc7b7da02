--------------------------- MODULE SemaphoreProofs ---------------------------
(***************************************************************************)
(* The safety properties of Semaphore, for every set of threads, width of  *)
(* the counter and initial count.                                          *)
(***************************************************************************)
EXTENDS Semaphore, FiniteSetTheorems, TLAPS

\* Where a thread is when it holds mux_a.
HoldingLocations ==
    {"dec_test", "dec_wait", "dec_take", "inc_notify", "try_take", "count_read"}

\* mux_a is held by the thread that is between its acquisition and release.
MuxDiscipline == \A t \in Threads : mux = t <=> pc[t] \in HoldingLocations

\* What dec() found in its loop condition still holds when it acts on it.
DecisionStands ==
    \A t \in Threads :
        /\ pc[t] = "dec_wait" => count = 0
        /\ pc[t] = "dec_take" /\ ~destructing => count > 0

-----------------------------------------------------------------------------
\* Taking one thread away, or adding one, changes the number of threads on
\* their way by at most one; none of it depends on which threads these are.
LEMMA FewerByOne ==
    ASSUME NEW S, IsFiniteSet(S), NEW T, NEW x, S \ {x} \subseteq T, IsFiniteSet(T)
    PROVE  Cardinality(S) <= Cardinality(T) + 1
<1>1. /\ Cardinality(S) \in Nat /\ Cardinality(T) \in Nat
      /\ IsFiniteSet(S \ {x}) /\ Cardinality(S \ {x}) \in Nat
  BY FS_CardinalityType, FS_RemoveElement
<1>2. Cardinality(S \ {x}) <= Cardinality(T)
  BY FS_Subset
<1>3. Cardinality(S) <= Cardinality(S \ {x}) + 1
  BY FS_RemoveElement, <1>1
<1> QED
  BY <1>1, <1>2, <1>3

LEMMA MoreByOne ==
    ASSUME NEW S, IsFiniteSet(S), NEW T, IsFiniteSet(T), S \subseteq T,
           NEW x, x \in T, x \notin S
    PROVE  Cardinality(S) + 1 <= Cardinality(T)
<1>1. IsFiniteSet(S \cup {x}) /\ Cardinality(S \cup {x}) = Cardinality(S) + 1
  BY FS_AddElement
<1>2. S \cup {x} \subseteq T
  OBVIOUS
<1> QED
  BY <1>1, <1>2, FS_Subset, FS_CardinalityType

LEMMA NoMore ==
    ASSUME NEW S, NEW T, IsFiniteSet(T), S \subseteq T
    PROVE  Cardinality(S) <= Cardinality(T)
BY FS_Subset

\* The set of threads on their way is finite: it is a set of threads.
LEMMA OnTheWayFinite ==
    IsFiniteSet(OnTheWay) /\ Cardinality(OnTheWay) \in Nat
<1>1. OnTheWay \subseteq Threads
  BY DEF OnTheWay, Woken
<1> QED
  BY <1>1, ThreadsAssumption, FS_Subset, FS_CardinalityType

-----------------------------------------------------------------------------
\* Every variable of the semaphore always has its type; in particular the
\* counter stays within its width.
THEOREM TypeCorrect == Spec => []TypeOK
<1>1. Init => TypeOK
  <2> SUFFICES ASSUME Init PROVE TypeOK
    OBVIOUS
  <2>1. pc \in [Threads -> Locations]
    BY DEF Init, Locations
  <2>2. count \in 0..(CounterMod - 1) /\ given \in 0..MaxGiven /\ taken \in Nat
    BY CounterAssumption DEF Init
  <2> QED
    BY <2>1, <2>2 DEF Init, TypeOK
<1>2. TypeOK /\ [Next]_vars => TypeOK'
  <2> SUFFICES ASSUME TypeOK, [Next]_vars PROVE TypeOK'
    OBVIOUS
  <2> USE ThreadsAssumption, CounterAssumption DEF TypeOK, Locations
  <2>1. ASSUME NEW t \in Threads, Calling(t) PROVE TypeOK'
    BY <2>1 DEF Calling, Call, Goto
  <2>2. ASSUME NEW t \in Threads, Locking(t) PROVE TypeOK'
    BY <2>2 DEF Locking, Acquire, IncAdd, Goto
  <2>3. ASSUME NEW t \in Threads, Unlocking(t) PROVE TypeOK'
    <3>1. CASE DecTest(t) \/ DecWait(t) \/ CountRead(t)
      BY <3>1 DEF DecTest, DecWait, CountRead, Goto
    <3>2. CASE DecTake(t)
      BY <3>2 DEF DecTake, Decrement, Goto
    <3>3. CASE TryTake(t)
      BY <3>3 DEF TryTake, Decrement, Goto
    <3>4. CASE IncNotify(t)
      BY <3>4 DEF IncNotify, Waiting, Goto
    <3> QED
      BY <2>3, <3>1, <3>2, <3>3, <3>4 DEF Unlocking
  <2>4. ASSUME NEW t \in Threads, SpuriousWake(t) PROVE TypeOK'
    BY <2>4 DEF SpuriousWake, Goto
  <2>5. CASE DtorFlag
    BY <2>5 DEF DtorFlag
  <2>6. CASE DtorNotify
    BY <2>6 DEF DtorNotify
  <2>7. CASE UNCHANGED vars
    BY <2>7 DEF vars
  <2> QED
    BY <2>1, <2>2, <2>3, <2>4, <2>5, <2>6, <2>7 DEF Next
<1> QED
  BY <1>1, <1>2, PTL DEF Spec

-----------------------------------------------------------------------------
\* The mutex invariant is inductive on its own.
THEOREM MuxHeld == Spec => []MuxDiscipline
<1>1. Init => MuxDiscipline
  BY ThreadsAssumption DEF Init, MuxDiscipline, HoldingLocations
<1>2. TypeOK /\ MuxDiscipline /\ [Next]_vars => MuxDiscipline'
  <2> SUFFICES ASSUME TypeOK, MuxDiscipline, [Next]_vars PROVE MuxDiscipline'
    OBVIOUS
  <2> USE ThreadsAssumption DEF TypeOK, MuxDiscipline, HoldingLocations
  <2>1. ASSUME NEW t \in Threads, Calling(t) PROVE MuxDiscipline'
    BY <2>1 DEF Calling, Call, Goto
  <2>2. ASSUME NEW t \in Threads, Locking(t) PROVE MuxDiscipline'
    BY <2>2 DEF Locking, Acquire, IncAdd, Goto
  <2>3. ASSUME NEW t \in Threads, Unlocking(t) PROVE MuxDiscipline'
    <3>1. CASE DecTest(t) \/ DecWait(t) \/ CountRead(t)
      BY <3>1 DEF DecTest, DecWait, CountRead, Goto
    <3>2. CASE DecTake(t)
      BY <3>2 DEF DecTake, Goto
    <3>3. CASE TryTake(t)
      BY <3>3 DEF TryTake, Goto
    <3>4. CASE IncNotify(t)
      BY <3>4 DEF IncNotify, Waiting, Goto
    <3> QED
      BY <2>3, <3>1, <3>2, <3>3, <3>4 DEF Unlocking
  <2>4. ASSUME NEW t \in Threads, SpuriousWake(t) PROVE MuxDiscipline'
    BY <2>4 DEF SpuriousWake, Goto
  <2>5. CASE DtorFlag
    BY <2>5 DEF DtorFlag
  <2>6. CASE DtorNotify
    BY <2>6 DEF DtorNotify, Waiting
  <2>7. CASE UNCHANGED vars
    BY <2>7 DEF vars
  <2> QED
    BY <2>1, <2>2, <2>3, <2>4, <2>5, <2>6, <2>7 DEF Next
<1> QED
  BY <1>1, <1>2, TypeCorrect, PTL DEF Spec

-----------------------------------------------------------------------------
\* The two counter updates: an increment may wrap, a decrement of a positive
\* counter does not.
LEMMA CounterUpdates ==
    ASSUME NEW c \in 0..(CounterMod - 1)
    PROVE  /\ (c + 1) % CounterMod \in {c + 1, 0}
           /\ c > 0 => (c - 1) % CounterMod = c - 1
<1>1. c + 1 < CounterMod => (c + 1) % CounterMod = c + 1
  BY CounterAssumption
<1>2. c + 1 = CounterMod => (c + 1) % CounterMod = 0
  BY CounterAssumption
<1>3. c > 0 => (c - 1) % CounterMod = c - 1
  BY CounterAssumption
<1> QED
  BY <1>1, <1>2, <1>3, CounterAssumption

\* The counter only changes under mux_a, so the outcome of dec()'s test lasts.
LEMMA DecisionStep ==
    TypeOK /\ MuxDiscipline /\ DecisionStands /\ [Next]_vars => DecisionStands'
<1> SUFFICES ASSUME TypeOK, MuxDiscipline, DecisionStands, [Next]_vars
             PROVE  DecisionStands'
  OBVIOUS
<1> USE ThreadsAssumption DEF TypeOK, MuxDiscipline, HoldingLocations, DecisionStands
<1>1. ASSUME NEW t \in Threads, Calling(t) PROVE DecisionStands'
  BY <1>1 DEF Calling, Call, Goto
<1>2. ASSUME NEW t \in Threads, Locking(t) PROVE DecisionStands'
  BY <1>2 DEF Locking, Acquire, IncAdd, Goto
<1>3. ASSUME NEW t \in Threads, Unlocking(t) PROVE DecisionStands'
  <2>1. CASE DecTest(t) \/ DecWait(t) \/ CountRead(t)
    BY <2>1 DEF DecTest, DecWait, CountRead, Goto
  <2>2. CASE DecTake(t)
    BY <2>2 DEF DecTake, Goto
  <2>3. CASE TryTake(t)
    BY <2>3 DEF TryTake, Goto
  <2>4. CASE IncNotify(t)
    BY <2>4 DEF IncNotify, Waiting, Goto
  <2> QED
    BY <1>3, <2>1, <2>2, <2>3, <2>4 DEF Unlocking
<1>4. ASSUME NEW t \in Threads, SpuriousWake(t) PROVE DecisionStands'
  BY <1>4 DEF SpuriousWake, Goto
<1>5. CASE DtorFlag
  BY <1>5 DEF DtorFlag
<1>6. CASE DtorNotify
  BY <1>6 DEF DtorNotify, Waiting
<1>7. CASE UNCHANGED vars
  BY <1>7 DEF vars
<1> QED
  BY <1>1, <1>2, <1>3, <1>4, <1>5, <1>6, <1>7 DEF Next

\* Only a positive counter is decremented: each token taken was given.
LEMMA TokenStep ==
    TypeOK /\ DecisionStands /\ NoTokenFromNothing /\ [Next]_vars => NoTokenFromNothing'
<1> SUFFICES ASSUME TypeOK, DecisionStands, NoTokenFromNothing, [Next]_vars
             PROVE  NoTokenFromNothing'
  OBVIOUS
<1> USE CounterAssumption DEF TypeOK, NoTokenFromNothing
<1>1. ASSUME NEW t \in Threads, DecTake(t) PROVE NoTokenFromNothing'
  <2>1. CASE destructing
    BY <1>1, <2>1 DEF DecTake
  <2>2. CASE ~destructing
    <3>1. count > 0
      BY <1>1, <2>2 DEF DecTake, DecisionStands
    <3>2. count' = count - 1 /\ taken' = taken + 1 /\ given' = given
      BY <1>1, <2>2, <3>1, CounterUpdates DEF DecTake, Decrement
    <3> QED
      BY <3>2
  <2> QED
    BY <2>1, <2>2
<1>2. ASSUME NEW t \in Threads, TryTake(t) PROVE NoTokenFromNothing'
  <2>1. CASE count = 0
    BY <1>2, <2>1 DEF TryTake
  <2>2. CASE count # 0
    <3>1. count' = count - 1 /\ taken' = taken + 1 /\ given' = given
      BY <1>2, <2>2, CounterUpdates DEF TryTake, Decrement
    <3> QED
      BY <3>1
  <2> QED
    BY <2>1, <2>2
<1>3. ASSUME NEW t \in Threads, IncAdd(t) PROVE NoTokenFromNothing'
  <2>1. taken' = taken /\ given' = given + 1 /\ (count' = count + 1 \/ count' = 0)
    BY <1>3, CounterUpdates DEF IncAdd
  <2> QED
    BY <2>1
<1>4. CASE UNCHANGED <<count, given, taken>>
  BY <1>4
<1>5. (\A t \in Threads : ~DecTake(t) /\ ~TryTake(t) /\ ~IncAdd(t))
        => UNCHANGED <<count, given, taken>>
  BY DEF Next, Calling, Call, Locking, Acquire, Unlocking, DecTest, DecWait, IncNotify,
         CountRead, SpuriousWake, DtorFlag, DtorNotify, vars
<1> QED
  BY <1>1, <1>2, <1>3, <1>4, <1>5

-----------------------------------------------------------------------------
\* No step leaves more tokens than threads on their way: an increment puts
\* its own thread there before it notifies, a notification replaces it by the
\* notified one, and a thread gives its place up only with a token, or when
\* the counter is zero, or when nobody waits.
LEMMA WakeupStep ==
    ASSUME TypeOK, MuxDiscipline, DecisionStands, NoLostWakeup, [Next]_vars
    PROVE  NoLostWakeup'
<1>0. /\ IsFiniteSet(OnTheWay) /\ Cardinality(OnTheWay) \in Nat
      /\ IsFiniteSet(OnTheWay') /\ Cardinality(OnTheWay') \in Nat
      /\ count \in Int
  <2>1. OnTheWay' \subseteq Threads
    BY DEF OnTheWay, Woken
  <2> QED
    BY <2>1, OnTheWayFinite, ThreadsAssumption, FS_Subset, FS_CardinalityType,
       CounterAssumption DEF TypeOK
<1> SUFFICES ASSUME ~destructing', Waiting' # {}
             PROVE  count' <= Cardinality(OnTheWay')
  BY DEF NoLostWakeup
\* A step that keeps the counter and takes nobody off the way.
<1>1. ASSUME count' = count, OnTheWay \subseteq OnTheWay', Waiting # {}, ~destructing
      PROVE  count' <= Cardinality(OnTheWay')
  BY <1>0, <1>1, NoMore DEF NoLostWakeup
\* A step that takes a token and at most one thread off the way.
<1>2. ASSUME NEW t, count' = count - 1, OnTheWay \ {t} \subseteq OnTheWay', Waiting # {},
             ~destructing
      PROVE  count' <= Cardinality(OnTheWay')
  <2>1. Cardinality(OnTheWay) <= Cardinality(OnTheWay') + 1
    BY <1>0, <1>2, FewerByOne
  <2>2. count <= Cardinality(OnTheWay)
    BY <1>2 DEF NoLostWakeup
  <2> QED
    BY <1>0, <1>2, <2>1, <2>2
<1>3. ASSUME count' = 0 PROVE count' <= Cardinality(OnTheWay')
  BY <1>0, <1>3
<1> USE DEF TypeOK, OnTheWay, Woken, Waiting
<1>4. ASSUME NEW t \in Threads, Calling(t) PROVE count' <= Cardinality(OnTheWay')
  <2>1. count' = count /\ OnTheWay \subseteq OnTheWay' /\ Waiting # {} /\ ~destructing
    BY <1>4 DEF Calling, Call, Goto
  <2> QED
    BY <2>1, <1>1
<1>5. ASSUME NEW t \in Threads, Locking(t) PROVE count' <= Cardinality(OnTheWay')
  <2>1. CASE IncAdd(t)
    <3>1. OnTheWay \subseteq OnTheWay' /\ t \in OnTheWay' /\ t \notin OnTheWay
      BY <2>1 DEF IncAdd, Goto
    <3>2. Waiting # {} /\ ~destructing
      BY <2>1 DEF IncAdd, Goto
    <3>3. count' = count + 1 \/ count' = 0
      BY <2>1, CounterUpdates DEF IncAdd
    <3>4. Cardinality(OnTheWay) + 1 <= Cardinality(OnTheWay')
      BY <1>0, <3>1, MoreByOne
    <3>5. count <= Cardinality(OnTheWay)
      BY <3>2 DEF NoLostWakeup
    <3> HIDE DEF TypeOK, OnTheWay, Woken, Waiting
    <3> QED
      BY <1>0, <3>3, <3>4, <3>5
  <2>2. CASE ~IncAdd(t)
    <3>1. count' = count /\ OnTheWay \subseteq OnTheWay' /\ Waiting # {} /\ ~destructing
      BY <1>5, <2>2 DEF Locking, Acquire, Goto
    <3> QED
      BY <3>1, <1>1
  <2> QED
    BY <2>1, <2>2
<1>6. ASSUME NEW t \in Threads, Unlocking(t) PROVE count' <= Cardinality(OnTheWay')
  <2>1. CASE DecTest(t) \/ CountRead(t)
    <3>1. CASE pc'[t] = "dec_wait"
      BY <2>1, <3>1, <1>3 DEF DecTest, CountRead, Goto
    <3>2. CASE pc'[t] # "dec_wait"
      <4>1. count' = count /\ OnTheWay \subseteq OnTheWay' /\ Waiting # {} /\ ~destructing
        BY <2>1, <3>2 DEF DecTest, CountRead, Goto
      <4> QED
        BY <4>1, <1>1
    <3> QED
      BY <3>1, <3>2
  <2>2. CASE DecWait(t)
    BY <2>2, <1>3 DEF DecWait, DecisionStands
  <2>3. CASE DecTake(t)
    <3>1. count > 0 /\ ~destructing
      BY <2>3 DEF DecTake, DecisionStands
    <3>2. count' = count - 1
      BY <2>3, <3>1, CounterUpdates DEF DecTake, Decrement
    <3>3. OnTheWay \ {t} \subseteq OnTheWay' /\ Waiting # {}
      BY <2>3, <3>1 DEF DecTake, Goto
    <3> QED
      BY <3>1, <3>2, <3>3, <1>2
  <2>4. CASE IncNotify(t)
    <3>1. ASSUME Waiting = {} PROVE Waiting' = {}
      BY <2>4, <3>1 DEF IncNotify, Goto
    <3>2. PICK w \in Waiting : pc' = [pc EXCEPT ![t] = "idle", ![w] = "woken"]
      BY <2>4, <3>1 DEF IncNotify
    <3>3. count' = count /\ ~destructing
      BY <2>4 DEF IncNotify
    <3>4. /\ t \in OnTheWay /\ w \notin OnTheWay /\ w # t
          /\ OnTheWay' = (OnTheWay \ {t}) \cup {w}
      BY <2>4, <3>2 DEF IncNotify
    <3>5. Cardinality(OnTheWay') = Cardinality(OnTheWay)
      <4>1. Cardinality(OnTheWay \ {t}) = Cardinality(OnTheWay) - 1 /\ IsFiniteSet(OnTheWay \ {t})
        BY <1>0, <3>4, FS_RemoveElement
      <4>2. Cardinality((OnTheWay \ {t}) \cup {w}) = Cardinality(OnTheWay \ {t}) + 1
        BY <3>4, <4>1, FS_AddElement
      <4> HIDE DEF OnTheWay
      <4> QED
        BY <1>0, <3>4, <4>1, <4>2
    <3>6. count <= Cardinality(OnTheWay)
      BY <3>2, <3>3 DEF NoLostWakeup
    <3> HIDE DEF OnTheWay
    <3> QED
      BY <3>3, <3>5, <3>6
  <2>5. CASE TryTake(t)
    <3>1. Waiting # {} /\ ~destructing /\ OnTheWay \subseteq OnTheWay'
      BY <2>5 DEF TryTake, Goto
    <3>2. CASE count = 0
      BY <2>5, <3>2, <1>3 DEF TryTake
    <3>3. CASE count # 0
      <4>1. count' = count - 1
        BY <2>5, <3>3, CounterUpdates DEF TryTake, Decrement
      <4>2. OnTheWay \ {t} \subseteq OnTheWay'
        BY <3>1
      <4> QED
        BY <3>1, <4>1, <4>2, <1>2
    <3> QED
      BY <3>2, <3>3
  <2> QED
    BY <1>6, <2>1, <2>2, <2>3, <2>4, <2>5 DEF Unlocking
<1>7. ASSUME NEW t \in Threads, SpuriousWake(t) PROVE count' <= Cardinality(OnTheWay')
  <2>1. count' = count /\ OnTheWay \subseteq OnTheWay' /\ Waiting # {} /\ ~destructing
    BY <1>7 DEF SpuriousWake, Goto
  <2> QED
    BY <2>1, <1>1
<1>8. CASE DtorFlag
  BY <1>8 DEF DtorFlag
<1>9. CASE DtorNotify
  <2>1. Waiting' = {}
    BY <1>9 DEF DtorNotify
  <2> QED
    BY <2>1
<1>10. CASE UNCHANGED vars
  <2>1. count' = count /\ OnTheWay \subseteq OnTheWay' /\ Waiting # {} /\ ~destructing
    BY <1>10 DEF vars
  <2> QED
    BY <2>1, <1>1
<1> QED
  BY <1>4, <1>5, <1>6, <1>7, <1>8, <1>9, <1>10 DEF Next

\* No wakeup is lost and no token is made up, whatever the number of threads,
\* the width of the counter and the order of the calls.
THEOREM Safety == Spec => [](NoLostWakeup /\ NoTokenFromNothing)
<1>1. Init => DecisionStands /\ NoTokenFromNothing /\ NoLostWakeup
  BY CounterAssumption DEF Init, DecisionStands, NoTokenFromNothing, NoLostWakeup, Waiting
<1>2. /\ TypeOK /\ MuxDiscipline /\ DecisionStands /\ NoTokenFromNothing /\ NoLostWakeup
      /\ [Next]_vars
      => DecisionStands' /\ NoTokenFromNothing' /\ NoLostWakeup'
  BY DecisionStep, TokenStep, WakeupStep
<1> QED
  BY <1>1, <1>2, TypeCorrect, MuxHeld, PTL DEF Spec

\* In particular there are never more tokens in stock and taken than were given,
\* also when the counter wraps.
THEOREM NothingMadeUp == Spec => []NoTokenFromNothing
  BY Safety, PTL
=============================================================================

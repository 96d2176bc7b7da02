------------------------------ MODULE Semaphore ------------------------------
(***************************************************************************)
(* The counting semaphore of src/src/Semaphore.cpp: a counter of CounterMod *)
(* values behind a mutex, a condition variable for the threads that find   *)
(* it zero, and a flag that the destructor raises WITHOUT the mutex.       *)
(*                                                                         *)
(* A thread is inside at most one call.  Each atomic access the code makes *)
(* (the unlocked reads of destructing_a, the acquisition of mux_a, the     *)
(* reads and writes under it, the wait) is a step of its own.              *)
(***************************************************************************)
EXTENDS Integers, FiniteSets

CONSTANTS
    Threads,      \* the threads that call the semaphore
    NoThread,     \* "nobody holds mux_a"
    CounterMod,   \* number of values of the counter; 2^16 in the code
    Count0,       \* the constructor's argument
    MaxGiven      \* bound: how many times inc() is called in a behaviour

ASSUME ThreadsAssumption == IsFiniteSet(Threads) /\ NoThread \notin Threads
ASSUME CounterAssumption ==
    /\ CounterMod \in Nat \ {0}
    /\ Count0 \in 0..(CounterMod - 1)
    /\ MaxGiven \in Nat

VARIABLES
    count,        \* count_a
    destructing,  \* destructing_a
    mux,          \* the holder of mux_a
    lifetime,     \* "live", "flagged" (inside ~Semaphore), "gone"
    pc,           \* where each thread is
    given,        \* history: completed increments of the counter
    taken         \* history: completed decrements of the counter

vars == <<count, destructing, mux, lifetime, pc, given, taken>>

\* "thrown" is where a call ends that met the destruction; the caller stops.
Locations == {"idle", "thrown", "dec_lock", "dec_test", "dec_wait", "waiting",
              "woken", "dec_take", "inc_lock", "inc_notify", "try_lock",
              "try_take", "count_lock", "count_read"}

\* The wait set of convar_a, and the waiters that were notified (or woke
\* spuriously) and now compete for mux_a.
Waiting == {t \in Threads : pc[t] = "waiting"}
Woken   == {t \in Threads : pc[t] = "woken"}

Init ==
    /\ count = Count0
    /\ destructing = FALSE
    /\ mux = NoThread
    /\ lifetime = "live"
    /\ pc = [t \in Threads |-> "idle"]
    /\ given = 0
    /\ taken = 0

-----------------------------------------------------------------------------
Goto(t, loc) == pc' = [pc EXCEPT ![t] = loc]

\* Entry of dec, inc, try_dec and count: the unlocked test of the flag.
\* No call starts on an object whose destructor has returned.
Call(t, first) ==
    /\ lifetime # "gone"
    /\ pc[t] = "idle"
    /\ Goto(t, IF destructing THEN "thrown" ELSE first)
    /\ UNCHANGED <<count, destructing, mux, lifetime, given, taken>>

Acquire(t, from, to) ==
    /\ mux = NoThread
    /\ pc[t] = from
    /\ mux' = t
    /\ Goto(t, to)
    /\ UNCHANGED <<count, destructing, lifetime, given, taken>>

\* dec(): the loop condition, read with mux_a held.  The flag may be raised
\* between this read and the wait, since the destructor takes no mutex.
DecTest(t) ==
    /\ pc[t] = "dec_test"
    /\ Goto(t, IF ~destructing /\ count = 0 THEN "dec_wait" ELSE "dec_take")
    /\ UNCHANGED <<count, destructing, mux, lifetime, given, taken>>

\* convar_a.wait(): releases mux_a and joins the wait set in one step.
DecWait(t) ==
    /\ pc[t] = "dec_wait"
    /\ mux' = NoThread
    /\ Goto(t, "waiting")
    /\ UNCHANGED <<count, destructing, lifetime, given, taken>>

\* The wait may also end without a notification.
SpuriousWake(t) ==
    /\ pc[t] = "waiting"
    /\ Goto(t, "woken")
    /\ UNCHANGED <<count, destructing, mux, lifetime, given, taken>>

Decrement ==
    /\ count' = (count - 1) % CounterMod
    /\ taken' = taken + 1

\* dec() after its loop: throw if the flag is up by now, else decrement.
DecTake(t) ==
    /\ pc[t] = "dec_take"
    /\ mux' = NoThread
    /\ \/ destructing /\ Goto(t, "thrown") /\ UNCHANGED <<count, taken>>
       \/ ~destructing /\ Goto(t, "idle") /\ Decrement
    /\ UNCHANGED <<destructing, lifetime, given>>

\* Mutant: the counter is wider than its type.
IncAdd_NoWrap(t) ==
    /\ mux = NoThread
    /\ pc[t] = "inc_lock"
    /\ given < MaxGiven
    /\ mux' = t
    /\ count' = count + 1
    /\ given' = given + 1
    /\ Goto(t, "inc_notify")
    /\ UNCHANGED <<destructing, lifetime, taken>>

\* inc(): take mux_a and increase the counter, which wraps ...
IncAdd(t) ==
    /\ mux = NoThread
    /\ pc[t] = "inc_lock"
    /\ given < MaxGiven
    /\ mux' = t
    /\ count' = (count + 1) % CounterMod
    /\ given' = given + 1
    /\ Goto(t, "inc_notify")
    /\ UNCHANGED <<destructing, lifetime, taken>>

\* Mutant: notify only when the counter leaves zero.
IncNotify_FirstOnly(t) ==
    /\ pc[t] = "inc_notify"
    /\ mux' = NoThread
    /\ \/ (Waiting = {} \/ count # 1) /\ Goto(t, "idle")
       \/ count = 1 /\ \E w \in Waiting : pc' = [pc EXCEPT ![t] = "idle", ![w] = "woken"]
    /\ UNCHANGED <<count, destructing, lifetime, given, taken>>

\* Mutant: the notification is forgotten.
IncNotify_Silent(t) ==
    /\ pc[t] = "inc_notify"
    /\ mux' = NoThread
    /\ Goto(t, "idle")
    /\ UNCHANGED <<count, destructing, lifetime, given, taken>>

\* ... then notify one waiter, if there is any, still holding mux_a.
IncNotify(t) ==
    /\ pc[t] = "inc_notify"
    /\ mux' = NoThread
    /\ \/ Waiting = {} /\ Goto(t, "idle")
       \/ \E w \in Waiting : pc' = [pc EXCEPT ![t] = "idle", ![w] = "woken"]
    /\ UNCHANGED <<count, destructing, lifetime, given, taken>>

\* try_dec() never looks at the flag again once it has mux_a.
TryTake(t) ==
    /\ pc[t] = "try_take"
    /\ mux' = NoThread
    /\ Goto(t, "idle")
    /\ IF count = 0 THEN UNCHANGED <<count, taken>> ELSE Decrement
    /\ UNCHANGED <<destructing, lifetime, given>>

CountRead(t) ==
    /\ pc[t] = "count_read"
    /\ mux' = NoThread
    /\ Goto(t, "idle")
    /\ UNCHANGED <<count, destructing, lifetime, given, taken>>

\* ~Semaphore(): raise the flag, then notify everyone who waits at that time.
DtorFlag ==
    /\ lifetime = "live"
    /\ lifetime' = "flagged"
    /\ destructing' = TRUE
    /\ UNCHANGED <<count, mux, pc, given, taken>>

DtorNotify ==
    /\ lifetime = "flagged"
    /\ lifetime' = "gone"
    /\ pc' = [t \in Threads |-> IF t \in Waiting THEN "woken" ELSE pc[t]]
    /\ UNCHANGED <<count, destructing, mux, given, taken>>

-----------------------------------------------------------------------------
\* Mutant: "if" instead of "while": a woken thread does not test again.
Locking_NoRetest(t) ==
    \/ Acquire(t, "dec_lock", "dec_test")
    \/ Acquire(t, "woken", "dec_take")
    \/ Acquire(t, "try_lock", "try_take")
    \/ Acquire(t, "count_lock", "count_read")
    \/ IncAdd(t)

\* The acquisitions of mux_a: on entry, and on the way out of the wait.
Locking(t) ==
    \/ Acquire(t, "dec_lock", "dec_test")
    \/ Acquire(t, "woken", "dec_test")
    \/ Acquire(t, "try_lock", "try_take")
    \/ Acquire(t, "count_lock", "count_read")
    \/ IncAdd(t)

Unlocking(t) ==
    DecTest(t) \/ DecWait(t) \/ DecTake(t) \/ IncNotify(t) \/ TryTake(t) \/ CountRead(t)

Calling(t) == \E first \in {"dec_lock", "inc_lock", "try_lock", "count_lock"} : Call(t, first)

Next ==
    \/ \E t \in Threads : Calling(t) \/ Locking(t) \/ Unlocking(t) \/ SpuriousWake(t)
    \/ DtorFlag
    \/ DtorNotify

Spec == Init /\ [][Next]_vars

\* A thread that is inside a call keeps running, and mux_a is granted sooner
\* or later to a thread that keeps asking.  Nobody has to call, to wake
\* spuriously or to start the destruction.
Fairness ==
    /\ \A t \in Threads : SF_vars(Locking(t)) /\ WF_vars(Unlocking(t))
    /\ WF_vars(DtorNotify)

FairSpec == Spec /\ Fairness

-----------------------------------------------------------------------------
TypeOK ==
    /\ count \in 0..(CounterMod - 1)
    /\ destructing \in BOOLEAN
    /\ mux \in Threads \cup {NoThread}
    /\ lifetime \in {"live", "flagged", "gone"}
    /\ pc \in [Threads -> Locations]
    /\ given \in 0..MaxGiven
    /\ taken \in Nat

\* The threads that will look at the counter, or notify one that will.
OnTheWay == Woken \cup {t \in Threads : pc[t] \in {"dec_test", "dec_take", "inc_notify"}}

\* No wakeup is lost to a racing taker: while a thread sleeps in dec() and no
\* destruction has begun, there are never more tokens than threads on their
\* way to take one.  Otherwise a thread would sleep next to a token that
\* nobody else comes for.
NoLostWakeup == (~destructing /\ Waiting # {}) => count <= Cardinality(OnTheWay)

\* Tokens are never made up: no more decrements succeed than the initial
\* count and the increments allow, whatever wakes up early or finds the token
\* of its notification taken by another thread.
NoTokenFromNothing == count + taken <= Count0 + given

Blocked(t) == pc[t] \in {"waiting", "woken"}

\* A thread blocked in dec() while the counter is positive does not stay so:
\* it gets out, or others use the counter up, or destruction begins.
WaiterServed ==
    \A t \in Threads : (Blocked(t) /\ count > 0) ~> (count = 0 \/ ~Blocked(t) \/ destructing)
=============================================================================

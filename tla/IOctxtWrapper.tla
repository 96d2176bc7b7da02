--------------------------- MODULE IOctxtWrapper ---------------------------
(***************************************************************************)
(* The wrapper of an I/O context, src/src/IOctxtWrapper.cpp, a Singleton.  *)
(*                                                                         *)
(* Callers are threads of the application; workers are the threads that    *)
(* runThreads() makes.  The context itself is modelled from its use: work  *)
(* may be posted to it, run() executes it until the context is stopped or  *)
(* there is nothing left to wait for, which stops it too; a stopped        *)
(* context runs nothing until somebody calls restart().                    *)
(* The recursive mutex of the wrapper is taken by all of its calls and is  *)
(* held while threads are joined, and as long as runHere() runs.           *)
(***************************************************************************)
EXTENDS Naturals, FiniteSets, Singleton

CONSTANTS
    Callers,
    Workers,    \* bound: threads that runThreads() may ask for
    MaxPosted   \* bound: work that waits in the context

ASSUME ProcessAssumption == Callers \cap Workers = {} /\ NoProcess \notin Callers \cup Workers
ASSUME PostedAssumption == MaxPosted \in Nat

VARIABLES
    stopped,    \* the context is stopped
    posted,     \* handlers that wait to be executed
    work,       \* work_: the guard that keeps the context running
    threads,    \* threads_
    mux,        \* who has mux_
    pc,         \* where each process is
    op,         \* the call it is executing
    swi,        \* oldSWI of the stop() that is under way
    wish        \* history: what the user last asked of stopWhenIdle()

context == <<stopped, posted>>
vars == <<singleton, context, work, threads, mux, pc, op, swi, wish>>

Processes == Callers \cup Workers
Calls == {"stop", "runHere", "runThreads", "close"}

Init ==
    /\ SingletonInit
    /\ stopped = FALSE /\ posted = 0
    /\ work = FALSE /\ threads = {} /\ mux = NoProcess
    /\ pc = [p \in Processes |-> "idle"]
    /\ op = [c \in Callers |-> "stop"]
    /\ swi = TRUE /\ wish = TRUE

Goto(p, loc) == pc' = [pc EXCEPT ![p] = loc]

\* A caller that uses the wrapper: nobody destroys it meanwhile.
Usable(c) == pc[c] = "idle" /\ instance /\ MutexFree

-----------------------------------------------------------------------------
\* The context, as its users see it: context() gives it to them.
Post(c) ==
    /\ Usable(c) /\ posted < MaxPosted
    /\ posted' = posted + 1
    /\ UNCHANGED <<singleton, stopped, work, threads, mux, pc, op, swi, wish>>

\* It may not be restarted while somebody is in run() or has just stopped it.
Restart(c) ==
    /\ Usable(c) /\ \A p \in Processes : pc[p] \notin {"join", "run", "handler", "asking"}
    /\ stopped' = FALSE
    /\ UNCHANGED <<singleton, posted, work, threads, mux, pc, op, swi, wish>>

\* run() is over: runHere() returns, or the thread ends.
Leave(p) ==
    IF p \in Callers THEN Goto(p, "idle") /\ mux' = NoProcess
                     ELSE Goto(p, "ended") /\ UNCHANGED mux

Enter(p) ==
    /\ pc[p] = "enter"
    /\ Goto(p, "run")
    /\ UNCHANGED <<singleton, context, work, threads, mux, op, swi, wish>>

ReturnStopped(p) ==
    /\ pc[p] = "run" /\ stopped
    /\ Leave(p)
    /\ UNCHANGED <<singleton, context, work, threads, op, swi, wish>>

ReturnIdle(p) ==
    /\ pc[p] = "run" /\ ~stopped /\ posted = 0 /\ ~work
    /\ \A q \in Processes : pc[q] \notin {"handler", "asking"}
    /\ stopped' = TRUE
    /\ Leave(p)
    /\ UNCHANGED <<singleton, posted, work, threads, op, swi, wish>>

\* Execute a handler; some of them ask for the instance of the wrapper.
Take(p) ==
    /\ pc[p] = "run" /\ ~stopped /\ posted > 0
    /\ posted' = posted - 1
    /\ Goto(p, "handler") \/ Goto(p, "asking")
    /\ UNCHANGED <<singleton, stopped, work, threads, mux, op, swi, wish>>

HandlerEnds(p) ==
    /\ pc[p] = "handler" \/ (pc[p] = "asking" /\ MutexFree)
    /\ Goto(p, "run")
    /\ UNCHANGED <<singleton, context, work, threads, mux, op, swi, wish>>

-----------------------------------------------------------------------------
\* Mutant: the context is not stopped.
StopContext_Not == UNCHANGED stopped

Unlocked == mux = NoProcess

StopContext == stopped' = TRUE

\* instance(): a new wrapper has a new context.
Instance(c) ==
    /\ pc[c] = "idle"
    /\ GetInstance
    /\ UNCHANGED <<context, work, threads, mux, pc, op, swi, wish>>

StopWhenIdle(c, b) ==
    /\ Usable(c) /\ Unlocked
    /\ work' = ~b
    /\ wish' = b
    /\ UNCHANGED <<singleton, context, threads, mux, pc, op, swi>>

\* The first part of stop(), which all four calls begin with: the guard is
\* taken away, the context stopped.
CallStop(c, call) ==
    /\ pc[c] = "idle" /\ Unlocked
    /\ mux' = c
    /\ swi' = ~work
    /\ work' = FALSE
    /\ StopContext
    /\ op' = [op EXCEPT ![c] = call]
    /\ Goto(c, "join")
    /\ UNCHANGED <<posted, threads, wish>>

Call(c, call) == call # "close" /\ Usable(c) /\ CallStop(c, call) /\ UNCHANGED singleton

\* close(): the destructor stops, under the mutex of the singleton.  The user
\* sees to it that no other caller is using the wrapper.
Close(c) ==
    /\ \A d \in Callers : pc[d] = "idle"
    /\ BeginClose(c)
    /\ CallStop(c, "close")

\* Mutants: joining waits for nobody; the guard is not put back.
AllJoined_Detached == TRUE
Guard_Gone == FALSE

AllJoined == \A w \in threads : pc[w] = "ended"

Guard == ~swi

\* What the four calls do after stop(), which puts the guard back.
After(c, new) ==
    /\ threads' = new
    /\ pc' = [p \in Processes |-> IF p \in new \/ (p = c /\ op[c] = "runHere") THEN "enter"
                                  ELSE IF pc[p] = "ended" \/ p = c THEN "idle" ELSE pc[p]]
    /\ mux' = IF op[c] = "runHere" THEN c ELSE NoProcess
    /\ UNCHANGED <<op, swi>>

Joined(c) ==
    /\ pc[c] = "join" /\ AllJoined
    /\ \/ /\ op[c] # "close"
          /\ work' = Guard
          /\ IF op[c] = "runThreads" THEN \E new \in SUBSET Workers : After(c, new) ELSE After(c, {})
          /\ UNCHANGED <<singleton, context, wish>>
       \/ /\ op[c] = "close"
          /\ EndClose(c)
          /\ After(c, {})
          /\ stopped' = FALSE /\ posted' = 0 /\ work' = FALSE /\ wish' = TRUE

-----------------------------------------------------------------------------
Using(c) ==
    \/ Instance(c) \/ Post(c) \/ Restart(c) \/ Close(c)
    \/ \E b \in BOOLEAN : StopWhenIdle(c, b)
    \/ \E call \in Calls : Call(c, call)

Running(p) == Enter(p) \/ ReturnStopped(p) \/ ReturnIdle(p) \/ Take(p) \/ HandlerEnds(p)

\* Threads go on, and handlers end.
Fairness == (\A p \in Processes : WF_vars(Running(p))) /\ \A c \in Callers : WF_vars(Joined(c))

-----------------------------------------------------------------------------
TypeOK ==
    /\ instance \in BOOLEAN /\ closer \in Callers \cup {NoProcess}
    /\ stopped \in BOOLEAN /\ posted \in 0 .. MaxPosted
    /\ work \in BOOLEAN /\ swi \in BOOLEAN /\ wish \in BOOLEAN
    /\ threads \subseteq Workers /\ mux \in Callers \cup {NoProcess}
    /\ pc \in [Processes -> {"idle", "join", "enter", "run", "handler", "asking", "ended"}]
    /\ op \in [Callers -> Calls]

\* Every thread that runs the context is in the list, so that it will be joined
\* and not outlive the wrapper.
AllJoinable == \A w \in Workers : pc[w] # "idle" => w \in threads /\ instance

\* Outside of the calls the guard is as the user wants it, whatever stop() did
\* to it in between.
GuardAsWished == instance /\ mux = NoProcess => work = ~wish

\* Two processes are never inside of the calls together: mux_ protects the list
\* of threads while it is joined and while runHere() runs.
OneInside == \A c, d \in Callers : pc[c] # "idle" /\ pc[d] # "idle" => c = d

\* stop() comes to an end, in whatever order threads start, run and stop, unless
\* close() waits for a handler that asks for the instance.
StopEnds == \A c \in Callers :
    pc[c] = "join" ~> \/ pc[c] # "join"
                      \/ closer = c /\ \E w \in threads : pc[w] = "asking"

\* src/hdr/bren/IOctxtWrapper.hpp:74 says runHere() blocks the calling thread,
\* and line 88 "false if it should keep running forever": it returns when there
\* is nothing left to wait for.
BlocksUntilIdle == [][\A c \in Callers :
    pc[c] = "run" /\ pc'[c] = "idle" => posted = 0 /\ ~work]_vars
=============================================================================

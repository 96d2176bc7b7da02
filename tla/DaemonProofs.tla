--------------------------- MODULE DaemonProofs ---------------------------
(***************************************************************************)
(* Proofs about Daemon: that the calls of the wrapper exclude each other,  *)
(* that no thread outlives it, and that the guard is what the user wants,  *)
(* for any number of callers, threads and pieces of work.                  *)
(***************************************************************************)
EXTENDS Daemon, TLAPS

\* What main() and the other users do to the wrapper.
WrapperStep ==
    \/ \E c \in Callers : Using(c) \/ Joined(c)
    \/ \E p \in Processes : Running(p)

\* The daemon does nothing else to it.
LEMMA StepsOfWrapper == [Next]_allVars => WrapperStep \/ UNCHANGED vars
<1> SUFFICES ASSUME [Next]_allVars PROVE WrapperStep \/ UNCHANGED vars
  OBVIOUS
<1> USE MainAssumption DEF WrapperStep, Using
<1>1. CASE MainSteps
  <2>1. CASE Options \/ Returned
    BY <2>1 DEF Options, Returned
  <2>2. CASE GetWrapper \/ KeepRunning
    BY <2>2 DEF GetWrapper, KeepRunning
  <2>3. CASE InitApplication
    BY <2>3 DEF InitApplication
  <2>4. CASE RunHere
    BY <2>4 DEF RunHere, Calls
  <2>5. CASE CloseWrapper
    BY <2>5 DEF CloseWrapper
  <2> QED  BY <1>1, <2>1, <2>2, <2>3, <2>4, <2>5 DEF MainSteps
<1>2. CASE UNCHANGED allVars
  BY <1>2 DEF allVars
<1> QED  BY <1>1, <1>2 DEF Next

-----------------------------------------------------------------------------
\* Who has the mutex is inside of a call, and nobody else; callers do not end
\* and threads do not join.
Inside ==
    /\ \A c \in Callers : (pc[c] # "idle" <=> mux = c) /\ pc[c] # "ended"
    /\ \A w \in Workers : pc[w] # "join"

\* The destructor is the call of the process that closes, and calls are made
\* to a wrapper that exists.
Closing ==
    /\ \A c \in Callers : pc[c] # "idle" => instance
    /\ closer # NoProcess => closer \in Callers /\ pc[closer] = "join" /\ op[closer] = "close"
    /\ \A c \in Callers : pc[c] = "join" /\ op[c] = "close" => closer = c

\* stop() remembers what the user wants while the guard is away.
Guarding ==
    /\ (\A c \in Callers : pc[c] # "join") => work = ~wish
    /\ \A c \in Callers : pc[c] = "join" => swi = wish

Inv == TypeOK /\ Inside /\ Closing /\ AllJoinable /\ Guarding

\* The invariant holds initially.
LEMMA InvInit == MainInit => Inv
<1> SUFFICES ASSUME Init PROVE Inv
  BY DEF MainInit
<1> USE ProcessAssumption, PostedAssumption DEF Init, SingletonInit, Processes
<1>1. TypeOK
  <2>1. pc \in [Processes -> {"idle", "join", "enter", "run", "handler", "asking", "ended"}]
    OBVIOUS
  <2>2. op \in [Callers -> Calls] /\ 0 \in 0 .. MaxPosted
    BY DEF Calls
  <2> QED  BY <2>1, <2>2 DEF TypeOK
<1>2. Inside /\ Closing /\ AllJoinable /\ Guarding
  BY DEF Inside, Closing, AllJoinable, Guarding
<1> QED  BY <1>1, <1>2 DEF Inv

\* A process that runs the context and does not leave it changes nothing else.
LEMMA RunStep ==
    ASSUME Inv, NEW p \in Processes, Running(p)
    PROVE  Inv'
<1> USE ProcessAssumption, PostedAssumption
    DEF Inv, TypeOK, Inside, Closing, AllJoinable, Guarding, Processes, Goto, singleton, context
<1>1. CASE Enter(p)
  BY <1>1 DEF Enter
<1>2. CASE ReturnStopped(p)
  BY <1>2 DEF ReturnStopped, Leave
<1>3. CASE ReturnIdle(p)
  BY <1>3 DEF ReturnIdle, Leave
<1>4. CASE Take(p)
  <2>1. posted' \in 0 .. MaxPosted
    BY <1>4 DEF Take
  <2>2. CASE Goto(p, "handler")
    BY <1>4, <2>1, <2>2 DEF Take
  <2>3. CASE Goto(p, "asking")
    BY <1>4, <2>1, <2>3 DEF Take
  <2> QED  BY <1>4, <2>2, <2>3 DEF Take
<1>5. CASE HandlerEnds(p)
  BY <1>5 DEF HandlerEnds
<1> QED  BY <1>1, <1>2, <1>3, <1>4, <1>5 DEF Running

\* The first part of a call.
LEMMA CallStep ==
    ASSUME Inv, NEW c \in Callers, NEW call \in Calls, CallStop(c, call), instance' = instance, instance,
           closer = NoProcess, closer' = IF call = "close" THEN c ELSE NoProcess
    PROVE  Inv'
<1> USE ProcessAssumption DEF Inv, Processes, Goto, Unlocked
<1>0. /\ mux = NoProcess /\ mux' = c /\ swi' = ~work /\ work' = FALSE /\ stopped' = TRUE
      /\ op' = [op EXCEPT ![c] = call] /\ pc' = [pc EXCEPT ![c] = "join"]
      /\ UNCHANGED <<posted, threads, wish>>
  BY DEF CallStop, StopContext
<1>1. TypeOK'
  BY <1>0 DEF TypeOK
<1>2. Inside'
  BY <1>0 DEF TypeOK, Inside
<1>3. Closing'
  BY <1>0 DEF TypeOK, Inside, Closing
<1>4. AllJoinable'
  BY <1>0 DEF TypeOK, AllJoinable
<1>5. Guarding'
  BY <1>0 DEF TypeOK, Inside, Guarding
<1> QED  BY <1>1, <1>2, <1>3, <1>4, <1>5

\* Everything else that the users do.
LEMMA UseStep ==
    ASSUME Inv, NEW c \in Callers, Using(c)
    PROVE  Inv'
<1> USE ProcessAssumption, PostedAssumption DEF Inv, Processes
<1>1. CASE Instance(c)
  BY <1>1 DEF Instance, GetInstance, MutexFree, TypeOK, Inside, Closing, AllJoinable, Guarding, context
<1>2. CASE Post(c)
  BY <1>2 DEF Post, TypeOK, Inside, Closing, AllJoinable, Guarding, singleton
<1>3. CASE Restart(c)
  BY <1>3 DEF Restart, TypeOK, Inside, Closing, AllJoinable, Guarding, singleton
<1>4. ASSUME NEW b \in BOOLEAN, StopWhenIdle(c, b) PROVE Inv'
  <2>1. \A d \in Callers : pc[d] # "join"
    BY <1>4 DEF StopWhenIdle, Unlocked, Inside
  <2> QED  BY <1>4, <2>1 DEF StopWhenIdle, TypeOK, Inside, Closing, AllJoinable, Guarding, singleton, context
<1>5. ASSUME NEW call \in Calls, Call(c, call) PROVE Inv'
  BY <1>5, CallStep DEF Call, Usable, MutexFree, singleton
<1>6. CASE Close(c)
  <2>1. "close" \in Calls
    BY DEF Calls
  <2> QED  BY <1>6, <2>1, CallStep DEF Close, BeginClose, MutexFree
<1> QED  BY <1>1, <1>2, <1>3, <1>4, <1>5, <1>6 DEF Using

\* The rest of a call, when the threads have ended.
LEMMA AfterStep ==
    ASSUME Inv, NEW c \in Callers, pc[c] = "join", AllJoined, NEW new \in SUBSET Workers, After(c, new)
    PROVE  /\ pc' \in [Processes -> {"idle", "join", "enter", "run", "handler", "asking", "ended"}]
           /\ Inside'
           /\ \A d \in Callers : pc'[d] # "join" /\ (pc'[d] # "idle" => d = c)
           /\ \A w \in Workers : pc'[w] # "idle" => w \in new
<1> USE ProcessAssumption DEF Inv, Processes
<1>0. pc' = [p \in Processes |-> IF p \in new \/ (p = c /\ op[c] = "runHere") THEN "enter"
                               ELSE IF pc[p] = "ended" \/ p = c THEN "idle" ELSE pc[p]]
  BY DEF After
<1>1. pc' \in [Processes -> {"idle", "join", "enter", "run", "handler", "asking", "ended"}]
  BY <1>0 DEF TypeOK
<1>2. \A d \in Callers : d # c => pc[d] = "idle" /\ pc'[d] = "idle" /\ d \notin new
  BY <1>0 DEF Inside
<1>3. pc'[c] = IF op[c] = "runHere" THEN "enter" ELSE "idle"
  BY <1>0
<1>4. mux' = IF op[c] = "runHere" THEN c ELSE NoProcess
  BY DEF After
<1>5. \A w \in Workers : pc'[w] \in {"idle", "enter"} /\ (pc'[w] # "idle" => w \in new)
  <2> TAKE w \in Workers
  <2>1. pc[w] \in {"idle", "ended"} /\ w # c
    BY DEF AllJoined, AllJoinable
  <2> QED  BY <1>0, <2>1
<1>6. Inside'
  BY <1>2, <1>3, <1>4, <1>5 DEF Inside
<1> QED  BY <1>1, <1>2, <1>3, <1>5, <1>6

\* The end of a call.
LEMMA JoinedStep ==
    ASSUME Inv, NEW c \in Callers, Joined(c)
    PROVE  Inv'
<1> USE ProcessAssumption, PostedAssumption DEF Inv, Processes
<1>0. pc[c] = "join" /\ AllJoined /\ instance
  BY DEF Joined, Closing
<1>1. ASSUME op[c] # "close", NEW new \in SUBSET Workers, After(c, new), work' = Guard,
             UNCHANGED <<singleton, context, wish>>
      PROVE  Inv'
  <2>1. /\ pc' \in [Processes -> {"idle", "join", "enter", "run", "handler", "asking", "ended"}]
        /\ Inside'
        /\ \A d \in Callers : pc'[d] # "join" /\ (pc'[d] # "idle" => d = c)
        /\ \A w \in Workers : pc'[w] # "idle" => w \in new
    BY <1>0, <1>1, AfterStep
  <2>2. UNCHANGED <<instance, closer, stopped, posted, wish, op, swi>> /\ threads' = new /\ work' = ~swi
        /\ mux' = IF op[c] = "runHere" THEN c ELSE NoProcess
    BY <1>1 DEF After, singleton, context, Guard
  <2>3. closer = NoProcess
    BY <1>0, <1>1 DEF Inside, Closing
  <2>4. TypeOK'
    BY <2>1, <2>2 DEF TypeOK
  <2>5. Closing'
    BY <1>0, <2>1, <2>2, <2>3 DEF Closing
  <2>6. AllJoinable' /\ Guarding'
    BY <1>0, <2>1, <2>2 DEF AllJoinable, Guarding
  <2> QED  BY <2>1, <2>4, <2>5, <2>6
<1>2. ASSUME op[c] = "close", EndClose(c), After(c, {}), stopped' = FALSE, posted' = 0, work' = FALSE, wish' = TRUE
      PROVE  Inv'
  <2>1. /\ pc' \in [Processes -> {"idle", "join", "enter", "run", "handler", "asking", "ended"}]
        /\ Inside'
        /\ \A d \in Callers : pc'[d] # "join" /\ (pc'[d] # "idle" => d = c)
        /\ \A w \in Workers : pc'[w] # "idle" => w \in {}
    BY <1>0, <1>2, AfterStep
  <2>2. UNCHANGED <<op, swi>> /\ threads' = {} /\ mux' = NoProcess /\ instance' = FALSE /\ closer' = NoProcess
    BY <1>2 DEF After, EndClose
  <2>3. \A d \in Callers : pc'[d] = "idle"
    BY <2>1, <2>2 DEF Inside
  <2>4. TypeOK'
    <3>1. posted' \in 0 .. MaxPosted
      BY <1>2
    <3>2. UNCHANGED <<op, swi>> /\ mux' \in Callers \cup {NoProcess} /\ threads' \subseteq Workers
      BY <2>2
    <3>3. /\ instance' \in BOOLEAN /\ closer' \in Callers \cup {NoProcess}
          /\ stopped' \in BOOLEAN /\ work' \in BOOLEAN /\ wish' \in BOOLEAN
      BY <1>2, <2>2
    <3> QED  BY <2>1, <3>1, <3>2, <3>3 DEF TypeOK
  <2>5. Closing' /\ AllJoinable' /\ Guarding'
    BY <1>2, <2>1, <2>2, <2>3 DEF Closing, AllJoinable, Guarding
  <2> QED  BY <2>1, <2>4, <2>5
<1>3. op[c] # "close" =>
          /\ work' = Guard /\ UNCHANGED <<singleton, context, wish>>
          /\ \E new \in SUBSET Workers : After(c, new)
  BY DEF Joined
<1> QED  BY <1>1, <1>2, <1>3 DEF Joined

\* The invariant holds in every behaviour.
THEOREM Invariance == Spec => []Inv
<1>1. Inv /\ UNCHANGED vars => Inv'
  BY DEF vars, singleton, context, Inv, TypeOK, Inside, Closing, AllJoinable, Guarding
<1>2. Inv /\ [Next]_allVars => Inv'
  BY <1>1, StepsOfWrapper, RunStep, UseStep, JoinedStep DEF WrapperStep
<1> QED  BY <1>2, InvInit, PTL DEF Spec

\* Types of the wrapper's variables.
THEOREM TypeCorrect == Spec => []TypeOK
<1>1. Inv => TypeOK
  BY DEF Inv
<1> QED  BY <1>1, Invariance, PTL

\* Calls exclude each other, also while runHere() runs the context.
THEOREM Exclusion == Spec => []OneInside
<1>1. Inv => OneInside
  BY DEF Inv, Inside, OneInside
<1> QED  BY <1>1, Invariance, PTL

\* Every thread that runs is in the list of threads to join.
THEOREM ThreadsAreJoined == Spec => []AllJoinable
<1>1. Inv => AllJoinable
  BY DEF Inv
<1> QED  BY <1>1, Invariance, PTL

\* Outside of calls the guard is as the user wants it.
THEOREM GuardIsKept == Spec => []GuardAsWished
<1>1. Inv => GuardAsWished
  BY ProcessAssumption DEF Inv, TypeOK, Inside, Guarding, GuardAsWished
<1> QED  BY <1>1, Invariance, PTL
=============================================================================

------------------------ MODULE StateMachineProofs ------------------------
(***************************************************************************)
(* Proofs about StateMachine: its types, what stays true however events    *)
(* overlap, and that it is an ArcMachine until they do.                    *)
(***************************************************************************)
EXTENDS StateMachine, TLAPS

\* A thread at work has an arc.  Without this the arguments of transition_()
\* would have no type.
Engaged == \A p \in Processes : pc[p] # "idle" => arc[p] \in ArcSet

Typed == TypeOK /\ Engaged

\* Initially the values have their types, and nobody is at work.
LEMMA TypeInit == Init => Typed
  BY StatesAssumption DEF Init, Typed, TypeOK, Engaged, Locations

\* Every step keeps the types, and gives an arc to whom it puts to work.
LEMMA TypeStep == Typed /\ [Next]_vars => Typed'
<1> SUFFICES ASSUME Typed, [Next]_vars PROVE Typed'
  OBVIOUS
<1> USE StatesAssumption, ArcsAssumption
    DEF Typed, TypeOK, Engaged, Locations, Running, Goto, Rest, threads, history
<1>1. ASSUME NEW c \in Callers, NEW a \in ArcSet, Register(c, a) PROVE Typed'
  BY <1>1 DEF Register
<1>2. ASSUME NEW c \in Callers, SetObj(c) PROVE Typed'
  BY <1>2 DEF SetObj
<1>3. ASSUME NEW c \in Callers, NEW o \in Observers, Observe(c, o) PROVE Typed'
  BY <1>3 DEF Observe
<1>4. ASSUME NEW c \in Callers, NEW a \in ArcSet, EventSync(c, a) PROVE Typed'
  BY <1>4 DEF EventSync, NoteOverlap, Processes
<1>5. ASSUME NEW c \in Callers, NEW a \in ArcSet, NEW w \in Workers, EventAsync(c, w, a) PROVE Typed'
  BY <1>5 DEF EventAsync, NoteOverlap, Processes
<1>6. ASSUME NEW p \in Processes, Handling(p) PROVE Typed'
  <2>1. CASE SyncRead(p)
    BY <2>1 DEF SyncRead
  <2>2. CASE Begin(p)
    BY <2>2 DEF Begin
  <2>3. CASE Check(p)
    BY <2>3 DEF Check
  <2>4. CASE OnTrans(p)
    BY <2>4 DEF OnTrans
  <2>5. CASE Commit(p)
    <3>1. PICK dropped \in SUBSET callbacks : Call(state', callbacks, dropped)
      BY <2>5 DEF Commit
    <3>2. Target(p) \in States
      BY <2>5 DEF Commit, Target
    <3> QED  BY <2>5, <3>1, <3>2 DEF Commit, Call
  <2>6. CASE CommitThrow(p)
    <3>1. Target(p) \in States
      BY <2>6 DEF CommitThrow, Target
    <3> DEFINE Called(o, others, dropped) ==
           /\ told' = [q \in Observers |-> IF q \in others \cup {o} THEN state' ELSE told[q]]
           /\ wants' = [q \in Observers |-> IF q \in others THEN q \notin dropped ELSE wants[q]]
           /\ callbacks' = callbacks \ dropped
    <3>2. PICK o \in callbacks \cap Throwers : \E others \in SUBSET (callbacks \ {o}) :
             \E dropped \in SUBSET others : Called(o, others, dropped)
      BY <2>6 DEF CommitThrow
    <3>3. PICK others \in SUBSET (callbacks \ {o}) : \E dropped \in SUBSET others :
             Called(o, others, dropped)
      BY <3>2
    <3>4. PICK dropped \in SUBSET others : Called(o, others, dropped)
      BY <3>3
    <3>5. state' \in States /\ told' \in [Observers -> States]
      BY <2>6, <3>1, <3>4 DEF CommitThrow
    <3>6. wants' \in [Observers -> BOOLEAN] /\ callbacks' \subseteq Observers
      BY <3>4
    <3>7. /\ pc' \in [Processes -> Locations] /\ arc' \in [Processes -> ArcSet \cup {NoArc}]
          /\ from' \in [Processes -> States] /\ ok' \in [Processes -> BOOLEAN] /\ Engaged'
      BY <2>6 DEF CommitThrow
    <3> QED  BY <2>6, <3>5, <3>6, <3>7 DEF CommitThrow
  <2>7. CASE InCheck(p)
    BY <2>7 DEF InCheck
  <2>8. CASE InState(p)
    BY <2>8 DEF InState
  <2>9. CASE Finish(p)
    BY <2>9 DEF Finish
  <2> QED  BY <1>6, <2>1, <2>2, <2>3, <2>4, <2>5, <2>6, <2>7, <2>8, <2>9 DEF Handling
<1>7. CASE UNCHANGED vars
  BY <1>7 DEF vars
<1> QED
  BY <1>1, <1>2, <1>3, <1>4, <1>5, <1>6, <1>7 DEF Next, Using

\* All variables have their types in every state.
THEOREM TypeCorrect == Spec => []TypeOK
<1>1. Typed => TypeOK
  BY DEF Typed
<1> QED
  BY TypeInit, TypeStep, <1>1, PTL DEF Spec

-----------------------------------------------------------------------------
\* What holds however events overlap.
Consistent == ObserversCurrent /\ ActiveIsHandling /\ ReleasedAtEnd

\* Nobody is registered, active or told anything in the beginning.
LEMMA ConsistentInit == Init => Consistent
  BY DEF Init, Consistent, ObserversCurrent, ActiveIsHandling, ReleasedAtEnd

\* Every step keeps the observers current, the flag tied to somebody's work,
\* and the object released in the end state.
LEMMA ConsistentStep == Typed /\ Consistent /\ [Next]_vars => Consistent'
<1> SUFFICES ASSUME Typed, Consistent, [Next]_vars PROVE Consistent'
  OBVIOUS
<1> USE DEF Typed, TypeOK, Running, Goto, Rest, threads, history
<1>1. ASSUME NEW c \in Callers, NEW a \in ArcSet, Register(c, a) PROVE Consistent'
  BY <1>1 DEF Register, Consistent, ObserversCurrent, ActiveIsHandling, ReleasedAtEnd
<1>2. ASSUME NEW c \in Callers, SetObj(c) PROVE Consistent'
  BY <1>2 DEF SetObj, Consistent, ObserversCurrent, ActiveIsHandling, ReleasedAtEnd
<1>3. ASSUME NEW c \in Callers, NEW o \in Observers, Observe(c, o) PROVE Consistent'
  BY <1>3 DEF Observe, Consistent, ObserversCurrent, ActiveIsHandling, ReleasedAtEnd
<1>4. ASSUME NEW c \in Callers, NEW a \in ArcSet, EventSync(c, a) PROVE Consistent'
  BY <1>4 DEF EventSync, NoteOverlap, Processes, Consistent, ObserversCurrent, ActiveIsHandling, ReleasedAtEnd
<1>5. ASSUME NEW c \in Callers, NEW a \in ArcSet, NEW w \in Workers, EventAsync(c, w, a)
      PROVE  Consistent'
  BY <1>5 DEF EventAsync, NoteOverlap, Processes, Consistent, ObserversCurrent, ActiveIsHandling, ReleasedAtEnd
<1>6. ASSUME NEW p \in Processes, Handling(p) PROVE Consistent'
  <2>1. CASE SyncRead(p)
    BY <2>1 DEF SyncRead, Consistent, ObserversCurrent, ActiveIsHandling, ReleasedAtEnd
  <2>2. CASE Begin(p)
    BY <2>2 DEF Begin, Consistent, ObserversCurrent, ActiveIsHandling, ReleasedAtEnd
  <2>3. CASE Check(p)
    BY <2>3 DEF Check, Consistent, ObserversCurrent, ActiveIsHandling, ReleasedAtEnd
  <2>4. CASE OnTrans(p)
    BY <2>4 DEF OnTrans, Consistent, ObserversCurrent, ActiveIsHandling, ReleasedAtEnd
  <2>5. CASE Commit(p)
    <3>1. PICK dropped \in SUBSET callbacks : Call(state', callbacks, dropped)
      BY <2>5 DEF Commit
    <3>2. ObserversCurrent'
      BY <3>1 DEF Call, ObserversCurrent
    <3>3. pc'[p] \in {"incheck", "finish"}
      BY <2>5 DEF Commit
    <3>4. ActiveIsHandling' /\ ReleasedAtEnd'
      BY <3>3 DEF ActiveIsHandling, ReleasedAtEnd
    <3> QED  BY <3>2, <3>4 DEF Consistent
  <2>6. CASE CommitThrow(p)
    BY <2>6 DEF CommitThrow, Consistent, ObserversCurrent, ActiveIsHandling, ReleasedAtEnd
  <2>7. CASE InCheck(p)
    BY <2>7 DEF InCheck, Consistent, ObserversCurrent, ActiveIsHandling, ReleasedAtEnd
  <2>8. CASE InState(p)
    BY <2>8 DEF InState, Consistent, ObserversCurrent, ActiveIsHandling, ReleasedAtEnd
  <2>9. CASE Finish(p)
    BY <2>9 DEF Finish, Consistent, ObserversCurrent, ActiveIsHandling, ReleasedAtEnd
  <2> QED  BY <1>6, <2>1, <2>2, <2>3, <2>4, <2>5, <2>6, <2>7, <2>8, <2>9 DEF Handling
<1>7. CASE UNCHANGED vars
  BY <1>7 DEF vars, Consistent, ObserversCurrent, ActiveIsHandling, ReleasedAtEnd
<1> QED
  BY <1>1, <1>2, <1>3, <1>4, <1>5, <1>6, <1>7 DEF Next, Using

\* Registered observers know the state, active_ never outlives the work, and
\* the object is released in the end state, however events overlap and fail.
THEOREM Safety == Spec => [](ObserversCurrent /\ ActiveIsHandling /\ ReleasedAtEnd)
<1>1. Consistent => ObserversCurrent /\ ActiveIsHandling /\ ReleasedAtEnd
  BY DEF Consistent
<1> QED
  BY TypeInit, TypeStep, ConsistentInit, ConsistentStep, <1>1, PTL DEF Spec

\* In particular a machine at rest in its end state has no object, unless an
\* observer threw, also when the events that lead there overlap.
THEOREM ReleasesObject == Spec => []ReleasedAtEnd
  BY Safety, PTL

-----------------------------------------------------------------------------
(***************************************************************************)
(* What holds until an event is accepted while another one has been        *)
(* accepted and is not over, on whichever threads they are handled.        *)
(***************************************************************************)
\* One thread at most is at work.
Single == \A p, q \in Processes : pc[p] # "idle" /\ pc[q] # "idle" => p = q

\* Before its commit, the thread follows an arc that starts in the current
\* state and not in the end state; the flag is set while its functions may run.
Follows(p) ==
    /\ pc[p] \in {"onTrans", "inState"} => obj
    /\ pc[p] \in {"sync", "begin", "check", "onTrans", "commit"} =>
           state # End /\ arc[p] \in trans /\ arc[p].from = state
    /\ pc[p] \in {"begin", "check", "onTrans", "commit"} => from[p] = state
    /\ pc[p] \in Running => active
    /\ broken => pc[p] = "idle"

InTurn == Single /\ (\A p \in Processes : Follows(p)) /\ (broken => active)

Orderly == ~overlapped => InTurn

\* Nobody is at work in the beginning.
LEMMA OrderlyInit == Init => Orderly
  BY DEF Init, Orderly, InTurn, Single, Follows, Running

\* Events do not stop overlapping once they did.
LEMMA OverlapStays == [Next]_vars /\ overlapped => overlapped'
  BY DEF Next, Using, Handling, Register, SetObj, Observe, EventSync, EventAsync, NoteOverlap, history,
     SyncRead, Begin, Check, OnTrans, Commit, CommitThrow, InCheck, InState, Finish, vars

\* An event that is accepted without overlap is the only one.
LEMMA AcceptedAlone ==
  ASSUME NoteOverlap, ~overlapped'
  PROVE  \A p \in Processes : pc[p] = "idle"
  BY DEF NoteOverlap

\* Who handles an event is at work.
LEMMA HandlerIsAtWork ==
  ASSUME NEW p, Handling(p)
  PROVE  pc[p] # "idle" /\ overlapped' = overlapped
  BY DEF Handling, SyncRead, Begin, Check, OnTrans, Commit, CommitThrow, InCheck, InState, Finish, history

\* Every step without overlap keeps this order.
LEMMA OrderlyStep == Typed /\ Orderly /\ [Next]_vars => Orderly'
<1> SUFFICES ASSUME Typed, Orderly, [Next]_vars, ~overlapped' PROVE InTurn'
  BY DEF Orderly
<1>0. InTurn
  BY OverlapStays DEF Orderly
<1> USE <1>0 DEF Typed, TypeOK, Running, Goto, Rest, threads, history, InTurn, Single, Follows
<1>1. ASSUME NEW c \in Callers, NEW a \in ArcSet, Register(c, a) PROVE InTurn'
  BY <1>1 DEF Register
<1>2. ASSUME NEW c \in Callers, SetObj(c) PROVE InTurn'
  BY <1>2 DEF SetObj
<1>3. ASSUME NEW c \in Callers, NEW o \in Observers, Observe(c, o) PROVE InTurn'
  BY <1>3 DEF Observe
<1>4. ASSUME NEW c \in Callers, NEW a \in ArcSet, EventSync(c, a) PROVE InTurn'
  <2>1. \A p \in Processes : pc[p] = "idle"
    BY <1>4, AcceptedAlone DEF EventSync
  <2> QED
    BY <1>4, <2>1 DEF EventSync, Accepts, NoteOverlap, Processes
<1>5. ASSUME NEW c \in Callers, NEW a \in ArcSet, NEW w \in Workers, EventAsync(c, w, a) PROVE InTurn'
  <2>1. \A p \in Processes : pc[p] = "idle"
    BY <1>5, AcceptedAlone DEF EventAsync
  <2> QED
    BY <1>5, <2>1 DEF EventAsync, Accepts, NoteOverlap, Processes
<1>6. ASSUME NEW p \in Processes, Handling(p) PROVE InTurn'
  <2>0. pc[p] # "idle" /\ \A q \in Processes : q # p => pc[q] = "idle"
    BY <1>6, HandlerIsAtWork
  <2>1. CASE SyncRead(p)
    BY <2>0, <2>1 DEF SyncRead
  <2>2. CASE Begin(p)
    BY <2>0, <2>2 DEF Begin
  <2>3. CASE Check(p)
    BY <2>0, <2>3 DEF Check
  <2>4. CASE OnTrans(p)
    BY <2>0, <2>4 DEF OnTrans
  <2>5. CASE Commit(p)
    BY <2>0, <2>5 DEF Commit
  <2>6. CASE CommitThrow(p)
    BY <2>0, <2>6 DEF CommitThrow
  <2>7. CASE InCheck(p)
    BY <2>0, <2>7 DEF InCheck
  <2>8. CASE InState(p)
    BY <2>0, <2>8 DEF InState
  <2>9. CASE Finish(p)
    BY <2>0, <2>9 DEF Finish
  <2> QED  BY <1>6, <2>1, <2>2, <2>3, <2>4, <2>5, <2>6, <2>7, <2>8, <2>9 DEF Handling
<1>7. CASE UNCHANGED vars
  BY <1>7 DEF vars
<1> QED
  BY <1>1, <1>2, <1>3, <1>4, <1>5, <1>6, <1>7 DEF Next, Using

\* Until events overlap, the handler's functions run while the object is there
\* only, and transitions do not overlap.
THEOREM Sequential == Spec => [](HandlerAlive /\ OneTransition)
<1>1. Orderly => HandlerAlive /\ OneTransition
  BY DEF Orderly, InTurn, Single, Follows, HandlerAlive, OneTransition, Running
<1> QED
  BY TypeInit, TypeStep, OrderlyInit, OrderlyStep, <1>1, PTL DEF Spec

\* Until events overlap, the end state is never left.
THEOREM EndStays == Spec => EndIsFinalInTurn
<1>1. Orderly /\ [Next]_vars => [state = End /\ ~overlapped' => state' = End]_vars
  <2> SUFFICES ASSUME Orderly, [Next]_vars, state = End, ~overlapped' PROVE state' = End
    OBVIOUS
  <2>1. InTurn
    BY OverlapStays DEF Orderly
  <2>2. \A p \in Processes : pc[p] # "commit"
    BY <2>1 DEF InTurn, Follows
  <2> QED
    BY <2>2 DEF Next, Using, Handling, Register, SetObj, Observe, EventSync, EventAsync,
       SyncRead, Begin, Check, OnTrans, Commit, CommitThrow, InCheck, InState, Finish, vars
<1> QED
  BY TypeInit, TypeStep, OrderlyInit, OrderlyStep, <1>1, PTL DEF Spec, EndIsFinalInTurn

-----------------------------------------------------------------------------
\* What the thread p at work makes of the abstract machine.
CurrentOf(p) ==
    IF broken THEN JammedMark
    ELSE IF pc[p] \in {"incheck", "inState", "finish"} THEN SettlingMark
    ELSE IF pc[p] # "idle" THEN arc[p]
    ELSE NoArc

\* When nobody but p is at work, "some thread" is p.
LEMMA CurrentIs ==
  ASSUME NEW p \in Processes, \A q \in Processes : q # p => pc[q] = "idle", ~overlapped
  PROVE  Current = CurrentOf(p)
<1>1. pc[p] # "idle" => (CHOOSE q \in Processes : pc[q] # "idle") = p
  OBVIOUS
<1>2. (\E q \in Processes : pc[q] \in {"incheck", "inState", "finish"})
         <=> pc[p] \in {"incheck", "inState", "finish"}
  OBVIOUS
<1>3. (\E q \in Processes : pc[q] # "idle") <=> pc[p] # "idle"
  OBVIOUS
<1> QED
  BY <1>1, <1>2, <1>3 DEF Current, CurrentOf

\* The same after a step.
LEMMA CurrentIsNext ==
  ASSUME NEW p \in Processes, \A q \in Processes : q # p => pc'[q] = "idle", ~overlapped'
  PROVE  Current' = CurrentOf(p)'
<1>1. pc'[p] # "idle" => (CHOOSE q \in Processes : pc'[q] # "idle") = p
  OBVIOUS
<1>2. (\E q \in Processes : pc'[q] \in {"incheck", "inState", "finish"})
         <=> pc'[p] \in {"incheck", "inState", "finish"}
  OBVIOUS
<1>3. (\E q \in Processes : pc'[q] # "idle") <=> pc'[p] # "idle"
  OBVIOUS
<1> QED
  BY <1>1, <1>2, <1>3 DEF Current, CurrentOf

\* When nobody is at work, there is no arc to follow.
LEMMA CurrentAtRest ==
  ASSUME \A q \in Processes : pc[q] = "idle", ~overlapped
  PROVE  Current = IF broken THEN JammedMark ELSE NoArc
  BY DEF Current

\* An accepted event that does not overlap is fired, one that does ends all
\* promises.
LEMMA AcceptStep ==
  ASSUME Typed, Orderly, NEW p \in Processes, NEW a \in ArcSet, Accepts(a), NoteOverlap,
         pc' = [pc EXCEPT ![p] = pc'[p]], pc[p] = "idle", pc'[p] \in {"sync", "begin"},
         arc' = [arc EXCEPT ![p] = a], UNCHANGED <<state, trans, obj>>
  PROVE  [A!Next]_A!vars
<1> USE DEF PromisedState, PromisedArcs, PromisedObject
<1>1. CASE overlapped
  <2>1. overlapped' /\ Current = FreeMark /\ Current' = FreeMark
    BY <1>1 DEF NoteOverlap, Current
  <2> QED
    BY <1>1, <2>1 DEF A!vars
<1>2. CASE ~overlapped /\ \A q \in Processes : pc[q] = "idle"
  <2>1. ~overlapped' /\ ~broken /\ ~broken'
    BY <1>2 DEF NoteOverlap, Orderly, InTurn, Accepts
  <2>2. Current = NoArc
    BY <1>2, <2>1, CurrentAtRest
  <2>3. /\ pc'[p] \in {"sync", "begin"} /\ arc'[p] = a
        /\ \A q \in Processes : q # p => pc'[q] = "idle"
    BY <1>2 DEF Typed, TypeOK
  <2>4. Current' = a
    BY <2>1, <2>3, CurrentIsNext DEF CurrentOf
  <2>5. A!Fire(a)
    BY <1>2, <2>1, <2>2, <2>4 DEF A!Fire, Accepts
  <2> QED
    BY <2>5 DEF A!Next
<1>3. CASE ~overlapped /\ \E q \in Processes : pc[q] # "idle"
  <2>1. PICK q \in Processes : pc[q] # "idle"
    BY <1>3
  <2>2. overlapped' /\ InTurn /\ ~active
    BY <1>3 DEF NoteOverlap, Orderly, Accepts
  <2>3. Current = CurrentOf(q)
    BY <1>3, <2>1, <2>2, CurrentIs DEF InTurn, Single
  <2>4. Current \in ArcSet
    BY <2>1, <2>2, <2>3 DEF CurrentOf, InTurn, Follows, Running, Typed, Engaged
  <2>5. Current' = FreeMark
    BY <2>2 DEF Current
  <2>6. A!Overlap
    BY <2>2, <2>4, <2>5 DEF A!Overlap
  <2> QED
    BY <2>6 DEF A!Next
<1> QED
  BY <1>1, <1>2, <1>3

\* A step of the thread at work follows its arc, or settles, or is none.
LEMMA HandleStep ==
  ASSUME Typed, Orderly, NEW p \in Processes, Handling(p), ~overlapped
  PROVE  [A!Follow \/ A!Settle]_A!vars
<1>1. InTurn /\ ~overlapped' /\ pc[p] # "idle"
  BY HandlerIsAtWork DEF Orderly
<1>2. \A q \in Processes : q # p => pc[q] = "idle"
  BY <1>1 DEF InTurn, Single
<1>3. \A q \in Processes : q # p => pc'[q] = "idle"
  BY <1>2 DEF Typed, TypeOK, Goto, Rest, threads, Handling, SyncRead, Begin, Check, OnTrans, Commit, CommitThrow,
     InCheck, InState, Finish
<1>4. Current = CurrentOf(p) /\ Current' = CurrentOf(p)'
  BY <1>1, <1>2, <1>3, CurrentIs, CurrentIsNext
<1>5. pc \in [Processes -> Locations] /\ arc \in [Processes -> ArcSet \cup {NoArc}]
      /\ ok \in [Processes -> BOOLEAN] /\ from \in [Processes -> States] /\ obj \in BOOLEAN
  BY DEF Typed, TypeOK
<1>6. arc[p] \in ArcSet /\ ~broken /\ (pc[p] = "commit" => from[p] = state)
  BY <1>1 DEF Typed, Engaged, InTurn, Follows
<1>7. PromisedState = state /\ PromisedArcs = trans /\ PromisedObject = obj
  BY <1>5 DEF PromisedState, PromisedArcs, PromisedObject
<1>8. obj' \in BOOLEAN => PromisedState' = state' /\ PromisedArcs' = trans' /\ PromisedObject' = obj'
  BY <1>1 DEF PromisedState, PromisedArcs, PromisedObject
<1> USE <1>1, <1>4, <1>5, <1>6, <1>7, <1>8 DEF CurrentOf, Goto, Rest, threads, history
<1>a. CASE SyncRead(p)
  BY <1>a DEF SyncRead, A!vars
<1>b. CASE Begin(p)
  BY <1>b DEF Begin, A!vars
<1>c. CASE Check(p)
  BY <1>c DEF Check, A!Follow, A!vars
<1>d. CASE OnTrans(p)
  BY <1>d DEF OnTrans, A!Follow, A!vars
<1>e. CASE Commit(p)
  BY <1>e DEF Commit, Target, A!Follow
<1>f. CASE CommitThrow(p)
  BY <1>f DEF CommitThrow, Target, A!Follow
<1>g. CASE InCheck(p)
  BY <1>g DEF InCheck, A!vars
<1>h. CASE InState(p)
  BY <1>h DEF InState, A!vars
<1>i. CASE Finish(p)
  BY <1>i DEF Finish, A!Settle
<1> QED
  BY <1>a, <1>b, <1>c, <1>d, <1>e, <1>f, <1>g, <1>h, <1>i DEF Handling

\* Every step is a step of ArcMachine, or none.
LEMMA ArcStep == Typed /\ Orderly /\ [Next]_vars => [A!Next]_A!vars
<1> SUFFICES ASSUME Typed, Orderly, [Next]_vars PROVE [A!Next]_A!vars
  OBVIOUS
<1> DEFINE Seen == <<state, trans, obj, overlapped, broken, pc, arc>>
<1>0. ASSUME UNCHANGED Seen PROVE UNCHANGED A!vars
  BY <1>0 DEF A!vars, PromisedState, PromisedArcs, PromisedObject, Current
<1>1. ASSUME NEW c \in Callers, NEW a \in ArcSet, Register(c, a) PROVE [A!Next]_A!vars
  <2>1. UNCHANGED <<state, obj, overlapped, broken, pc, arc>> /\ Current' = Current
    BY <1>1 DEF Register, threads, history, Current
  <2>2. CASE overlapped
    BY <2>1, <2>2 DEF A!vars, PromisedState, PromisedArcs, PromisedObject
  <2>3. CASE ~overlapped
    <3>1. InTurn /\ ~active
      BY <1>1, <2>3 DEF Orderly, Register
    <3>2. Current \in ArcSet \cup {NoArc}
      <4>1. CASE \A q \in Processes : pc[q] = "idle"
        BY <2>3, <3>1, <4>1, CurrentAtRest DEF InTurn
      <4>2. CASE \E q \in Processes : pc[q] # "idle"
        <5>1. PICK q \in Processes : pc[q] # "idle"
          BY <4>2
        <5>2. Current = CurrentOf(q)
          BY <2>3, <3>1, <5>1, CurrentIs DEF InTurn, Single
        <5> QED
          BY <3>1, <5>1, <5>2 DEF CurrentOf, InTurn, Follows, Running, Typed, Engaged
      <4> QED
        BY <4>1, <4>2
    <3>3. A!AddArc(a)
      BY <1>1, <2>1, <2>3, <3>2 DEF Register, A!AddArc, PromisedState, PromisedArcs, PromisedObject
    <3> QED
      BY <3>3 DEF A!Next
  <2> QED
    BY <2>2, <2>3
<1>2. ASSUME NEW c \in Callers, SetObj(c) PROVE [A!Next]_A!vars
  <2>1. /\ UNCHANGED <<state, trans, overlapped, broken, pc, arc>> /\ Current' = Current
        /\ obj' = TRUE /\ state # End /\ \A q \in Processes : pc[q] = "idle"
    BY <1>2 DEF SetObj, threads, history, Current
  <2>2. CASE overlapped
    BY <2>1, <2>2 DEF A!vars, PromisedState, PromisedArcs, PromisedObject
  <2>3. CASE ~overlapped
    <3>1. Current \in {NoArc, JammedMark}
      BY <2>1, <2>3, CurrentAtRest
    <3>2. A!GiveObject
      BY <2>1, <2>3, <3>1 DEF A!GiveObject, PromisedState, PromisedArcs, PromisedObject
    <3> QED
      BY <3>2 DEF A!Next
  <2> QED
    BY <2>2, <2>3
<1>3. ASSUME NEW c \in Callers, NEW o \in Observers, Observe(c, o) PROVE [A!Next]_A!vars
  BY <1>0, <1>3 DEF Observe, threads, history
<1>4. ASSUME NEW c \in Callers, NEW a \in ArcSet, EventSync(c, a) PROVE [A!Next]_A!vars
  BY <1>4, AcceptStep DEF EventSync, Goto, Processes, Typed, TypeOK
<1>5. ASSUME NEW c \in Callers, NEW a \in ArcSet, NEW w \in Workers, EventAsync(c, w, a)
      PROVE  [A!Next]_A!vars
  BY <1>5, AcceptStep DEF EventAsync, Goto, Processes, Typed, TypeOK
<1>6. ASSUME NEW p \in Processes, Handling(p) PROVE [A!Next]_A!vars
  <2>1. CASE overlapped
    <3>1. overlapped'
      BY <1>6, <2>1, HandlerIsAtWork
    <3> QED
      BY <2>1, <3>1 DEF A!vars, PromisedState, PromisedArcs, PromisedObject, Current
  <2>2. CASE ~overlapped
    BY <1>6, <2>2, HandleStep DEF A!Next
  <2> QED
    BY <2>1, <2>2
<1>7. CASE UNCHANGED vars
  BY <1>0, <1>7 DEF vars, threads, history
<1> QED
  BY <1>1, <1>2, <1>3, <1>4, <1>5, <1>6, <1>7 DEF Next, Using

\* The machine does what ArcMachine promises, until events overlap: it follows
\* one registered arc after the other, on whichever threads.
THEOREM ImplementsArcs == Spec => ArcSpec
<1>1. Init => A!Init
  BY CurrentAtRest DEF Init, A!Init, PromisedState, PromisedArcs, PromisedObject
<1> QED
  BY TypeInit, TypeStep, OrderlyInit, OrderlyStep, ArcStep, <1>1, PTL DEF Spec, ArcSpec, A!Spec
=============================================================================

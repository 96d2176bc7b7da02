---------------------------- MODULE StateMachine ----------------------------
(***************************************************************************)
(* The state machine of src/hdr/bren/StateMachine.hpp.                     *)
(*                                                                         *)
(* An accepted event runs transition_() on the caller's thread (sync_i) or *)
(* on a detached one.  mux_ is released between the check of event(), the  *)
(* begin of transition_(), the commit of the new state and the end; each   *)
(* of these critical sections is one step.  The handler's functions run    *)
(* without the mutex, between steps; they return true or false or throw.   *)
(* Observers are called inside the critical sections; they return whether  *)
(* they want to be kept, or throw.  The list of observers is a set here:   *)
(* its order only decides who is not told when one of them throws.         *)
(***************************************************************************)
EXTENDS FiniteSets

CONSTANTS
    Callers,    \* threads that use the machine
    Workers,    \* bound: the detached threads that exist at the same time
    Modes,      \* the values of sync_i that the callers pass
    States, Start, End,
    ArcSet,     \* the arcs that may be registered: records of from, event,
                \* to, onTrans and inState (whether these functions are set)
    NoArc,
    Observers,  \* callback functions
    Throwers    \* the ones among them that may throw

ASSUME ThreadsAssumption == Callers \cap Workers = {} /\ Modes \subseteq BOOLEAN
ASSUME StatesAssumption == Start \in States /\ End \in States
ASSUME ArcsAssumption ==
    /\ \A a \in ArcSet : a.from \in States /\ a.to \in States
                         /\ a.onTrans \in BOOLEAN /\ a.inState \in BOOLEAN
    /\ NoArc \notin ArcSet
ASSUME ObserversAssumption == Throwers \subseteq Observers

VARIABLES
    state,      \* state_
    active,     \* active_
    trans,      \* trans_: the registered arcs
    callbacks,  \* callbacks_
    obj,        \* obj_ is not null
    terminated, \* an exception left a detached thread: the process is gone
    pc,         \* where each thread is
    arc,        \* the event it handles: arguments of transition_() ...
    from,       \* ... and the state it took for the source
    ok,         \* what onTrans returned
    told,       \* history: the state each observer was last told
    wants,      \* history: what each observer last returned
    broken,     \* history: an observer has thrown
    overlapped  \* history: an event was accepted before another one was over

threads == <<pc, arc, from, ok>>
history == <<told, wants, broken, overlapped>>
vars == <<state, active, trans, callbacks, obj, terminated, threads, history>>

Processes == Callers \cup Workers
Running == {"check", "onTrans", "commit", "incheck", "inState", "finish"}
Locations == {"idle", "sync", "begin"} \cup Running

Init ==
    /\ state = Start
    /\ active = FALSE
    /\ trans = {}
    /\ callbacks = {}
    /\ obj = FALSE
    /\ terminated = FALSE
    /\ pc = [p \in Processes |-> "idle"]
    /\ arc = [p \in Processes |-> NoArc]
    /\ from = [p \in Processes |-> Start]
    /\ ok = [p \in Processes |-> FALSE]
    /\ told = [o \in Observers |-> Start]
    /\ wants = [o \in Observers |-> FALSE]
    /\ broken = FALSE
    /\ overlapped = FALSE

-----------------------------------------------------------------------------
Goto(p, loc) == pc' = [pc EXCEPT ![p] = loc]

Rest(p) ==
    /\ Goto(p, "idle")
    /\ arc' = [arc EXCEPT ![p] = NoArc]
    /\ from' = [from EXCEPT ![p] = Start]
    /\ ok' = [ok EXCEPT ![p] = FALSE]

\* Mutant: source and target are stored the wrong way round.
Register_Swapped(c, a) ==
    /\ pc[c] = "idle" /\ ~active /\ a.from # End /\ state # End
    /\ \A b \in trans : ~(b.from = a.from /\ b.event = a.event)
    /\ trans' = trans \cup {[a EXCEPT !.from = a.to, !.to = a.from]}
    /\ UNCHANGED <<state, active, callbacks, obj, terminated, threads, history>>

\* Mutant: an event of a state may be registered twice.
Register_Again(c, a) ==
    /\ pc[c] = "idle" /\ ~active /\ a.from # End /\ state # End
    /\ trans' = trans \cup {a}
    /\ UNCHANGED <<state, active, callbacks, obj, terminated, threads, history>>

\* transition(): register an arc.  The four checks that throw come first.
Register(c, a) ==
    /\ pc[c] = "idle"
    /\ ~active
    /\ a.from # End
    /\ state # End
    /\ \A b \in trans : ~(b.from = a.from /\ b.event = a.event)
    /\ trans' = trans \cup {a}
    /\ UNCHANGED <<state, active, callbacks, obj, terminated, threads, history>>

\* obj(): set the handler object.  It takes no mutex, so a caller may only do
\* it while no event is handled.  Bound: not in the end state, where nobody
\* calls a function of the object any more.
SetObj(c) ==
    /\ pc[c] = "idle"
    /\ state # End /\ \A p \in Processes : pc[p] = "idle"
    /\ obj' = TRUE
    /\ UNCHANGED <<state, active, trans, callbacks, terminated, threads, history>>

\* observe(): the function is called at once, and kept if it returns true.
\* A function that throws is not kept.  Bound: a function is in the list once.
Observe(c, o) ==
    /\ pc[c] = "idle"
    /\ o \notin callbacks
    /\ told' = [told EXCEPT ![o] = state]
    /\ \E keep \in BOOLEAN :
        /\ wants' = [wants EXCEPT ![o] = keep]
        /\ callbacks' = IF keep THEN callbacks \cup {o} ELSE callbacks
    /\ UNCHANGED <<state, active, trans, obj, terminated, threads, broken, overlapped>>

\* event(): accepted if no event is handled, the end state is not reached and
\* the state has an arc for the event; rejected (no step) otherwise.
Accepts(a) == ~active /\ state # End /\ a \in trans /\ a.from = state

NoteOverlap ==
    /\ overlapped' = (overlapped \/ \E p \in Processes : pc[p] # "idle")
    /\ UNCHANGED <<told, wants, broken>>

\* Called with sync_i: mux_ is released before the arguments are evaluated.
EventSync(c, a) ==
    /\ TRUE \in Modes
    /\ pc[c] = "idle"
    /\ Accepts(a)
    /\ Goto(c, "sync")
    /\ arc' = [arc EXCEPT ![c] = a]
    /\ NoteOverlap
    /\ UNCHANGED <<state, active, trans, callbacks, obj, terminated, from, ok>>

\* The arguments: state_ is read again, now without the mutex.
SyncRead(c) ==
    /\ pc[c] = "sync"
    /\ from' = [from EXCEPT ![c] = state]
    /\ Goto(c, "begin")
    /\ UNCHANGED <<state, active, trans, callbacks, obj, terminated, arc, ok, history>>

\* Called without sync_i: a detached thread gets copies of the arguments.
EventAsync(c, w, a) ==
    /\ FALSE \in Modes
    /\ pc[c] = "idle" /\ pc[w] = "idle"
    /\ Accepts(a)
    /\ Goto(w, "begin")
    /\ arc' = [arc EXCEPT ![w] = a]
    /\ from' = [from EXCEPT ![w] = state]
    /\ NoteOverlap
    /\ UNCHANGED <<state, active, trans, callbacks, obj, terminated, ok>>

-----------------------------------------------------------------------------
\* transition_(): from here on the machine says it is active.
Begin(p) ==
    /\ pc[p] = "begin"
    /\ active' = TRUE
    /\ ok' = [ok EXCEPT ![p] = ~arc[p].onTrans]
    /\ Goto(p, IF arc[p].onTrans THEN "check" ELSE "commit")
    /\ UNCHANGED <<state, trans, callbacks, obj, terminated, arc, from, history>>

\* Without an object an exception is thrown, and caught.
Check(p) ==
    /\ pc[p] = "check"
    /\ Goto(p, IF obj THEN "onTrans" ELSE "finish")
    /\ UNCHANGED <<state, active, trans, callbacks, obj, terminated, arc, from, ok, history>>

\* The transition function returns, or throws and is caught.
OnTrans(p) ==
    /\ pc[p] = "onTrans"
    /\ \/ \E result \in BOOLEAN : ok' = [ok EXCEPT ![p] = result] /\ Goto(p, "commit")
       \/ Goto(p, "finish") /\ UNCHANGED ok
    /\ UNCHANGED <<state, active, trans, callbacks, obj, terminated, arc, from, history>>

\* The state the machine goes to, or back to when the function refused.
Target(p) == IF ok[p] THEN arc[p].to ELSE from[p]

\* call_(): the observers in "called" are told, the ones in "dropped" leave.
Call(s, called, dropped) ==
    /\ told' = [o \in Observers |-> IF o \in called THEN s ELSE told[o]]
    /\ wants' = [o \in Observers |-> IF o \in called THEN o \notin dropped ELSE wants[o]]
    /\ callbacks' = callbacks \ dropped

\* Mutant: nobody is told when the transition function has refused.
Commit_RefusalSilent(p) ==
    /\ pc[p] = "commit"
    /\ state' = Target(p)
    /\ \E dropped \in SUBSET callbacks : Call(state', IF ok[p] THEN callbacks ELSE {}, dropped)
    /\ Goto(p, IF arc[p].inState THEN "incheck" ELSE "finish")
    /\ UNCHANGED <<active, trans, obj, terminated, arc, from, ok, broken, overlapped>>

\* Set the new state, or the old one again, and call all observers.
Commit(p) ==
    /\ pc[p] = "commit"
    /\ state' = Target(p)
    /\ \E dropped \in SUBSET callbacks : Call(state', callbacks, dropped)
    /\ Goto(p, IF arc[p].inState THEN "incheck" ELSE "finish")
    /\ UNCHANGED <<active, trans, obj, terminated, arc, from, ok, broken, overlapped>>

\* An observer throws: the handler of the exception locks a mutex it holds,
\* which throws again, out of transition_().  A caller of event() gets that
\* exception; on a detached thread it ends the process.
CommitThrow(p) ==
    /\ pc[p] = "commit"
    /\ state' = Target(p)
    /\ \E o \in callbacks \cap Throwers : \E others \in SUBSET (callbacks \ {o}) :
        \E dropped \in SUBSET others :
            /\ told' = [q \in Observers |-> IF q \in others \cup {o} THEN state' ELSE told[q]]
            /\ wants' = [q \in Observers |-> IF q \in others THEN q \notin dropped ELSE wants[q]]
            /\ callbacks' = callbacks \ dropped
    /\ broken' = TRUE
    /\ terminated' = (p \in Workers)
    /\ Rest(p)
    /\ UNCHANGED <<active, trans, obj, overlapped>>

\* Mutant: the object is not tested before the state function is called.
InCheck_Untested(p) ==
    /\ pc[p] = "incheck"
    /\ Goto(p, "inState")
    /\ UNCHANGED <<state, active, trans, callbacks, obj, terminated, arc, from, ok, history>>

\* Without an object an exception is thrown, and caught.
InCheck(p) ==
    /\ pc[p] = "incheck"
    /\ Goto(p, IF obj THEN "inState" ELSE "finish")
    /\ UNCHANGED <<state, active, trans, callbacks, obj, terminated, arc, from, ok, history>>

\* The state function returns, or throws and is caught.
InState(p) ==
    /\ pc[p] = "inState"
    /\ Goto(p, "finish")
    /\ UNCHANGED <<state, active, trans, callbacks, obj, terminated, arc, from, ok, history>>

\* Mutant: active_ is not reset.
Finish_StaysActive(p) ==
    /\ pc[p] = "finish"
    /\ obj' = (obj /\ state # End)
    /\ callbacks' = {}
    /\ Rest(p)
    /\ UNCHANGED <<state, active, trans, terminated, history>>

\* Mutant: the object is never released.
Finish_ReleasesNothing(p) ==
    /\ pc[p] = "finish"
    /\ active' = FALSE
    /\ callbacks' = {}
    /\ Rest(p)
    /\ UNCHANGED <<state, obj, trans, terminated, history>>

\* The end: release the object in the end state, forget the observers.
Finish(p) ==
    /\ pc[p] = "finish"
    /\ obj' = (obj /\ state # End)
    /\ active' = FALSE
    /\ callbacks' = {}
    /\ Rest(p)
    /\ UNCHANGED <<state, trans, terminated, history>>

-----------------------------------------------------------------------------
Handling(p) ==
    \/ SyncRead(p) \/ Begin(p) \/ Check(p) \/ OnTrans(p) \/ Commit(p) \/ CommitThrow(p)
    \/ InCheck(p) \/ InState(p) \/ Finish(p)

Using(c) ==
    \/ SetObj(c)
    \/ \E o \in Observers : Observe(c, o)
    \/ \E a \in ArcSet : Register(c, a) \/ EventSync(c, a) \/ \E w \in Workers : EventAsync(c, w, a)

Next ==
    /\ ~terminated
    /\ (\E c \in Callers : Using(c)) \/ (\E p \in Processes : Handling(p))

Spec == Init /\ [][Next]_vars

\* A thread that handles an event runs on: the handler's functions return.
FairSpec == Spec /\ \A p \in Processes : WF_vars(~terminated /\ Handling(p))

-----------------------------------------------------------------------------
TypeOK ==
    /\ state \in States /\ active \in BOOLEAN /\ trans \subseteq ArcSet
    /\ callbacks \subseteq Observers /\ obj \in BOOLEAN /\ terminated \in BOOLEAN
    /\ pc \in [Processes -> Locations]
    /\ arc \in [Processes -> ArcSet \cup {NoArc}]
    /\ from \in [Processes -> States]
    /\ ok \in [Processes -> BOOLEAN]
    /\ told \in [Observers -> States] /\ wants \in [Observers -> BOOLEAN]
    /\ broken \in BOOLEAN /\ overlapped \in BOOLEAN

\* Whoever is registered knows the current state, whatever transitions
\* overlap and fail: observers are told in the step that changes the state.
ObserversCurrent == ~broken => \A o \in callbacks : told[o] = state

\* The machine does not stay active when nobody handles an event any more,
\* although overlapping transitions set and clear the flag in any order.
ActiveIsHandling == active /\ ~broken => \E p \in Processes : pc[p] \in Running

\* When the end state was reached and nothing is handled any more, the object
\* has been released.
ReleasedAtEnd ==
    (state = End /\ ~broken /\ \A p \in Processes : pc[p] = "idle") => ~obj

\* Every event that is being handled comes to an end and leaves the machine
\* ready, even if the handler's functions refuse or throw.
HandlingEnds == active ~> (~active \/ broken)

\* hdr/bren/StateMachine.hpp:255 says event() returns "false if a current
\* transition is in progress": until an event is accepted in the window before
\* active_ is set, transitions do not overlap.
OneTransition == ~overlapped =>
    \A p, q \in Processes : pc[p] \in Running /\ pc[q] \in Running => p = q

\* hdr/bren/StateMachine.hpp:219 says of the end state "No more transitions
\* will be possible once this state is reached".
EndIsFinal == [][state = End => state' = End]_vars

\* The same until events overlap.
EndIsFinalInTurn == [][state = End /\ ~overlapped' => state' = End]_vars

\* hdr/bren/StateMachine.hpp:351 says that an observer "should return true if it
\* wants to keep being called on state changes": one that has returned true knows
\* the current state, also after the next event.
WantedIsTold == ~broken => \A o \in Observers : wants[o] => told[o] = state

\* The assertions of hdr/bren/StateMachine.hpp:171 and 197, "Shared pointer to
\* object for function calling not set": until events overlap, a handler's
\* function only runs while the object is there, on whichever thread.
HandlerAlive == ~overlapped => \A p \in Processes : pc[p] \in {"onTrans", "inState"} => obj

\* Until events overlap, the machine is an ArcMachine, whichever threads handle
\* them; afterwards nothing is promised.
SettlingMark == [mark |-> "settling"]
JammedMark == [mark |-> "jammed"]
FreeMark == [mark |-> "free"]

Current ==
    IF overlapped THEN FreeMark
    ELSE IF broken THEN JammedMark
    ELSE IF \E p \in Processes : pc[p] \in {"incheck", "inState", "finish"} THEN SettlingMark
    ELSE IF \E p \in Processes : pc[p] # "idle" THEN arc[CHOOSE p \in Processes : pc[p] # "idle"]
    ELSE NoArc

PromisedState == IF overlapped THEN Start ELSE state
PromisedArcs == IF overlapped THEN {} ELSE trans
PromisedObject == ~overlapped /\ obj

A == INSTANCE ArcMachine WITH
    state <- PromisedState, trans <- PromisedArcs, obj <- PromisedObject, current <- Current,
    Settling <- SettlingMark, Jammed <- JammedMark, Free <- FreeMark
ArcSpec == A!Spec
=============================================================================

----------------------------- MODULE ArcMachine -----------------------------
(***************************************************************************)
(* What a state machine promises to users who trigger one event at a       *)
(* time: it changes state only along a registered arc that starts in its   *)
(* current state, one arc after the other, it stops in the end state and   *)
(* releases the handler object there.  StateMachine implements this        *)
(* specification with any number of threads, until a user triggers an      *)
(* event while another one has been accepted and not followed yet.         *)
(***************************************************************************)
CONSTANTS ArcSet, Start, End, NoArc, Settling, Jammed, Free

VARIABLES
    state,
    trans,   \* the registered arcs
    current, \* the arc being followed, Settling (just followed or refused),
             \* NoArc, Jammed after an observer threw, or Free of all promises
    obj      \* the handler object is there

vars == <<state, trans, current, obj>>

Init == state = Start /\ trans = {} /\ current = NoArc /\ obj = FALSE

GiveObject ==
    /\ current \in {NoArc, Jammed} /\ state # End
    /\ obj' = TRUE
    /\ UNCHANGED <<state, trans, current>>

AddArc(a) ==
    /\ current \in ArcSet \cup {NoArc} /\ state # End /\ a.from # End
    /\ \A b \in trans : ~(b.from = a.from /\ b.event = a.event)
    /\ trans' = trans \cup {a}
    /\ UNCHANGED <<state, current, obj>>

Fire(a) ==
    /\ current = NoArc /\ state # End
    /\ a \in trans /\ a.from = state
    /\ current' = a
    /\ UNCHANGED <<state, trans, obj>>

\* The handler agrees or refuses, the observers are told; one may throw.
Follow ==
    /\ current \in ArcSet
    /\ state' \in {state, current.to}
    /\ current' \in {Settling, Jammed}
    /\ UNCHANGED <<trans, obj>>

Settle ==
    /\ current = Settling
    /\ current' = NoArc
    /\ obj' = (obj /\ state # End)
    /\ UNCHANGED <<state, trans>>

\* Another event is triggered before the arc is followed.
Overlap ==
    /\ current \in ArcSet
    /\ current' = Free
    /\ state' = Start /\ trans' = {} /\ obj' = FALSE

Next == GiveObject \/ Follow \/ Settle \/ Overlap \/ \E a \in ArcSet : AddArc(a) \/ Fire(a)

Spec == Init /\ [][Next]_vars
=============================================================================

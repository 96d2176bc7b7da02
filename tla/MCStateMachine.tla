--------------------------- MODULE MCStateMachine ---------------------------
(* Instances of StateMachine for TLC: a job that is started, finished or    *)
(* put back, with and without handler functions on its arcs.                *)
EXTENDS StateMachine, TLC

MCStates == {"new", "busy", "done"}
Arc(f, e, t, onTrans, inState) ==
    [from |-> f, event |-> e, to |-> t, onTrans |-> onTrans, inState |-> inState]

StartArc  == Arc("new", "start", "busy", TRUE, TRUE)
FinishArc == Arc("busy", "finish", "done", TRUE, TRUE)
BackArc   == Arc("busy", "back", "new", FALSE, FALSE)
\* "done" is the end state: refused.
LeaveArc  == Arc("done", "back", "busy", FALSE, FALSE)

\* The event of StartArc once more, with one function and back to the same state:
\* refused after StartArc, and the other way round.
LoopArc   == Arc("new", "start", "new", FALSE, TRUE)

WorkArcs == {StartArc, FinishArc, LoopArc, LeaveArc}
JobArcs == {StartArc, FinishArc, BackArc}

BothModes == BOOLEAN
SyncOnly == {TRUE}
=============================================================================

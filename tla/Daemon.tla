------------------------------- MODULE Daemon -------------------------------
(***************************************************************************)
(* The daemon of src/src/template_main.cpp: main() and threads of its      *)
(* application, which share the wrapper of the I/O context.                *)
(*                                                                         *)
(* main() logs its beginning and daemonizes before there is another        *)
(* thread: one step here.  The application is a class of the user: init()  *)
(* posts work, or refuses, or throws.                                      *)
(***************************************************************************)
EXTENDS IOctxtWrapper

CONSTANT Main

ASSUME MainAssumption == Main \in Callers

VARIABLES
    at,      \* where main() is
    retval   \* what it will return

mainVars == <<at, retval>>
allVars == <<vars, mainVars>>

MainInit == Init /\ at = "options" /\ retval = 0

Proceed(from, to) == at = from /\ at' = to

\* Catch: 0 for help, 1 for a failure.
Fail(r) == at' = "closing" /\ retval' = r

Options ==
    /\ at = "options"
    /\ \/ Fail(0) \/ Fail(1)
       \/ at' = "instance" /\ UNCHANGED retval
    /\ UNCHANGED vars

GetWrapper == Proceed("instance", "guard") /\ Instance(Main) /\ UNCHANGED retval
KeepRunning == Proceed("guard", "init") /\ StopWhenIdle(Main, FALSE) /\ UNCHANGED retval

InitApplication ==
    /\ at = "init"
    /\ \/ at' = "start" /\ Post(Main) /\ UNCHANGED retval
       \/ Fail(1) /\ UNCHANGED vars

RunHere == Proceed("start", "running") /\ Call(Main, "runHere") /\ UNCHANGED retval
Returned == Proceed("running", "closing") /\ pc[Main] = "idle" /\ UNCHANGED <<vars, retval>>

CloseWrapper ==
    /\ Proceed("closing", "closed")
    /\ IF instance THEN Close(Main) ELSE UNCHANGED vars
    /\ UNCHANGED retval

MainSteps ==
    Options \/ GetWrapper \/ KeepRunning \/ InitApplication \/ RunHere \/ Returned \/ CloseWrapper

Next ==
    \/ MainSteps
    \/ \E p \in Processes : Running(p) /\ UNCHANGED mainVars
    \/ \E c \in Callers : Joined(c) /\ UNCHANGED mainVars
    \/ \E c \in Callers \ {Main} : Using(c) /\ UNCHANGED mainVars

Spec == MainInit /\ [][Next]_allVars
FairSpec == Spec /\ Fairness
=============================================================================

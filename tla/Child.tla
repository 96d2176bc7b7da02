------------------------------- MODULE Child -------------------------------
(***************************************************************************)
(* Running programs: Child::run() of src/src/Child.cpp and the free run()  *)
(* of src/src/run.cpp, called by threads of one process.                   *)
(*                                                                         *)
(* Each thread has a Child object of its own and runs one program at a     *)
(* time; the program is named after its thread.  fork() copies every file  *)
(* descriptor of the process, also the ends of the pipes that other        *)
(* threads use at that moment.  A pipe carries chunks of output; the ends  *)
(* that are open are sets of processes.  The environment and the arguments *)
(* of the program are left out here.                                       *)
(***************************************************************************)
EXTENDS Naturals, Sequences, SequencesExt

CONSTANTS
    Threads,
    Modes,      \* what each thread does: "capture" output, run "plain", or call
                \* the "free" run()
    Parent,     \* the process of all threads
    Codes,      \* exit statuses
    Chunks,     \* pieces of output
    Nul,        \* the one that is a zero byte
    Outputs,    \* bound: what a program may write
    Capacity,   \* chunks that a pipe holds
    Faults,     \* the calls that may fail for each thread: pipe, fork, dup, ...
    Threw       \* the result of a run that ends with an exception

ASSUME ThreadsAssumption ==
    /\ Parent \notin Threads
    /\ Modes \in [Threads -> SUBSET {"capture", "plain", "free"}]
    /\ Faults \in [Threads -> SUBSET {"pipe", "fork", "dup", "exec", "read", "wait"}]
ASSUME CodesAssumption == {0, 1} \subseteq Codes /\ Codes \subseteq 0 .. 255 /\ Threw \notin Codes
ASSUME BoundsAssumption == Capacity \in Nat \ {0} /\ Nul \in Chunks /\ Outputs \subseteq Seq(Chunks)

VARIABLES
    pc,        \* where each thread is
    mode,      \* what it is doing
    forked,    \* fork() has succeeded; otherwise child is -1
    output,    \* output
    result,    \* what the last run returned
    proc,      \* the state of each program; "none" if there is no such process
    status,    \* its exit status
    todo,      \* what it still has to write
    pipe,      \* what is in the pipe
    readers, writers,  \* the processes that have the ends of the pipe open
    data,      \* what run() has read from it
    sent,      \* history: what the program has written
    lost       \* history: what went wrong: "read", "wait" or "theft"

locals == <<pc, mode, forked, output, result>>
process == <<proc, status, todo>>
pipes == <<pipe, readers, writers>>
vars == <<locals, process, pipes, data, sent, lost>>

Init ==
    /\ pc = [t \in Threads |-> "idle"]
    /\ mode = [t \in Threads |-> "plain"]
    /\ forked = [t \in Threads |-> FALSE]
    /\ output = [t \in Threads |-> <<>>]
    /\ result = [t \in Threads |-> Threw]
    /\ proc = [t \in Threads |-> "none"]
    /\ status = [t \in Threads |-> 0]
    /\ todo = [t \in Threads |-> <<>>]
    /\ pipe = [t \in Threads |-> <<>>]
    /\ readers = [t \in Threads |-> {}]
    /\ writers = [t \in Threads |-> {}]
    /\ data = [t \in Threads |-> <<>>]
    /\ sent = [t \in Threads |-> <<>>]
    /\ lost = [t \in Threads |-> {}]

-----------------------------------------------------------------------------
Goto(t, loc) == pc' = [pc EXCEPT ![t] = loc]
Return(t, r) == Goto(t, "idle") /\ result' = [result EXCEPT ![t] = r]
\* Mutant: the parent does not close its writing end.
AfterFork_KeepsEnd(t) == IF mode[t] = "capture" THEN "read" ELSE "wait"
AfterFork(t) == IF mode[t] = "capture" THEN "close" ELSE "wait"
CloseEnd(ends, t, p) == [ends EXCEPT ![t] = @ \ {p}]
CloseAll(ends, p) == [u \in Threads |-> ends[u] \ {p}]

\* run() is called: the program will write what it likes to the pipe.  Bound: a program that
\* nobody has waited for must be gone before its thread runs the next one.
Start(t) ==
    /\ pc[t] = "idle" /\ proc[t] = "none"
    /\ \E m \in Modes[t], w \in Outputs :
        /\ mode' = [mode EXCEPT ![t] = m]
        /\ todo' = [todo EXCEPT ![t] = IF m = "capture" THEN w ELSE <<>>]
        /\ Goto(t, IF m = "capture" THEN "pipe" ELSE "fork")
    /\ result' = [result EXCEPT ![t] = Threw]
    /\ status' = [status EXCEPT ![t] = 0]
    /\ forked' = [forked EXCEPT ![t] = FALSE]
    /\ lost' = [lost EXCEPT ![t] = {}]
    /\ sent' = [sent EXCEPT ![t] = <<>>]
    /\ pipe' = [pipe EXCEPT ![t] = <<>>]
    /\ UNCHANGED <<output, proc, readers, writers, data>>

\* pipe(): both ends belong to the process.
MakePipe(t) ==
    /\ pc[t] = "pipe"
    /\ readers' = [readers EXCEPT ![t] = {Parent}]
    /\ writers' = [writers EXCEPT ![t] = {Parent}]
    /\ Goto(t, "fork")
    /\ UNCHANGED <<mode, forked, output, result, process, pipe, data, sent, lost>>

PipeFails(t) ==
    /\ "pipe" \in Faults[t] /\ pc[t] = "pipe"
    /\ Return(t, Threw)
    /\ UNCHANGED <<mode, forked, output, process, pipes, data, sent, lost>>

\* The new process has every end that its parent has.
Inherit(ends, t) == [u \in Threads |-> IF Parent \in ends[u] THEN ends[u] \cup {t} ELSE ends[u]]

Fork(t) ==
    /\ pc[t] = "fork"
    /\ forked' = [forked EXCEPT ![t] = TRUE]
    /\ proc' = [proc EXCEPT ![t] = "born"]
    /\ readers' = Inherit(readers, t)
    /\ writers' = Inherit(writers, t)
    /\ Goto(t, AfterFork(t))
    /\ UNCHANGED <<mode, output, result, status, todo, pipe, data, sent, lost>>

\* fork() fails: the free run() throws, Child::run() goes on with -1.
ForkFails(t) ==
    /\ "fork" \in Faults[t] /\ pc[t] = "fork"
    /\ IF mode[t] = "free" THEN Return(t, Threw) ELSE Goto(t, AfterFork(t)) /\ UNCHANGED result
    /\ UNCHANGED <<mode, forked, output, process, pipes, data, sent, lost>>

\* Close the writing end and clear the output, to begin with.
CloseWriteEnd(t) ==
    /\ pc[t] = "close"
    /\ writers' = CloseEnd(writers, t, Parent)
    /\ output' = [output EXCEPT ![t] = <<>>]
    /\ Goto(t, "read")
    /\ UNCHANGED <<mode, forked, result, process, pipe, readers, data, sent, lost>>

\* Mutant: read() is called once.
Read_Once(t) ==
    /\ pc[t] = "read" /\ pipe[t] # <<>>
    /\ data' = [data EXCEPT ![t] = <<>>]
    /\ pipe' = [pipe EXCEPT ![t] = <<>>]
    /\ output' = [output EXCEPT ![t] = pipe[t]]
    /\ readers' = CloseEnd(readers, t, Parent)
    /\ Goto(t, "wait")
    /\ UNCHANGED <<mode, forked, result, process, writers, sent, lost>>

\* read(): as much as there is, at most a batch.
Read(t) ==
    /\ pc[t] = "read"
    /\ \E n \in 1 .. Len(pipe[t]) :
        /\ data' = [data EXCEPT ![t] = @ \o SubSeq(pipe[t], 1, n)]
        /\ pipe' = [pipe EXCEPT ![t] = SubSeq(@, n + 1, Len(@))]
    /\ UNCHANGED <<locals, process, readers, writers, sent, lost>>

\* The data become a string that ends at the first zero byte.
UpToNul(s) == LET n == SelectInSeq(s, LAMBDA c : c = Nul)
              IN  IF n = 0 THEN s ELSE SubSeq(s, 1, n - 1)

\* Mutant: the reading end is not closed.
EndReading_Open(t) ==
    /\ output' = [output EXCEPT ![t] = UpToNul(data[t])]
    /\ data' = [data EXCEPT ![t] = <<>>]
    /\ Goto(t, "wait")
    /\ UNCHANGED <<mode, forked, result, process, pipes, sent>>

EndReading(t) ==
    /\ output' = [output EXCEPT ![t] = UpToNul(data[t])]
    /\ data' = [data EXCEPT ![t] = <<>>]
    /\ readers' = CloseEnd(readers, t, Parent)
    /\ Goto(t, "wait")
    /\ UNCHANGED <<mode, forked, result, process, pipe, writers, sent>>

\* The end of the data: nobody has the writing end any more.
ReadEnd(t) ==
    /\ pc[t] = "read" /\ pipe[t] = <<>> /\ writers[t] = {}
    /\ EndReading(t)
    /\ UNCHANGED lost

\* read() fails: logged, and what has been read is the output.
ReadFails(t) ==
    /\ "read" \in Faults[t] /\ pc[t] = "read"
    /\ EndReading(t)
    /\ lost' = [lost EXCEPT ![t] = @ \cup {"read"}]

-----------------------------------------------------------------------------
Ended == {"exited", "killed"}
Reap(u) == proc' = [proc EXCEPT ![u] = "none"]

\* Mutant: any program will do.
Wait_Any(t) ==
    /\ pc[t] = "wait" /\ forked[t]
    /\ \E u \in Threads :
        /\ proc[u] \in Ended
        /\ Return(t, IF proc[u] = "exited" THEN status[u] ELSE Threw)
        /\ Reap(u)
    /\ UNCHANGED <<mode, forked, output, status, todo, pipes, data, sent, lost>>

\* waitpid() for the own program, which returned or was terminated ...
Wait(t) ==
    /\ pc[t] = "wait" /\ forked[t] /\ proc[t] \in Ended
    /\ Return(t, IF proc[t] = "exited" THEN status[t] ELSE Threw)
    /\ Reap(t)
    /\ UNCHANGED <<mode, forked, output, status, todo, pipes, data, sent, lost>>

\* ... or has been waited for by another thread ...
WaitTooLate(t) ==
    /\ pc[t] = "wait" /\ forked[t] /\ proc[t] = "none"
    /\ lost' = [lost EXCEPT ![t] = @ \cup {"theft"}]
    /\ Return(t, Threw)
    /\ UNCHANGED <<mode, forked, output, process, pipes, data, sent>>

\* ... or a signal interrupts the call.
WaitFails(t) ==
    /\ "wait" \in Faults[t] /\ pc[t] = "wait" /\ forked[t] /\ proc[t] # "none"
    /\ lost' = [lost EXCEPT ![t] = @ \cup {"wait"}]
    /\ Return(t, Threw)
    /\ UNCHANGED <<mode, forked, output, process, pipes, data, sent>>

\* waitpid(-1) returns any program that ended: not -1, an exception.
WaitAny(t, u) ==
    /\ pc[t] = "wait" /\ ~forked[t] /\ proc[u] \in Ended
    /\ Reap(u)
    /\ Return(t, Threw)
    /\ UNCHANGED <<mode, forked, output, status, todo, pipes, data, sent, lost>>

\* Without any program it returns -1, which is what fork() returned, and leaves
\* the status as it was initialised.
WaitNone(t) ==
    /\ pc[t] = "wait" /\ ~forked[t] /\ \A u \in Threads : proc[u] = "none"
    /\ Return(t, 0)
    /\ UNCHANGED <<mode, forked, output, process, pipes, data, sent, lost>>

-----------------------------------------------------------------------------
Become(t, p) == proc' = [proc EXCEPT ![t] = p]

\* The process leaves: all its ends are closed.
Leave(t, p) ==
    /\ Become(t, p)
    /\ readers' = CloseAll(readers, t)
    /\ writers' = CloseAll(writers, t)
    /\ UNCHANGED <<locals, todo, pipe, data, sent, lost>>

\* In the new process: close the reading end, duplicate, execute the program.
Exec(t) ==
    /\ proc[t] = "born"
    /\ readers' = CloseEnd(readers, t, t)
    /\ Become(t, "running")
    /\ UNCHANGED <<locals, status, todo, pipe, writers, data, sent, lost>>

\* dup2() fails, or the execv() of the free run(): the exception unwinds a copy
\* of the caller's program, which goes on from there in the new process.
GoAstray(t) ==
    /\ proc[t] = "born"
    /\ ("dup" \in Faults[t] /\ mode[t] = "capture") \/ ("exec" \in Faults[t] /\ mode[t] = "free")
    /\ readers' = CloseEnd(readers, t, t)
    /\ Become(t, "stray")
    /\ UNCHANGED <<locals, status, todo, pipe, writers, data, sent, lost>>

\* execve() fails: Child::run() logs it and exits.
ExecFails(t) ==
    /\ "exec" \in Faults[t] /\ proc[t] = "born" /\ mode[t] # "free"
    /\ status' = [status EXCEPT ![t] = 1]
    /\ Leave(t, "exited")

\* A program writes when there is room and somebody may read it ...
Write(t) ==
    /\ proc[t] = "running" /\ todo[t] # <<>> /\ Len(pipe[t]) < Capacity /\ readers[t] # {}
    /\ pipe' = [pipe EXCEPT ![t] = Append(@, Head(todo[t]))]
    /\ sent' = [sent EXCEPT ![t] = Append(@, Head(todo[t]))]
    /\ todo' = [todo EXCEPT ![t] = Tail(@)]
    /\ UNCHANGED <<locals, proc, status, readers, writers, data, lost>>

\* ... or is killed by the signal that says nobody reads; or by somebody.
Killed(t) ==
    /\ proc[t] \in {"born", "running", "stray"}
    /\ Leave(t, "killed")
    /\ UNCHANGED status

BrokenPipe(t) == proc[t] = "running" /\ todo[t] # <<>> /\ readers[t] = {} /\ Killed(t)

Exit(t) ==
    /\ proc[t] = "stray" \/ (proc[t] = "running" /\ todo[t] = <<>>)
    /\ \E c \in Codes : status' = [status EXCEPT ![t] = c]
    /\ Leave(t, "exited")

-----------------------------------------------------------------------------
Calling(t) ==
    \/ MakePipe(t) \/ Fork(t) \/ CloseWriteEnd(t) \/ Read(t) \/ ReadEnd(t)
    \/ Wait(t) \/ WaitTooLate(t) \/ WaitNone(t) \/ \E u \in Threads : WaitAny(t, u)

Failing(t) ==
    PipeFails(t) \/ ForkFails(t) \/ ReadFails(t) \/ WaitFails(t) \/ GoAstray(t) \/ ExecFails(t) \/ Killed(t)

Living(t) == Exec(t) \/ Write(t) \/ BrokenPipe(t) \/ Exit(t)

Next == \E t \in Threads : Start(t) \/ Calling(t) \/ Failing(t) \/ Living(t)

Spec == Init /\ [][Next]_vars

\* Threads go on, and so do programs: each one ends when it has written all.
\* Nothing has to fail.
FairSpec == Spec /\ \A t \in Threads : WF_vars(Calling(t)) /\ WF_vars(Living(t))
-----------------------------------------------------------------------------
TypeOK ==
    /\ pc \in [Threads -> {"idle", "pipe", "fork", "close", "read", "wait"}]
    /\ mode \in [Threads -> {"capture", "plain", "free"}]
    /\ forked \in [Threads -> BOOLEAN] /\ result \in [Threads -> Codes \cup {Threw}]
    /\ proc \in [Threads -> {"none", "born", "running", "stray"} \cup Ended]
    /\ status \in [Threads -> Codes]
    /\ readers \in [Threads -> SUBSET (Threads \cup {Parent})]
    /\ writers \in [Threads -> SUBSET (Threads \cup {Parent})]
    /\ lost \in [Threads -> SUBSET {"read", "wait", "theft"}]

\* No run leaves an end of its pipe open in the process, whichever call failed.
NoLeak == \A t \in Threads : pc[t] = "idle" => Parent \notin readers[t] \cup writers[t]

\* A status that is returned after a fork() is the one of the thread's own
\* program, however many others end and are waited for at the same time.
StatusIsOwn == \A t \in Threads :
    pc[t] = "idle" /\ forked[t] /\ result[t] # Threw => result[t] = status[t] /\ proc[t] = "none"

\* The output is all that the program wrote, or all before a zero byte,
\* although other programs have the ends of the same pipe open.
OutputComplete == \A t \in Threads :
    mode[t] = "capture" /\ pc[t] \in {"wait", "idle"} /\ forked[t] /\ "read" \notin lost[t] => output[t] = UpToNul(sent[t])

\* A run leaves no process behind, unless a signal has interrupted waitpid().
NoZombie == \A t \in Threads : pc[t] = "idle" /\ proc[t] # "none" => "wait" \in lost[t]

\* Nothing is left behind by a run: no descriptor and no process.
NothingLeft == NoLeak /\ NoZombie

\* Every run ends when the programs do, also when another program inherited
\* its pipe, unless reading from some pipe has failed.  A run whose fork() failed
\* waits for any program, and may wait as long as others are faster.
RunsEnd == \A t \in Threads :
    pc[t] # "idle" ~> \/ pc[t] = "idle" \/ (pc[t] = "wait" /\ ~forked[t])
                      \/ \E u \in Threads : "read" \in lost[u]
=============================================================================

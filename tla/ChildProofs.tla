---------------------------- MODULE ChildProofs ----------------------------
(***************************************************************************)
(* Proofs about Child: its types, that a run leaves no descriptor and no   *)
(* process behind, and that its status is the one of its own program, for  *)
(* any number of threads and whatever fails.                               *)
(***************************************************************************)
EXTENDS Child, SequenceTheorems, TLAPS

\* Initially the values have their types.
LEMMA TypeInit == Init => TypeOK
  BY ThreadsAssumption, CodesAssumption DEF Init, TypeOK, Ended

\* Every step keeps the types.
LEMMA TypeStep == TypeOK /\ [Next]_vars => TypeOK'
<1> SUFFICES ASSUME TypeOK, [Next]_vars PROVE TypeOK'
  OBVIOUS
<1> USE ThreadsAssumption, CodesAssumption DEF TypeOK, Goto, Return, AfterFork, CloseEnd, CloseAll, Ended
<1>1. ASSUME NEW t \in Threads, Start(t) PROVE TypeOK'
  BY <1>1 DEF Start
<1>2. ASSUME NEW t \in Threads, MakePipe(t) PROVE TypeOK'
  BY <1>2 DEF MakePipe, pipes, process
<1>3. ASSUME NEW t \in Threads, PipeFails(t) PROVE TypeOK'
  BY <1>3 DEF PipeFails, process, pipes
<1>4. ASSUME NEW t \in Threads, Fork(t) PROVE TypeOK'
  BY <1>4 DEF Fork, Inherit
<1>5. ASSUME NEW t \in Threads, ForkFails(t) PROVE TypeOK'
  BY <1>5 DEF ForkFails, process, pipes
<1>6. ASSUME NEW t \in Threads, CloseWriteEnd(t) PROVE TypeOK'
  BY <1>6 DEF CloseWriteEnd, process
<1>7. ASSUME NEW t \in Threads, Read(t) PROVE TypeOK'
  BY <1>7 DEF Read, locals, process
<1>8. ASSUME NEW t \in Threads, ReadEnd(t) PROVE TypeOK'
  BY <1>8 DEF ReadEnd, EndReading, process
<1>9. ASSUME NEW t \in Threads, ReadFails(t) PROVE TypeOK'
  BY <1>9 DEF ReadFails, EndReading, process
<1>10. ASSUME NEW t \in Threads, Wait(t) PROVE TypeOK'
  BY <1>10 DEF Wait, Reap, pipes
<1>11. ASSUME NEW t \in Threads, WaitTooLate(t) PROVE TypeOK'
  BY <1>11 DEF WaitTooLate, process, pipes
<1>12. ASSUME NEW t \in Threads, WaitFails(t) PROVE TypeOK'
  BY <1>12 DEF WaitFails, process, pipes
<1>13. ASSUME NEW t \in Threads, WaitNone(t) PROVE TypeOK'
  BY <1>13 DEF WaitNone, process, pipes
<1>14. ASSUME NEW t \in Threads, Exec(t) PROVE TypeOK'
  BY <1>14 DEF Exec, Become, locals
<1>15. ASSUME NEW t \in Threads, GoAstray(t) PROVE TypeOK'
  BY <1>15 DEF GoAstray, Become, locals
<1>16. ASSUME NEW t \in Threads, ExecFails(t) PROVE TypeOK'
  BY <1>16 DEF ExecFails, Leave, Become, locals
<1>17. ASSUME NEW t \in Threads, Write(t) PROVE TypeOK'
  BY <1>17 DEF Write, locals
<1>18. ASSUME NEW t \in Threads, BrokenPipe(t) PROVE TypeOK'
  BY <1>18 DEF BrokenPipe, Killed, Leave, Become, locals
<1>19. ASSUME NEW t \in Threads, Killed(t) PROVE TypeOK'
  BY <1>19 DEF Killed, Leave, Become, locals
<1>20. ASSUME NEW t \in Threads, Exit(t) PROVE TypeOK'
  BY <1>20 DEF Exit, Leave, Become, locals
<1>21. ASSUME NEW t \in Threads, NEW u \in Threads, WaitAny(t, u) PROVE TypeOK'
  BY <1>21 DEF WaitAny, Reap, pipes
<1>22. ASSUME UNCHANGED vars PROVE TypeOK'
  BY <1>22 DEF vars, locals, process, pipes
<1> QED  BY <1>1, <1>2, <1>3, <1>4, <1>5, <1>6, <1>7, <1>8, <1>9, <1>10, <1>11, <1>12,
            <1>13, <1>14, <1>15, <1>16, <1>17, <1>18, <1>19, <1>20, <1>21, <1>22
         DEF Next, Calling, Failing, Living

-----------------------------------------------------------------------------
\* The process has the ends of a pipe only where the run that made it is going
\* to close them.
Ends == \A t \in Threads :
    /\ pc[t] = "pipe" => mode[t] = "capture"
    /\ Parent \in readers[t] => mode[t] = "capture" /\ pc[t] \in {"fork", "close", "read"}
    /\ Parent \in writers[t] => mode[t] = "capture" /\ pc[t] \in {"fork", "close"}

\* Every step keeps that.
LEMMA EndsStep == TypeOK /\ Ends /\ [Next]_vars => Ends'
<1> SUFFICES ASSUME TypeOK, Ends, [Next]_vars PROVE Ends'
  OBVIOUS
<1> USE ThreadsAssumption DEF TypeOK, Ends, Goto, Return, AfterFork, CloseEnd, CloseAll
<1>1. ASSUME NEW t \in Threads, Start(t) PROVE Ends'
  <2>1. PICK m \in Modes[t], w \in Outputs :
          mode' = [mode EXCEPT ![t] = m] /\ Goto(t, IF m = "capture" THEN "pipe" ELSE "fork")
    BY <1>1 DEF Start
  <2>2. pc[t] = "idle" /\ readers' = readers /\ writers' = writers
    BY <1>1 DEF Start
  <2>3. \A u \in Threads : u # t => mode'[u] = mode[u] /\ pc'[u] = pc[u]
    BY <2>1
  <2>5. mode'[t] = m /\ pc'[t] \in {"pipe", "fork"} /\ (pc'[t] = "pipe" => m = "capture")
    BY <2>1
  <2>4. Parent \notin readers[t] \cup writers[t]
    BY <2>2
  <2> QED  BY <2>2, <2>3, <2>4, <2>5
<1>2. ASSUME NEW t \in Threads, MakePipe(t) PROVE Ends'
  BY <1>2 DEF MakePipe, pipes, process
<1>3. ASSUME NEW t \in Threads, PipeFails(t) PROVE Ends'
  BY <1>3 DEF PipeFails, process, pipes
<1>4. ASSUME NEW t \in Threads, Fork(t) PROVE Ends'
  BY <1>4 DEF Fork, Inherit
<1>5. ASSUME NEW t \in Threads, ForkFails(t) PROVE Ends'
  BY <1>5 DEF ForkFails, process, pipes
<1>6. ASSUME NEW t \in Threads, CloseWriteEnd(t) PROVE Ends'
  BY <1>6 DEF CloseWriteEnd, process
<1>7. ASSUME NEW t \in Threads, Read(t) PROVE Ends'
  BY <1>7 DEF Read, locals, process
<1>8. ASSUME NEW t \in Threads, ReadEnd(t) PROVE Ends'
  BY <1>8 DEF ReadEnd, EndReading, process
<1>9. ASSUME NEW t \in Threads, ReadFails(t) PROVE Ends'
  BY <1>9 DEF ReadFails, EndReading, process
<1>10. ASSUME NEW t \in Threads, Wait(t) PROVE Ends'
  BY <1>10 DEF Wait, Reap, pipes
<1>11. ASSUME NEW t \in Threads, WaitTooLate(t) PROVE Ends'
  BY <1>11 DEF WaitTooLate, process, pipes
<1>12. ASSUME NEW t \in Threads, WaitFails(t) PROVE Ends'
  BY <1>12 DEF WaitFails, process, pipes
<1>13. ASSUME NEW t \in Threads, WaitNone(t) PROVE Ends'
  BY <1>13 DEF WaitNone, process, pipes
<1>14. ASSUME NEW t \in Threads, Exec(t) PROVE Ends'
  BY <1>14 DEF Exec, Become, locals
<1>15. ASSUME NEW t \in Threads, GoAstray(t) PROVE Ends'
  BY <1>15 DEF GoAstray, Become, locals
<1>16. ASSUME NEW t \in Threads, ExecFails(t) PROVE Ends'
  BY <1>16 DEF ExecFails, Leave, Become, locals
<1>17. ASSUME NEW t \in Threads, Write(t) PROVE Ends'
  BY <1>17 DEF Write, locals
<1>18. ASSUME NEW t \in Threads, BrokenPipe(t) PROVE Ends'
  BY <1>18 DEF BrokenPipe, Killed, Leave, Become, locals
<1>19. ASSUME NEW t \in Threads, Killed(t) PROVE Ends'
  BY <1>19 DEF Killed, Leave, Become, locals
<1>20. ASSUME NEW t \in Threads, Exit(t) PROVE Ends'
  BY <1>20 DEF Exit, Leave, Become, locals
<1>21. ASSUME NEW t \in Threads, NEW u \in Threads, WaitAny(t, u) PROVE Ends'
  BY <1>21 DEF WaitAny, Reap, pipes
<1>22. ASSUME UNCHANGED vars PROVE Ends'
  BY <1>22 DEF vars, locals, process, pipes
<1> QED  BY <1>1, <1>2, <1>3, <1>4, <1>5, <1>6, <1>7, <1>8, <1>9, <1>10, <1>11, <1>12,
            <1>13, <1>14, <1>15, <1>16, <1>17, <1>18, <1>19, <1>20, <1>21, <1>22
         DEF Next, Calling, Failing, Living

-----------------------------------------------------------------------------
\* A program is there while the run that started it will wait for it, or when
\* a signal has interrupted the wait.
Waited == \A t \in Threads : proc[t] # "none" =>
    /\ forked[t]
    /\ pc[t] \in {"close", "read", "wait"} \/ (pc[t] = "idle" /\ "wait" \in lost[t])

\* Every step keeps that: nobody else waits for a program that has a run.
LEMMA WaitedStep == TypeOK /\ Waited /\ [Next]_vars => Waited'
<1> SUFFICES ASSUME TypeOK, Waited, [Next]_vars PROVE Waited'
  OBVIOUS
<1> USE DEF TypeOK, Waited, Goto, Return, AfterFork, Ended
<1>1. ASSUME NEW t \in Threads, Start(t) PROVE Waited'
  BY <1>1 DEF Start
<1>2. ASSUME NEW t \in Threads, MakePipe(t) PROVE Waited'
  BY <1>2 DEF MakePipe, pipes, process
<1>3. ASSUME NEW t \in Threads, PipeFails(t) PROVE Waited'
  BY <1>3 DEF PipeFails, process, pipes
<1>4. ASSUME NEW t \in Threads, Fork(t) PROVE Waited'
  BY <1>4 DEF Fork, Inherit
<1>5. ASSUME NEW t \in Threads, ForkFails(t) PROVE Waited'
  BY <1>5 DEF ForkFails, process, pipes
<1>6. ASSUME NEW t \in Threads, CloseWriteEnd(t) PROVE Waited'
  BY <1>6 DEF CloseWriteEnd, process
<1>7. ASSUME NEW t \in Threads, Read(t) PROVE Waited'
  BY <1>7 DEF Read, locals, process
<1>8. ASSUME NEW t \in Threads, ReadEnd(t) PROVE Waited'
  BY <1>8 DEF ReadEnd, EndReading, process
<1>9. ASSUME NEW t \in Threads, ReadFails(t) PROVE Waited'
  BY <1>9 DEF ReadFails, EndReading, process
<1>10. ASSUME NEW t \in Threads, Wait(t) PROVE Waited'
  BY <1>10 DEF Wait, Reap, pipes
<1>11. ASSUME NEW t \in Threads, WaitTooLate(t) PROVE Waited'
  BY <1>11 DEF WaitTooLate, process, pipes
<1>12. ASSUME NEW t \in Threads, WaitFails(t) PROVE Waited'
  BY <1>12 DEF WaitFails, process, pipes
<1>13. ASSUME NEW t \in Threads, WaitNone(t) PROVE Waited'
  BY <1>13 DEF WaitNone, process, pipes
<1>14. ASSUME NEW t \in Threads, Exec(t) PROVE Waited'
  BY <1>14 DEF Exec, Become, locals
<1>15. ASSUME NEW t \in Threads, GoAstray(t) PROVE Waited'
  BY <1>15 DEF GoAstray, Become, locals
<1>16. ASSUME NEW t \in Threads, ExecFails(t) PROVE Waited'
  BY <1>16 DEF ExecFails, Leave, Become, locals
<1>17. ASSUME NEW t \in Threads, Write(t) PROVE Waited'
  BY <1>17 DEF Write, locals
<1>18. ASSUME NEW t \in Threads, BrokenPipe(t) PROVE Waited'
  BY <1>18 DEF BrokenPipe, Killed, Leave, Become, locals
<1>19. ASSUME NEW t \in Threads, Killed(t) PROVE Waited'
  BY <1>19 DEF Killed, Leave, Become, locals
<1>20. ASSUME NEW t \in Threads, Exit(t) PROVE Waited'
  BY <1>20 DEF Exit, Leave, Become, locals
<1>21. ASSUME NEW t \in Threads, NEW u \in Threads, WaitAny(t, u) PROVE Waited'
  BY <1>21 DEF WaitAny, Reap, pipes
<1>22. ASSUME UNCHANGED vars PROVE Waited'
  BY <1>22 DEF vars, locals, process, pipes
<1> QED  BY <1>1, <1>2, <1>3, <1>4, <1>5, <1>6, <1>7, <1>8, <1>9, <1>10, <1>11, <1>12,
            <1>13, <1>14, <1>15, <1>16, <1>17, <1>18, <1>19, <1>20, <1>21, <1>22
         DEF Next, Calling, Failing, Living

-----------------------------------------------------------------------------
\* Every step keeps the status of a run that is over: its program is gone.
LEMMA StatusStep == TypeOK /\ Waited /\ StatusIsOwn /\ [Next]_vars => StatusIsOwn'
<1> SUFFICES ASSUME TypeOK, Waited, StatusIsOwn, [Next]_vars PROVE StatusIsOwn'
  OBVIOUS
<1> USE DEF TypeOK, Waited, StatusIsOwn, Goto, Return, AfterFork, Ended
<1>1. ASSUME NEW t \in Threads, Start(t) PROVE StatusIsOwn'
  BY <1>1 DEF Start
<1>2. ASSUME NEW t \in Threads, MakePipe(t) PROVE StatusIsOwn'
  BY <1>2 DEF MakePipe, pipes, process
<1>3. ASSUME NEW t \in Threads, PipeFails(t) PROVE StatusIsOwn'
  BY <1>3 DEF PipeFails, process, pipes
<1>4. ASSUME NEW t \in Threads, Fork(t) PROVE StatusIsOwn'
  BY <1>4 DEF Fork, Inherit
<1>5. ASSUME NEW t \in Threads, ForkFails(t) PROVE StatusIsOwn'
  BY <1>5 DEF ForkFails, process, pipes
<1>6. ASSUME NEW t \in Threads, CloseWriteEnd(t) PROVE StatusIsOwn'
  BY <1>6 DEF CloseWriteEnd, process
<1>7. ASSUME NEW t \in Threads, Read(t) PROVE StatusIsOwn'
  BY <1>7 DEF Read, locals, process
<1>8. ASSUME NEW t \in Threads, ReadEnd(t) PROVE StatusIsOwn'
  BY <1>8 DEF ReadEnd, EndReading, process
<1>9. ASSUME NEW t \in Threads, ReadFails(t) PROVE StatusIsOwn'
  BY <1>9 DEF ReadFails, EndReading, process
<1>10. ASSUME NEW t \in Threads, Wait(t) PROVE StatusIsOwn'
  BY <1>10 DEF Wait, Reap, pipes
<1>11. ASSUME NEW t \in Threads, WaitTooLate(t) PROVE StatusIsOwn'
  BY <1>11 DEF WaitTooLate, process, pipes
<1>12. ASSUME NEW t \in Threads, WaitFails(t) PROVE StatusIsOwn'
  BY <1>12 DEF WaitFails, process, pipes
<1>13. ASSUME NEW t \in Threads, WaitNone(t) PROVE StatusIsOwn'
  BY <1>13 DEF WaitNone, process, pipes
<1>14. ASSUME NEW t \in Threads, Exec(t) PROVE StatusIsOwn'
  BY <1>14 DEF Exec, Become, locals
<1>15. ASSUME NEW t \in Threads, GoAstray(t) PROVE StatusIsOwn'
  BY <1>15 DEF GoAstray, Become, locals
<1>16. ASSUME NEW t \in Threads, ExecFails(t) PROVE StatusIsOwn'
  BY <1>16 DEF ExecFails, Leave, Become, locals
<1>17. ASSUME NEW t \in Threads, Write(t) PROVE StatusIsOwn'
  BY <1>17 DEF Write, locals
<1>18. ASSUME NEW t \in Threads, BrokenPipe(t) PROVE StatusIsOwn'
  BY <1>18 DEF BrokenPipe, Killed, Leave, Become, locals
<1>19. ASSUME NEW t \in Threads, Killed(t) PROVE StatusIsOwn'
  BY <1>19 DEF Killed, Leave, Become, locals
<1>20. ASSUME NEW t \in Threads, Exit(t) PROVE StatusIsOwn'
  BY <1>20 DEF Exit, Leave, Become, locals
<1>21. ASSUME NEW t \in Threads, NEW u \in Threads, WaitAny(t, u) PROVE StatusIsOwn'
  BY <1>21 DEF WaitAny, Reap, pipes
<1>22. ASSUME UNCHANGED vars PROVE StatusIsOwn'
  BY <1>22 DEF vars, locals, process, pipes
<1> QED  BY <1>1, <1>2, <1>3, <1>4, <1>5, <1>6, <1>7, <1>8, <1>9, <1>10, <1>11, <1>12,
            <1>13, <1>14, <1>15, <1>16, <1>17, <1>18, <1>19, <1>20, <1>21, <1>22
         DEF Next, Calling, Failing, Living

-----------------------------------------------------------------------------
Inv == TypeOK /\ Ends /\ Waited /\ StatusIsOwn

\* The invariant holds in every behaviour.
THEOREM Invariance == Spec => []Inv
<1>1. Init => Inv
  BY TypeInit DEF Init, Inv, Ends, Waited, StatusIsOwn
<1>2. Inv /\ [Next]_vars => Inv'
  BY TypeStep, EndsStep, WaitedStep, StatusStep DEF Inv
<1> QED  BY <1>1, <1>2, PTL DEF Spec

\* Types of all variables but the contents of pipes and outputs.
THEOREM TypeCorrect == Spec => []TypeOK
<1>1. Inv => TypeOK
  BY DEF Inv
<1> QED  BY <1>1, Invariance, PTL

\* A run leaves no descriptor and, if its wait is not interrupted, no process.
THEOREM NothingStays == Spec => []NothingLeft
<1>1. Inv => NothingLeft
  BY DEF Inv, Ends, Waited, NothingLeft, NoLeak, NoZombie
<1> QED  BY <1>1, Invariance, PTL

\* The status of a run is the one of its own program.
THEOREM OwnStatus == Spec => []StatusIsOwn
<1>1. Inv => StatusIsOwn
  BY DEF Inv
<1> QED  BY <1>1, Invariance, PTL
-----------------------------------------------------------------------------
\* What is written, in the pipe and read are chunks.
Contents ==
    /\ todo \in [Threads -> Seq(Chunks)] /\ sent \in [Threads -> Seq(Chunks)]
    /\ pipe \in [Threads -> Seq(Chunks)] /\ data \in [Threads -> Seq(Chunks)]

\* Only the start of a run, reading and writing touch them.
LEMMA StepsThatCarry ==
    ASSUME [Next]_vars
    PROVE  \/ \E t \in Threads : Start(t) \/ Read(t) \/ ReadEnd(t) \/ ReadFails(t) \/ Write(t)
           \/ UNCHANGED <<todo, sent, pipe, data>>
  BY DEF Next, Calling, Failing, Living, MakePipe, PipeFails, Fork, ForkFails, CloseWriteEnd, Wait,
         WaitTooLate, WaitFails, WaitAny, WaitNone, Exec, GoAstray, ExecFails, BrokenPipe, Killed,
         Exit, Leave, vars, process, pipes

\* They stay chunks.
LEMMA ContentsStep == Contents /\ [Next]_vars => Contents'
<1> SUFFICES ASSUME Contents, [Next]_vars PROVE Contents'
  OBVIOUS
<1> USE DEF Contents
<1>0. <<>> \in Seq(Chunks)
  BY EmptySeq
<1>1. ASSUME NEW t \in Threads, Start(t) PROVE Contents'
  <2>1. PICK m \in Modes[t], w \in Outputs :
          todo' = [todo EXCEPT ![t] = IF m = "capture" THEN w ELSE <<>>]
    BY <1>1 DEF Start
  <2>2. w \in Seq(Chunks)
    BY BoundsAssumption
  <2> QED
    BY <1>0, <1>1, <2>1, <2>2 DEF Start
<1>2. ASSUME NEW t \in Threads, Read(t) PROVE Contents'
  <2>1. PICK n \in 1 .. Len(pipe[t]) :
          /\ data' = [data EXCEPT ![t] = @ \o SubSeq(pipe[t], 1, n)]
          /\ pipe' = [pipe EXCEPT ![t] = SubSeq(@, n + 1, Len(@))]
    BY <1>2 DEF Read
  <2>2. Len(pipe[t]) \in Nat /\ \A i \in 1 .. Len(pipe[t]) : pipe[t][i] \in Chunks
    BY LenProperties, ElementOfSeq
  <2>3. SubSeq(pipe[t], 1, n) \in Seq(Chunks) /\ SubSeq(pipe[t], n + 1, Len(pipe[t])) \in Seq(Chunks)
    <3>1. \A i \in 1 .. n : pipe[t][i] \in Chunks
      BY <2>2
    <3>2. \A i \in n + 1 .. Len(pipe[t]) : pipe[t][i] \in Chunks
      BY <2>2
    <3> QED
      BY <2>2, <3>1, <3>2, SubSeqProperties
  <2>4. data[t] \o SubSeq(pipe[t], 1, n) \in Seq(Chunks)
    BY <2>3, ConcatProperties
  <2> QED
    BY <1>2, <2>1, <2>3, <2>4 DEF Read, process
<1>3. ASSUME NEW t \in Threads, ReadEnd(t) \/ ReadFails(t) PROVE Contents'
  BY <1>0, <1>3 DEF ReadEnd, ReadFails, EndReading, process
<1>4. ASSUME NEW t \in Threads, Write(t) PROVE Contents'
  <2>1. Head(todo[t]) \in Chunks /\ Tail(todo[t]) \in Seq(Chunks)
    BY <1>4, HeadTailProperties DEF Write
  <2>2. /\ Append(pipe[t], Head(todo[t])) \in Seq(Chunks)
        /\ Append(sent[t], Head(todo[t])) \in Seq(Chunks)
    BY <2>1, AppendProperties
  <2> QED
    BY <1>4, <2>1, <2>2 DEF Write
<1> QED
  BY <1>1, <1>2, <1>3, <1>4, StepsThatCarry

-----------------------------------------------------------------------------
\* Until the run stops reading, what the program has written is what was read,
\* followed by what is in the pipe.
Flow == \A t \in Threads :
    /\ pc[t] # "read" => data[t] = <<>>
    /\ pc[t] \in {"pipe", "fork", "close", "read"} => sent[t] = data[t] \o pipe[t]

\* Concatenation of chunks is associative.
LEMMA Associative ==
    ASSUME NEW s \in Seq(Chunks), NEW a \in Seq(Chunks), NEW b \in Seq(Chunks)
    PROVE  (s \o a) \o b = s \o (a \o b)
  BY ConcatAssociative

\* Reading a batch takes it from the front of the pipe.
LEMMA Batch ==
    ASSUME NEW s \in Seq(Chunks), NEW p \in Seq(Chunks), NEW n \in 1 .. Len(p)
    PROVE  (s \o SubSeq(p, 1, n)) \o SubSeq(p, n + 1, Len(p)) = s \o p
<1>1. Len(p) \in Nat /\ \A i \in 1 .. Len(p) : p[i] \in Chunks
  BY LenProperties, ElementOfSeq
<1>2. SubSeq(p, 1, n) \in Seq(Chunks) /\ SubSeq(p, n + 1, Len(p)) \in Seq(Chunks)
  <2>1. \A i \in 1 .. n : p[i] \in Chunks
    BY <1>1
  <2>2. \A i \in n + 1 .. Len(p) : p[i] \in Chunks
    BY <1>1
  <2> QED
    BY <1>1, <2>1, <2>2, SubSeqProperties
<1>3. SubSeq(p, 1, n) \o SubSeq(p, n + 1, Len(p)) = p
  <2>1. 1 \in 1 .. Len(p) + 1 /\ n \in 1 - 1 .. Len(p) /\ Len(p) \in n .. Len(p)
    BY <1>1
  <2>2. SubSeq(p, 1, n) \o SubSeq(p, n + 1, Len(p)) = SubSeq(p, 1, Len(p))
    BY <2>1, ConcatAdjacentSubSeq
  <2> QED
    BY <2>2, SubSeqFull
<1>4. \A a, b \in Seq(Chunks) : (s \o a) \o b = s \o (a \o b)
  BY Associative
<1>5. (s \o SubSeq(p, 1, n)) \o SubSeq(p, n + 1, Len(p)) = s \o (SubSeq(p, 1, n) \o SubSeq(p, n + 1, Len(p)))
  BY <1>2, <1>4, Zenon
<1> QED
  BY <1>3, <1>5, Zenon

\* A chunk that is written goes to the end of the pipe.
LEMMA OneMore ==
    ASSUME NEW s \in Seq(Chunks), NEW p \in Seq(Chunks), NEW c \in Chunks
    PROVE  Append(s \o p, c) = s \o Append(p, c)
<1>1. s \o p \in Seq(Chunks) /\ <<c>> \in Seq(Chunks)
  BY ConcatProperties
<1>2. Append(s \o p, c) = (s \o p) \o <<c>> /\ Append(p, c) = p \o <<c>>
  BY <1>1, AppendIsConcat
<1> QED
  BY <1>1, <1>2, ConcatAssociative

\* Every step carries the chunks on in their order.
LEMMA FlowStep == TypeOK /\ Contents /\ Flow /\ [Next]_vars => Flow'
<1> SUFFICES ASSUME TypeOK, Contents, Flow, [Next]_vars PROVE Flow'
  OBVIOUS
<1> USE DEF TypeOK, Contents, Flow, Goto, Return, AfterFork
<1>0. <<>> \o <<>> = <<>> /\ \A s \in Seq(Chunks) : s \o <<>> = s
  BY EmptySeq, ConcatEmptySeq
<1>1. ASSUME NEW t \in Threads, Start(t) PROVE Flow'
  <2>1. /\ data' = data /\ data[t] = <<>> /\ pc[t] = "idle"
        /\ sent' = [sent EXCEPT ![t] = <<>>] /\ pipe' = [pipe EXCEPT ![t] = <<>>]
    BY <1>1 DEF Start
  <2>2. \A u \in Threads : u # t => pc'[u] = pc[u]
    BY <1>1 DEF Start
  <2>3. pc'[t] # "read"
    BY <1>1 DEF Start
  <2> QED
    BY <1>0, <2>1, <2>2, <2>3
<1>2. ASSUME NEW t \in Threads, Read(t) PROVE Flow'
  <2>1. PICK n \in 1 .. Len(pipe[t]) :
          /\ data' = [data EXCEPT ![t] = @ \o SubSeq(pipe[t], 1, n)]
          /\ pipe' = [pipe EXCEPT ![t] = SubSeq(@, n + 1, Len(@))]
    BY <1>2 DEF Read
  <2>2. data'[t] \o pipe'[t] = data[t] \o pipe[t]
    <3>1. /\ data'[t] = data[t] \o SubSeq(pipe[t], 1, n)
          /\ pipe'[t] = SubSeq(pipe[t], n + 1, Len(pipe[t]))
      BY <2>1
    <3>2. data[t] \in Seq(Chunks) /\ pipe[t] \in Seq(Chunks)
      OBVIOUS
    <3>3. (data[t] \o SubSeq(pipe[t], 1, n)) \o SubSeq(pipe[t], n + 1, Len(pipe[t])) = data[t] \o pipe[t]
      BY <3>2, Batch
    <3> QED
      BY <3>1, <3>3, Zenon
  <2>3. UNCHANGED <<pc, sent>> /\ pc[t] = "read"
    BY <1>2 DEF Read, locals
  <2>4. \A u \in Threads : u # t => data'[u] = data[u] /\ pipe'[u] = pipe[u]
    BY <2>1
  <2> QED
    BY <2>2, <2>3, <2>4
<1>3. ASSUME NEW t \in Threads, ReadEnd(t) \/ ReadFails(t) PROVE Flow'
  BY <1>3 DEF ReadEnd, ReadFails, EndReading, process
<1>4. ASSUME NEW t \in Threads, Write(t) PROVE Flow'
  <2>1. Head(todo[t]) \in Chunks
    BY <1>4, HeadTailProperties DEF Write
  <2>2. /\ sent' = [sent EXCEPT ![t] = Append(@, Head(todo[t]))]
        /\ pipe' = [pipe EXCEPT ![t] = Append(@, Head(todo[t]))]
        /\ UNCHANGED <<pc, data>>
    BY <1>4 DEF Write, locals
  <2>3. sent[t] = data[t] \o pipe[t] => sent'[t] = data[t] \o pipe'[t]
    <3>1. sent'[t] = Append(sent[t], Head(todo[t])) /\ pipe'[t] = Append(pipe[t], Head(todo[t]))
      BY <2>2
    <3>2. data[t] \in Seq(Chunks) /\ pipe[t] \in Seq(Chunks)
      OBVIOUS
    <3>3. Append(data[t] \o pipe[t], Head(todo[t])) = data[t] \o Append(pipe[t], Head(todo[t]))
      BY <2>1, <3>2, OneMore
    <3> QED
      BY <3>1, <3>3, Zenon
  <2>4. \A u \in Threads : u # t => sent'[u] = sent[u] /\ pipe'[u] = pipe[u]
    BY <2>2
  <2> QED
    BY <2>2, <2>3, <2>4
<1>5. ASSUME UNCHANGED <<sent, pipe, data>>,
             \A t \in Threads : \/ pc'[t] = pc[t]
                                \/ pc[t] # "read" /\ pc'[t] \in {"idle", "wait"}
                                \/ pc[t] \in {"pipe", "fork", "close"} /\ pc'[t] \in {"fork", "close", "read"}
      PROVE  Flow'
  BY <1>5
<1>6. ASSUME NEW t \in Threads, MakePipe(t) PROVE Flow'
  BY <1>6, <1>5 DEF MakePipe
<1>7. ASSUME NEW t \in Threads, PipeFails(t) PROVE Flow'
  BY <1>7, <1>5 DEF PipeFails, pipes
<1>8. ASSUME NEW t \in Threads, Fork(t) PROVE Flow'
  BY <1>8, <1>5 DEF Fork
<1>9. ASSUME NEW t \in Threads, ForkFails(t) PROVE Flow'
  BY <1>9, <1>5 DEF ForkFails, pipes
<1>10. ASSUME NEW t \in Threads, CloseWriteEnd(t) PROVE Flow'
  BY <1>10, <1>5 DEF CloseWriteEnd
<1>11. ASSUME NEW t \in Threads, Wait(t) \/ WaitTooLate(t) \/ WaitFails(t) \/ WaitNone(t) PROVE Flow'
  BY <1>11, <1>5 DEF Wait, WaitTooLate, WaitFails, WaitNone, pipes
<1>12. ASSUME NEW t \in Threads, NEW u \in Threads, WaitAny(t, u) PROVE Flow'
  BY <1>12, <1>5 DEF WaitAny, pipes
<1>13. ASSUME NEW t \in Threads, \/ Exec(t) \/ GoAstray(t) \/ ExecFails(t) \/ BrokenPipe(t) \/ Killed(t)
                                 \/ Exit(t)
       PROVE  Flow'
  BY <1>13, <1>5 DEF Exec, GoAstray, ExecFails, BrokenPipe, Killed, Exit, Leave, locals
<1>14. CASE UNCHANGED vars
  BY <1>14, <1>5 DEF vars, locals, pipes
<1> QED
  BY <1>1, <1>2, <1>3, <1>4, <1>6, <1>7, <1>8, <1>9, <1>10, <1>11, <1>12, <1>13, <1>14
     DEF Next, Calling, Failing, Living
-----------------------------------------------------------------------------
Alive(t) == proc[t] \in {"born", "running", "stray"}

\* A program has the writing end of its own pipe until it leaves, whoever else
\* closes theirs.
KeepsEnd == \A t \in Threads : mode[t] = "capture" =>
    /\ pc[t] = "fork" => Parent \in writers[t]
    /\ pc[t] \in {"close", "read"} /\ Alive(t) => t \in writers[t]

\* Every step keeps that: a program gets the end with fork().
LEMMA KeepsEndStep == TypeOK /\ Ends /\ Waited /\ KeepsEnd /\ [Next]_vars => KeepsEnd'
<1> SUFFICES ASSUME TypeOK, Ends, Waited, KeepsEnd, [Next]_vars PROVE KeepsEnd'
  OBVIOUS
<1> USE ThreadsAssumption
    DEF TypeOK, Alive, KeepsEnd, Goto, Return, AfterFork, CloseEnd, CloseAll, Ended
<1>1. ASSUME NEW t \in Threads, Start(t) PROVE KeepsEnd'
  <2>1. PICK m \in Modes[t], w \in Outputs :
          mode' = [mode EXCEPT ![t] = m] /\ Goto(t, IF m = "capture" THEN "pipe" ELSE "fork")
    BY <1>1 DEF Start
  <2>2. UNCHANGED <<proc, writers>>
    BY <1>1 DEF Start
  <2>3. \A u \in Threads : u # t => mode'[u] = mode[u] /\ pc'[u] = pc[u]
    BY <2>1
  <2>4. pc'[t] \in {"pipe", "fork"} /\ (mode'[t] = "capture" => pc'[t] = "pipe")
    BY <2>1
  <2> QED
    BY <2>2, <2>3, <2>4
<1>2. ASSUME NEW t \in Threads, MakePipe(t) PROVE KeepsEnd'
  BY <1>2 DEF MakePipe, process
<1>3. ASSUME NEW t \in Threads, PipeFails(t) PROVE KeepsEnd'
  BY <1>3 DEF PipeFails, process, pipes
<1>4. ASSUME NEW t \in Threads, Fork(t) PROVE KeepsEnd'
  BY <1>4 DEF Fork, Inherit
<1>5. ASSUME NEW t \in Threads, ForkFails(t) PROVE KeepsEnd'
  BY <1>5 DEF ForkFails, process, pipes, Waited
<1>6. ASSUME NEW t \in Threads, CloseWriteEnd(t) PROVE KeepsEnd'
  BY <1>6 DEF CloseWriteEnd, process
<1>7. ASSUME NEW t \in Threads, Read(t) PROVE KeepsEnd'
  BY <1>7 DEF Read, locals, process
<1>8. ASSUME NEW t \in Threads, ReadEnd(t) \/ ReadFails(t) PROVE KeepsEnd'
  BY <1>8 DEF ReadEnd, ReadFails, EndReading, process
<1>9. ASSUME NEW t \in Threads, Wait(t) PROVE KeepsEnd'
  BY <1>9 DEF Wait, Reap, pipes
<1>10. ASSUME NEW t \in Threads, WaitTooLate(t) \/ WaitFails(t) \/ WaitNone(t) PROVE KeepsEnd'
  BY <1>10 DEF WaitTooLate, WaitFails, WaitNone, process, pipes
<1>11. ASSUME NEW t \in Threads, NEW u \in Threads, WaitAny(t, u) PROVE KeepsEnd'
  BY <1>11 DEF WaitAny, Reap, pipes
<1>12. ASSUME NEW t \in Threads, Exec(t) \/ GoAstray(t) PROVE KeepsEnd'
  BY <1>12 DEF Exec, GoAstray, Become, locals
<1>13. ASSUME NEW t \in Threads, ExecFails(t) \/ BrokenPipe(t) \/ Killed(t) \/ Exit(t) PROVE KeepsEnd'
  <2>1. /\ UNCHANGED <<pc, mode>> /\ proc'[t] \in {"exited", "killed"}
        /\ \A u \in Threads : u # t => proc'[u] = proc[u]
        /\ \A u \in Threads : writers'[u] = writers[u] \ {t}
    BY <1>13 DEF ExecFails, BrokenPipe, Killed, Exit, Leave, Become, locals
  <2> QED
    BY <2>1
<1>14. ASSUME NEW t \in Threads, Write(t) PROVE KeepsEnd'
  BY <1>14 DEF Write, locals
<1>15. CASE UNCHANGED vars
  BY <1>15 DEF vars, locals, process, pipes
<1> QED
  BY <1>1, <1>2, <1>3, <1>4, <1>5, <1>6, <1>7, <1>8, <1>9, <1>10, <1>11, <1>12, <1>13, <1>14, <1>15
     DEF Next, Calling, Failing, Living

-----------------------------------------------------------------------------
\* A run that has read to the end: its program has left, and nothing is added
\* to what it wrote.
ReadToEnd(t) == /\ mode[t] = "capture" /\ pc[t] \in {"wait", "idle"}
                /\ forked[t] /\ "read" \notin lost[t]

Complete == \A t \in Threads :
    /\ pc[t] \in {"pipe", "fork"} => ~forked[t]
    /\ ReadToEnd(t) => ~Alive(t) /\ output[t] = UpToNul(sent[t])

\* There is one output for each thread.
OneOutput == output = [t \in Threads |-> output[t]]

\* Every step keeps that.
LEMMA OutputStep == OneOutput /\ [Next]_vars => OneOutput'
<1> SUFFICES ASSUME OneOutput, [Next]_vars PROVE OneOutput'
  OBVIOUS
<1>1. (\E t \in Threads : \E o : output' = [output EXCEPT ![t] = o]) \/ UNCHANGED output
  <2>1. ASSUME NEW t \in Threads, CloseWriteEnd(t) PROVE \E o : output' = [output EXCEPT ![t] = o]
    BY <2>1 DEF CloseWriteEnd
  <2>2. ASSUME NEW t \in Threads, ReadEnd(t) \/ ReadFails(t)
        PROVE  \E o : output' = [output EXCEPT ![t] = o]
    BY <2>2 DEF ReadEnd, ReadFails, EndReading
  <2> QED
    BY <2>1, <2>2
       DEF Next, Calling, Failing, Living, Start, MakePipe, PipeFails, Fork, ForkFails, Read, Wait,
           WaitTooLate, WaitFails, WaitAny, WaitNone, Exec, GoAstray, ExecFails, Write, BrokenPipe,
           Killed, Exit, Leave, vars, locals
<1>2. DOMAIN output = Threads
  BY DEF OneOutput
<1> QED
  BY <1>1, <1>2 DEF OneOutput

\* Every step keeps that: the end of the data is the end of the program.
LEMMA CompleteStep ==
    TypeOK /\ Contents /\ OneOutput /\ Waited /\ Flow /\ KeepsEnd /\ Complete /\ [Next]_vars => Complete'
<1> SUFFICES ASSUME TypeOK, Contents, OneOutput, Waited, Flow, KeepsEnd, Complete, [Next]_vars PROVE Complete'
  OBVIOUS
<1> USE DEF TypeOK, Alive, ReadToEnd, Goto, Return, AfterFork, Ended
\* A step of one run that neither writes nor ends the reading.
<1>1. ASSUME UNCHANGED <<sent, output>>,
             \A t \in Threads :
                 /\ ReadToEnd(t)' => ReadToEnd(t)
                 /\ Alive(t)' => Alive(t) \/ ~ReadToEnd(t)
                 /\ pc'[t] \in {"pipe", "fork"} => ~forked'[t]
      PROVE  Complete'
  BY <1>1 DEF Complete
<1>2. ASSUME NEW t \in Threads, Start(t) PROVE Complete'
  <2>1. PICK m \in Modes[t], w \in Outputs : Goto(t, IF m = "capture" THEN "pipe" ELSE "fork")
    BY <1>2 DEF Start
  <2>2. /\ UNCHANGED <<proc, output>> /\ sent' = [sent EXCEPT ![t] = <<>>]
        /\ forked' = [forked EXCEPT ![t] = FALSE] /\ lost' = [lost EXCEPT ![t] = {}]
    BY <1>2 DEF Start
  <2>3. \A u \in Threads : u # t =>
          /\ pc'[u] = pc[u] /\ mode'[u] = mode[u] /\ forked'[u] = forked[u]
          /\ lost'[u] = lost[u] /\ sent'[u] = sent[u]
    BY <1>2, <2>1, <2>2 DEF Start, Contents
  <2>4. pc'[t] \in {"pipe", "fork"} /\ ~forked'[t]
    BY <2>1, <2>2
  <2> QED
    BY <2>2, <2>3, <2>4 DEF Complete
<1>3. ASSUME NEW t \in Threads, MakePipe(t) PROVE Complete'
  BY <1>3, <1>1 DEF MakePipe, process, Complete
<1>4. ASSUME NEW t \in Threads, PipeFails(t) PROVE Complete'
  BY <1>4, <1>1 DEF PipeFails, process, Complete
<1>5. ASSUME NEW t \in Threads, Fork(t) PROVE Complete'
  <2>1. UNCHANGED <<mode, lost, sent, output>> /\ pc[t] = "fork"
    BY <1>5 DEF Fork
  <2>2. \A u \in Threads : u # t => pc'[u] = pc[u] /\ forked'[u] = forked[u] /\ proc'[u] = proc[u]
    BY <1>5 DEF Fork
  <2>3. pc'[t] = IF mode[t] = "capture" THEN "close" ELSE "wait"
    BY <1>5 DEF Fork
  <2>4. ~ReadToEnd(t)' /\ pc'[t] \notin {"pipe", "fork"}
    BY <2>1, <2>3
  <2> QED
    BY <2>1, <2>2, <2>4 DEF Complete
<1>6. ASSUME NEW t \in Threads, ForkFails(t) PROVE Complete'
  BY <1>6, <1>1 DEF ForkFails, process, Complete
<1>7. ASSUME NEW t \in Threads, CloseWriteEnd(t) PROVE Complete'
  <2>1. UNCHANGED <<mode, forked, lost, sent, proc>> /\ pc' = [pc EXCEPT ![t] = "read"]
    BY <1>7 DEF CloseWriteEnd, process
  <2>2. \A u \in Threads : u # t => output'[u] = output[u]
    BY <1>7 DEF CloseWriteEnd, OneOutput
  <2> QED
    BY <2>1, <2>2 DEF Complete
<1>8. ASSUME NEW t \in Threads, Read(t) PROVE Complete'
  BY <1>8, <1>1 DEF Read, locals, process, Complete
<1>9. ASSUME NEW t \in Threads, ReadEnd(t) \/ ReadFails(t) PROVE Complete'
  <2>1. /\ UNCHANGED <<mode, forked, sent, proc>> /\ pc' = [pc EXCEPT ![t] = "wait"]
        /\ pc[t] = "read" /\ output' = [output EXCEPT ![t] = UpToNul(data[t])]
    BY <1>9 DEF ReadEnd, ReadFails, EndReading, process
  <2>5. \A u \in Threads : u # t => output'[u] = output[u]
    BY <2>1 DEF OneOutput
  <2>4. \A u \in Threads : u # t => lost'[u] = lost[u]
    BY <1>9 DEF ReadEnd, ReadFails
  <2>2. CASE ReadFails(t)
    <3>1. "read" \in lost'[t]
      BY <2>2 DEF ReadFails
    <3> QED
      BY <2>1, <2>4, <2>5, <3>1 DEF Complete
  <2>3. CASE ReadEnd(t)
    <3>1. pipe[t] = <<>> /\ writers[t] = {} /\ output'[t] = UpToNul(data[t])
      BY <2>1, <2>3 DEF ReadEnd, OneOutput
    <3>2. sent[t] = data[t]
      <4>1. sent[t] = data[t] \o <<>>
        BY <2>1, <3>1 DEF Flow
      <4>2. data[t] \in Seq(Chunks)
        BY DEF Contents
      <4> QED
        BY <4>1, <4>2, ConcatEmptySeq, Zenon
    <3>3. mode[t] = "capture" => ~Alive(t)
      BY <2>1, <3>1 DEF KeepsEnd
    <3> QED
      BY <2>1, <2>4, <2>5, <3>1, <3>2, <3>3 DEF Complete
  <2> QED
    BY <1>9, <2>2, <2>3
<1>10. ASSUME NEW t \in Threads, Wait(t) PROVE Complete'
  BY <1>10, <1>1 DEF Wait, Reap, pipes, Complete
<1>11. ASSUME NEW t \in Threads, WaitTooLate(t) \/ WaitFails(t) \/ WaitNone(t) PROVE Complete'
  BY <1>11, <1>1 DEF WaitTooLate, WaitFails, WaitNone, process, pipes, Complete
<1>12. ASSUME NEW t \in Threads, NEW u \in Threads, WaitAny(t, u) PROVE Complete'
  BY <1>12, <1>1 DEF WaitAny, Reap, pipes, Complete
<1>13. ASSUME NEW t \in Threads, Exec(t) \/ GoAstray(t) PROVE Complete'
  BY <1>13, <1>1 DEF Exec, GoAstray, Become, locals, Complete
<1>14. ASSUME NEW t \in Threads, ExecFails(t) \/ BrokenPipe(t) \/ Killed(t) \/ Exit(t) PROVE Complete'
  <2>1. /\ UNCHANGED <<pc, mode, forked, lost, sent, output>> /\ proc'[t] \in {"exited", "killed"}
        /\ \A u \in Threads : u # t => proc'[u] = proc[u]
    BY <1>14 DEF ExecFails, BrokenPipe, Killed, Exit, Leave, Become, locals
  <2> QED
    BY <2>1, <1>1 DEF Complete
<1>15. ASSUME NEW t \in Threads, Write(t) PROVE Complete'
  <2>1. UNCHANGED <<pc, mode, forked, lost, proc, output>> /\ Alive(t)
    BY <1>15 DEF Write, locals
  <2>2. \A u \in Threads : u # t => sent'[u] = sent[u]
    BY <1>15 DEF Write, Contents
  <2> QED
    BY <2>1, <2>2 DEF Complete
<1>16. CASE UNCHANGED vars
  BY <1>16, <1>1 DEF vars, locals, process, pipes, Complete
<1> QED
  BY <1>2, <1>3, <1>4, <1>5, <1>6, <1>7, <1>8, <1>9, <1>10, <1>11, <1>12, <1>13, <1>14, <1>15, <1>16
     DEF Next, Calling, Failing, Living

\* The output of a run is all that its program wrote, or all before a zero byte,
\* whoever else has an end of its pipe.
THEOREM OutputIsComplete == Spec => []OutputComplete
<1> DEFINE Carried == Contents /\ OneOutput /\ Flow /\ KeepsEnd /\ Complete
<1>1. Init => Carried
  BY EmptySeq, ConcatEmptySeq
     DEF Init, Contents, OneOutput, Flow, KeepsEnd, Complete, ReadToEnd, Alive
<1>2. Inv /\ Carried /\ [Next]_vars => Carried'
  BY ContentsStep, OutputStep, FlowStep, KeepsEndStep, CompleteStep DEF Inv
<1>3. Carried => OutputComplete
  BY DEF Complete, ReadToEnd, OutputComplete
<1> HIDE DEF Carried
<1> QED
  BY <1>1, <1>2, <1>3, Invariance, PTL DEF Spec
=============================================================================

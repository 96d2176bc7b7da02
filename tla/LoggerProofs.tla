--------------------------- MODULE LoggerProofs ---------------------------
(***************************************************************************)
(* Proofs about Logger: its types, that there is one target between the    *)
(* switches, and what becomes of an entry that is logged while the target  *)
(* is switched, for any number of threads and streams.                     *)
(***************************************************************************)
EXTENDS Logger, FiniteSetTheorems, TLAPS

\* The call a thread has before its first one.
LEMMA FirstCallIsOne == FirstCall \in Macros
<1>1. debug \in Levels \ {none}
  BY LevelsAssumption DEF debug, none
<1> QED  BY <1>1 DEF FirstCall, Macros

\* Who has the mutex is switching, and has done the first write.
Switching == \A t \in Threads :
    /\ pc[t] \in {"stream", "syslog"} <=> mymux = t
    /\ pc[t] = "stream" => new \in Streams /\ ~syslog
    /\ pc[t] = "syslog" => new = "syslog" /\ stream = None /\ ~syslog

Typed == TypeOK /\ Switching

\* Initially the values have their types, and nobody is switching.
LEMMA TypeInit == Init => Typed
  BY FirstCallIsOne, LevelsAssumption, NamesAssumption
  DEF Init, Typed, TypeOK, Switching, SingletonInit, Targets

\* Every step keeps the types.
LEMMA TypeStep == Typed /\ [Next]_vars => TypeOK'
<1> SUFFICES ASSUME Typed, [Next]_vars PROVE TypeOK'
  OBVIOUS
<1> USE DEF Typed, TypeOK, Switching, Goto, Becomes, Targets, Logging, Fates
<1>1. ASSUME NEW t \in Threads, Log(t) PROVE TypeOK'
  <2>1. PICK m \in Macros : call' = [call EXCEPT ![t] = m]
    BY <1>1 DEF Log
  <2>2. call' \in [Threads -> Macros]
    BY <2>1
  <2> QED  BY <1>1, <2>2 DEF Log, GetInstance, target
<1>2. ASSUME NEW t \in Threads, LevelCheck(t) PROVE TypeOK'
  BY <1>2 DEF LevelCheck, singleton, target, history
<1>3. ASSUME NEW t \in Threads, ReadKind(t) PROVE TypeOK'
  BY <1>3 DEF ReadKind, singleton, target, history
<1>4. ASSUME NEW t \in Threads, ReadDest(t) PROVE TypeOK'
  BY <1>4 DEF ReadDest, singleton, target, history
<1>5. ASSUME NEW t \in Threads, TestStream(t) PROVE TypeOK'
  BY <1>5 DEF TestStream, singleton, target, history
<1>6. ASSUME NEW t \in Threads, Put(t) PROVE TypeOK'
  BY <1>6 DEF Put, singleton, target, history
<1>7. ASSUME NEW t \in Threads, After(t) PROVE TypeOK'
  BY <1>7, FirstCallIsOne DEF After, singleton, target
<1>8. ASSUME NEW t \in Threads, StreamBegins(t) PROVE TypeOK'
  <2>1. PICK s \in Streams : SwitchBegins(t, s)
    BY <1>8 DEF StreamBegins
  <2>2. seen' \in [Threads -> SUBSET (Targets \cup {None})]
    BY <2>1 DEF SwitchBegins
  <2>3. new' \in Targets /\ aim' = aim /\ mymux' = t /\ pc' = [pc EXCEPT ![t] = "stream"]
    BY <1>8, <2>1 DEF StreamBegins, SwitchBegins
  <2>4. UNCHANGED <<instance, closer, maxlevel, stream, call, named, outcome>> /\ syslog' = FALSE
    BY <1>8, <2>1 DEF StreamBegins, SwitchBegins, NoSyslog, singleton
  <2> QED  BY <2>2, <2>3, <2>4
<1>9. ASSUME NEW t \in Threads, StreamEnds(t) PROVE TypeOK'
  <2>1. stream' \in Streams \cup {None}
    BY <1>9 DEF StreamEnds
  <2> QED  BY <1>9, <2>1 DEF StreamEnds, SwitchEnds, singleton
<1>10. ASSUME NEW t \in Threads, SyslogBegins(t) PROVE TypeOK'
  <2>1. seen' \in [Threads -> SUBSET (Targets \cup {None})]
    BY <1>10 DEF SyslogBegins, SwitchBegins
  <2> QED  BY <1>10, <2>1 DEF SyslogBegins, SwitchBegins, singleton
<1>11. ASSUME NEW t \in Threads, SyslogEnds(t) PROVE TypeOK'
  BY <1>11 DEF SyslogEnds, SwitchEnds, UseSyslog, singleton
<1>12. ASSUME NEW t \in Threads, SetMaxlevel(t) PROVE TypeOK'
  BY <1>12 DEF SetMaxlevel, singleton, calls, history
<1>13. ASSUME NEW t \in Threads, Close(t) PROVE TypeOK'
  BY <1>13 DEF Close, BeginClose, target, history
<1>14. ASSUME NEW t \in Threads, Destroyed(t) PROVE TypeOK'
  <2>1. maxlevel' \in Levels
    BY <1>14, LevelsAssumption DEF Destroyed
  <2>2. instance' = FALSE /\ closer' = NoProcess /\ pc' = [pc EXCEPT ![t] = "idle"]
    BY <1>14 DEF Destroyed, EndClose
  <2>3. stream' = None /\ syslog' = FALSE /\ aim' = None /\ UNCHANGED <<mymux, call, named, outcome, new, seen>>
    BY <1>14 DEF Destroyed
  <2> QED  BY <2>1, <2>2, <2>3
<1>15. ASSUME UNCHANGED vars PROVE TypeOK'
  BY <1>15 DEF vars, singleton, target, calls, history
<1> QED  BY <1>1, <1>2, <1>3, <1>4, <1>5, <1>6, <1>7, <1>8, <1>9, <1>10, <1>11, <1>12, <1>13, <1>14, <1>15 DEF Next

\* Every step keeps what is known of a switch: the mutex keeps other switches out.
LEMMA SwitchingStep == Typed /\ [Next]_vars => Switching'
<1> SUFFICES ASSUME Typed, [Next]_vars PROVE Switching'
  OBVIOUS
<1> USE NamesAssumption DEF Typed, TypeOK, Switching, Goto, Becomes, Logging, Free
<1>1. ASSUME NEW t \in Threads, Log(t) PROVE Switching'
  BY <1>1 DEF Log, GetInstance, target
<1>2. ASSUME NEW t \in Threads, LevelCheck(t) PROVE Switching'
  BY <1>2 DEF LevelCheck, singleton, target, history
<1>3. ASSUME NEW t \in Threads, ReadKind(t) PROVE Switching'
  BY <1>3 DEF ReadKind, singleton, target, history
<1>4. ASSUME NEW t \in Threads, ReadDest(t) PROVE Switching'
  BY <1>4 DEF ReadDest, singleton, target, history
<1>5. ASSUME NEW t \in Threads, TestStream(t) PROVE Switching'
  BY <1>5 DEF TestStream, singleton, target, history
<1>6. ASSUME NEW t \in Threads, Put(t) PROVE Switching'
  BY <1>6 DEF Put, singleton, target, history
<1>7. ASSUME NEW t \in Threads, After(t) PROVE Switching'
  BY <1>7 DEF After, singleton, target
<1>8. ASSUME NEW t \in Threads, StreamBegins(t) PROVE Switching'
  <2>1. PICK s \in Streams : SwitchBegins(t, s)
    BY <1>8 DEF StreamBegins
  <2>2. mymux = NoProcess /\ mymux' = t /\ new' \in Streams
    BY <2>1 DEF SwitchBegins
  <2>3. pc' = [pc EXCEPT ![t] = "stream"] /\ syslog' = FALSE /\ stream' = stream
    BY <1>8 DEF StreamBegins, NoSyslog
  <2> QED  BY <2>2, <2>3
<1>9. ASSUME NEW t \in Threads, StreamEnds(t) PROVE Switching'
  BY <1>9 DEF StreamEnds, SwitchEnds, singleton
<1>10. ASSUME NEW t \in Threads, SyslogBegins(t) PROVE Switching'
  BY <1>10 DEF SyslogBegins, SwitchBegins, singleton
<1>11. ASSUME NEW t \in Threads, SyslogEnds(t) PROVE Switching'
  BY <1>11 DEF SyslogEnds, SwitchEnds, UseSyslog, singleton
<1>12. ASSUME NEW t \in Threads, SetMaxlevel(t) PROVE Switching'
  BY <1>12 DEF SetMaxlevel, singleton, calls, history
<1>13. ASSUME NEW t \in Threads, Close(t) PROVE Switching'
  BY <1>13 DEF Close, BeginClose, target, history
<1>14. ASSUME NEW t \in Threads, Destroyed(t) PROVE Switching'
  BY <1>14 DEF Destroyed, EndClose
<1>15. ASSUME UNCHANGED vars PROVE Switching'
  BY <1>15 DEF vars, singleton, target, calls, history
<1> QED  BY <1>1, <1>2, <1>3, <1>4, <1>5, <1>6, <1>7, <1>8, <1>9, <1>10, <1>11, <1>12, <1>13, <1>14, <1>15 DEF Next

-----------------------------------------------------------------------------
\* What the last switch, and the one under way, have made of the target; and
\* nobody uses the logger while it is destroyed.
Aimed ==
    /\ syslog => mymux = NoProcess /\ stream = None /\ aim = "syslog"
    /\ stream # None => aim = stream
    /\ ~syslog /\ stream = None =>
           \/ mymux = NoProcess /\ aim = None
           \/ mymux # NoProcess /\ (new = "syslog" \/ aim \in {None, "syslog"})
    /\ mymux # NoProcess => ~(new = "syslog" /\ aim = "syslog")
    /\ closer # NoProcess => mymux = NoProcess /\ \A t \in Threads : pc[t] \notin Logging

\* Every step keeps that.
LEMMA AimedStep == Typed /\ Aimed /\ [Next]_vars => Aimed'
<1> SUFFICES ASSUME Typed, Aimed, [Next]_vars PROVE Aimed'
  OBVIOUS
<1> USE NamesAssumption DEF Typed, TypeOK, Switching, Aimed, Goto, Becomes, Logging, Free, MutexFree, Fates
<1>1. ASSUME NEW t \in Threads, Log(t) PROVE Aimed'
  BY <1>1 DEF Log, GetInstance, target
<1>2. ASSUME NEW t \in Threads, LevelCheck(t) PROVE Aimed'
  <2>1. pc[t] \in Logging /\ closer' = closer /\ UNCHANGED <<stream, syslog, mymux, aim, new>>
    BY <1>2 DEF LevelCheck, singleton, target, history
  <2>2. \A u \in Threads : pc'[u] \in Logging => u = t \/ pc[u] \in Logging
    BY <1>2 DEF LevelCheck
  <2> QED  BY <2>1, <2>2
<1>3. ASSUME NEW t \in Threads, ReadKind(t) PROVE Aimed'
  <2>1. pc[t] \in Logging /\ closer' = closer /\ UNCHANGED <<stream, syslog, mymux, aim, new>>
    BY <1>3 DEF ReadKind, singleton, target, history
  <2>2. \A u \in Threads : pc'[u] \in Logging => u = t \/ pc[u] \in Logging
    BY <1>3 DEF ReadKind
  <2> QED  BY <2>1, <2>2
<1>4. ASSUME NEW t \in Threads, ReadDest(t) PROVE Aimed'
  <2>1. pc[t] \in Logging /\ closer' = closer /\ UNCHANGED <<stream, syslog, mymux, aim, new>>
    BY <1>4 DEF ReadDest, singleton, target, history
  <2>2. \A u \in Threads : pc'[u] \in Logging => u = t \/ pc[u] \in Logging
    BY <1>4 DEF ReadDest
  <2> QED  BY <2>1, <2>2
<1>5. ASSUME NEW t \in Threads, TestStream(t) PROVE Aimed'
  <2>1. pc[t] \in Logging /\ closer' = closer /\ UNCHANGED <<stream, syslog, mymux, aim, new>>
    BY <1>5 DEF TestStream, singleton, target, history
  <2>2. \A u \in Threads : pc'[u] \in Logging => u = t \/ pc[u] \in Logging
    BY <1>5 DEF TestStream
  <2> QED  BY <2>1, <2>2
<1>6. ASSUME NEW t \in Threads, Put(t) PROVE Aimed'
  <2>1. pc[t] \in Logging /\ closer' = closer /\ UNCHANGED <<stream, syslog, mymux, aim, new>>
    BY <1>6 DEF Put, singleton, target, history
  <2>2. \A u \in Threads : pc'[u] \in Logging => u = t \/ pc[u] \in Logging
    BY <1>6 DEF Put
  <2> QED  BY <2>1, <2>2
<1>7. ASSUME NEW t \in Threads, After(t) PROVE Aimed'
  <2>1. pc[t] \in Logging /\ closer' = closer /\ UNCHANGED <<stream, syslog, mymux, aim, new>>
    BY <1>7 DEF After, singleton, target, history
  <2>2. \A u \in Threads : pc'[u] \in Logging => u = t \/ pc[u] \in Logging
    BY <1>7 DEF After
  <2> QED  BY <2>1, <2>2
<1>8. ASSUME NEW t \in Threads, StreamBegins(t) PROVE Aimed'
  <2>1. PICK s \in Streams : SwitchBegins(t, s)
    BY <1>8 DEF StreamBegins
  <2>2. pc' = [pc EXCEPT ![t] = "stream"] /\ syslog' = FALSE /\ stream' = stream
    BY <1>8 DEF StreamBegins, NoSyslog
  <2>3. mymux = NoProcess /\ mymux' = t /\ new' = s /\ aim' = aim /\ closer = NoProcess /\ closer' = NoProcess
    BY <2>1 DEF SwitchBegins, singleton, Usable
  <2> QED  BY <2>2, <2>3
<1>9. ASSUME NEW t \in Threads, StreamEnds(t) PROVE Aimed'
  BY <1>9 DEF StreamEnds, SwitchEnds, singleton
<1>10. ASSUME NEW t \in Threads, SyslogBegins(t) PROVE Aimed'
  <2>1. mymux = NoProcess /\ mymux' = t /\ new' = "syslog" /\ aim' = aim /\ closer = NoProcess /\ closer' = NoProcess
    BY <1>10 DEF SyslogBegins, SwitchBegins, singleton, Usable
  <2>2. ~syslog /\ syslog' = FALSE /\ stream' = None
    BY <1>10 DEF SyslogBegins
  <2> QED  BY <2>1, <2>2
<1>11. ASSUME NEW t \in Threads, SyslogEnds(t) PROVE Aimed'
  BY <1>11 DEF SyslogEnds, SwitchEnds, UseSyslog, singleton
<1>12. ASSUME NEW t \in Threads, SetMaxlevel(t) PROVE Aimed'
  BY <1>12 DEF SetMaxlevel, singleton, calls, history
<1>13. ASSUME NEW t \in Threads, Close(t) PROVE Aimed'
  BY <1>13 DEF Close, BeginClose, target, history
<1>14. ASSUME NEW t \in Threads, Destroyed(t) PROVE Aimed'
  BY <1>14 DEF Destroyed, EndClose
<1>15. ASSUME UNCHANGED vars PROVE Aimed'
  BY <1>15 DEF vars, singleton, target, calls, history
<1> QED  BY <1>1, <1>2, <1>3, <1>4, <1>5, <1>6, <1>7, <1>8, <1>9, <1>10, <1>11, <1>12, <1>13, <1>14, <1>15 DEF Next

-----------------------------------------------------------------------------
\* During its call a thread has seen a target that is not the log of the system.
SawOther(t) == \E x \in seen[t] : x # "syslog"

Lost == {"threw", "no stream"}

\* The targets of its call explain what a thread has read of them so far.
Explained(t) ==
    /\ IsFiniteSet(seen[t])
    /\ pc[t] \in Logging => aim \in seen[t] /\ (mymux # NoProcess => new \in seen[t])
    /\ pc[t] \in {"dest", "test", "put"} \/ (pc[t] = "after" /\ outcome[t] # "suppressed") =>
           IF named[t] THEN SawOther(t) ELSE "syslog" \in seen[t]
    /\ pc[t] \in {"test", "put"} => SawOther(t)
    /\ pc[t] = "after" /\ outcome[t] \in Targets => outcome[t] \in seen[t]
    /\ pc[t] = "after" /\ outcome[t] \in Lost => None \in seen[t] \/ ("syslog" \in seen[t] /\ SawOther(t))

\* Others' steps let a thread see more targets, at the most.
LEMMA MoreSeen ==
    ASSUME NEW u \in Threads, Typed, Explained(u), pc'[u] = pc[u], named'[u] = named[u], outcome'[u] = outcome[u],
           \/ seen'[u] = seen[u]
           \/ \E to : seen'[u] = seen[u] \cup {to},
           pc[u] \in Logging => aim' \in seen'[u] /\ (mymux' # NoProcess => new' \in seen'[u])
    PROVE  Explained(u)'
<1>1. IsFiniteSet(seen'[u]) /\ seen[u] \subseteq seen'[u]
  BY FS_AddElement DEF Explained
<1> QED  BY <1>1 DEF Explained, SawOther

\* What is left of the target is seen by who logs.
LEMMA TargetSeen ==
    ASSUME NEW t \in Threads, Typed, Aimed, Explained(t), pc[t] \in Logging
    PROVE  /\ syslog => "syslog" \in seen[t]
           /\ ~syslog => SawOther(t)
           /\ stream # None => stream \in seen[t] /\ stream # "syslog"
           /\ stream = None => None \in seen[t] \/ "syslog" \in seen[t]
<1> USE NamesAssumption DEF Typed, TypeOK, Aimed, Explained, SawOther, Fates
<1>1. ASSUME stream # None PROVE stream \in seen[t] /\ stream # "syslog"
  BY <1>1
<1>2. ASSUME ~syslog PROVE SawOther(t)
  <2>1. CASE stream # None
    BY <2>1, <1>1
  <2>2. CASE stream = None /\ mymux = NoProcess
    BY <2>2, <1>2
  <2>3. CASE stream = None /\ mymux # NoProcess
    BY <2>3, <1>2
  <2> QED  BY <2>1, <2>2, <2>3
<1>3. ASSUME stream = None PROVE None \in seen[t] \/ "syslog" \in seen[t]
  BY <1>3
<1> QED  BY <1>1, <1>2, <1>3

\* Every step keeps the explanations.
LEMMA ExplainedStep ==
    ASSUME Typed, Aimed, \A u \in Threads : Explained(u), [Next]_vars
    PROVE  \A u \in Threads : Explained(u)'
<1> USE NamesAssumption DEF Typed, TypeOK, Switching, Goto, Becomes, Logging, Free, MutexFree, Fates
<1> DEFINE Kept == \A u \in Threads : Explained(u)'
           Unmoved(u) == pc'[u] = pc[u] /\ named'[u] = named[u] /\ outcome'[u] = outcome[u] /\ seen'[u] = seen[u]
<1>a. ASSUME NEW t \in Threads, \A u \in Threads \ {t} : Unmoved(u), UNCHANGED <<mymux, aim, new>>,
             Explained(t)'
      PROVE  Kept
  <2>1. ASSUME NEW u \in Threads \ {t} PROVE Explained(u)'
    BY <1>a, <2>1, MoreSeen DEF Explained
  <2> QED  BY <1>a, <2>1
<1> HIDE DEF Kept
<1>1. ASSUME NEW t \in Threads, Log(t) PROVE Kept
  <2>1. \A u \in Threads \ {t} : Unmoved(u)
    BY <1>1 DEF Log, history
  <2>2. UNCHANGED <<mymux, aim, new>>
    BY <1>1 DEF Log, target, history
  <2>3. Explained(t)'
    <3>1. IsFiniteSet({aim} \cup IF mymux = NoProcess THEN {} ELSE {new})
      BY FS_Singleton, FS_EmptySet, FS_Union
    <3>2. pc'[t] = "level" /\ seen'[t] = {aim} \cup IF mymux = NoProcess THEN {} ELSE {new}
      BY <1>1 DEF Log
    <3> QED  BY <3>1, <3>2, <2>2 DEF Explained
  <2> QED  BY <2>1, <2>2, <2>3, <1>a
<1>2. ASSUME NEW t \in Threads, LevelCheck(t) PROVE Kept
  <2>1. \A u \in Threads \ {t} : Unmoved(u)
    BY <1>2 DEF LevelCheck, history
  <2>2. UNCHANGED <<mymux, aim, new>>
    BY <1>2 DEF LevelCheck, target, history
  <2>3. Explained(t)'
    <3>1. pc[t] = "level" /\ seen'[t] = seen[t] /\ (pc'[t] = "kind" \/ (pc'[t] = "after" /\ outcome'[t] = "suppressed"))
      BY <1>2 DEF LevelCheck, history
    <3> QED  BY <3>1, <2>2 DEF Explained, Targets, Lost
  <2> QED  BY <2>1, <2>2, <2>3, <1>a
<1>3. ASSUME NEW t \in Threads, ReadKind(t) PROVE Kept
  <2>1. \A u \in Threads \ {t} : Unmoved(u)
    BY <1>3 DEF ReadKind, history
  <2>2. UNCHANGED <<mymux, aim, new>>
    BY <1>3 DEF ReadKind, target, history
  <2>3. Explained(t)'
    <3>1. pc[t] = "kind" /\ pc'[t] = "dest" /\ named'[t] = ~syslog /\ seen'[t] = seen[t]
      BY <1>3 DEF ReadKind, history
    <3>2. (syslog => "syslog" \in seen[t]) /\ (~syslog => SawOther(t))
      BY <3>1, TargetSeen
    <3> QED  BY <3>1, <3>2, <2>2 DEF Explained, SawOther
  <2> QED  BY <2>1, <2>2, <2>3, <1>a
<1>4. ASSUME NEW t \in Threads, ReadDest(t) PROVE Kept
  <2>1. \A u \in Threads \ {t} : Unmoved(u)
    BY <1>4 DEF ReadDest, history
  <2>2. UNCHANGED <<mymux, aim, new>>
    BY <1>4 DEF ReadDest, target, history
  <2>3. Explained(t)'
    <3>1. pc[t] = "dest" /\ named'[t] = named[t] /\ seen'[t] = seen[t]
      BY <1>4 DEF ReadDest, history
    <3>2. (syslog => "syslog" \in seen[t]) /\ (~syslog => SawOther(t))
      BY <3>1, TargetSeen
    <3>3. CASE syslog
      <4>1. pc'[t] = "after" /\ outcome'[t] = "syslog"
        BY <1>4, <3>3 DEF ReadDest
      <4> QED  BY <3>1, <3>2, <3>3, <4>1, <2>2 DEF Explained, SawOther, Lost
    <3>4. CASE ~syslog
      <4>1. pc'[t] = "test"
        BY <1>4, <3>4 DEF ReadDest
      <4> QED  BY <3>1, <3>2, <3>4, <4>1, <2>2 DEF Explained, SawOther
    <3> QED  BY <3>3, <3>4
  <2> QED  BY <2>1, <2>2, <2>3, <1>a
<1>5. ASSUME NEW t \in Threads, TestStream(t) PROVE Kept
  <2>1. \A u \in Threads \ {t} : Unmoved(u)
    BY <1>5 DEF TestStream, history
  <2>2. UNCHANGED <<mymux, aim, new>>
    BY <1>5 DEF TestStream, target, history
  <2>3. Explained(t)'
    <3>1. pc[t] = "test" /\ named'[t] = named[t] /\ seen'[t] = seen[t]
      BY <1>5 DEF TestStream, history
    <3>2. stream = None => None \in seen[t] \/ "syslog" \in seen[t]
      BY <3>1, TargetSeen
    <3>3. CASE stream = None
      <4>1. pc'[t] = "after" /\ outcome'[t] = "threw"
        BY <1>5, <3>3 DEF TestStream
      <4> QED  BY <3>1, <3>2, <3>3, <4>1, <2>2 DEF Explained, SawOther, Lost, Targets
    <3>4. CASE stream # None
      <4>1. pc'[t] = "put"
        BY <1>5, <3>4 DEF TestStream
      <4> QED  BY <3>1, <4>1, <2>2 DEF Explained, SawOther
    <3> QED  BY <3>3, <3>4
  <2> QED  BY <2>1, <2>2, <2>3, <1>a
<1>6. ASSUME NEW t \in Threads, Put(t) PROVE Kept
  <2>1. \A u \in Threads \ {t} : Unmoved(u)
    BY <1>6 DEF Put, history
  <2>2. UNCHANGED <<mymux, aim, new>>
    BY <1>6 DEF Put, target, history
  <2>3. Explained(t)'
    <3>1. pc[t] = "put" /\ pc'[t] = "after" /\ named'[t] = named[t] /\ seen'[t] = seen[t]
      BY <1>6 DEF Put, history
    <3>2. /\ stream # None => stream \in seen[t]
          /\ stream = None => None \in seen[t] \/ "syslog" \in seen[t]
      BY <3>1, TargetSeen
    <3>3. outcome'[t] = IF stream = None THEN "no stream" ELSE stream
      BY <1>6 DEF Put
    <3> QED  BY <3>1, <3>2, <3>3, <2>2 DEF Explained, SawOther, Lost, Targets
  <2> QED  BY <2>1, <2>2, <2>3, <1>a
<1>7. ASSUME NEW t \in Threads, After(t) PROVE Kept
  <2>1. \A u \in Threads \ {t} : Unmoved(u)
    BY <1>7 DEF After, history
  <2>2. UNCHANGED <<mymux, aim, new>>
    BY <1>7 DEF After, target, history
  <2>3. Explained(t)'
    <3>1. pc'[t] \in {"idle", "crashed"} /\ seen'[t] = {}
      BY <1>7 DEF After
    <3> QED  BY <3>1, FS_EmptySet DEF Explained
  <2> QED  BY <2>1, <2>2, <2>3, <1>a
<1>8. ASSUME NEW t \in Threads, StreamBegins(t) PROVE Kept
  <2>1. PICK s \in Streams : SwitchBegins(t, s)
    BY <1>8 DEF StreamBegins
  <2>2. /\ mymux' = t /\ new' = s /\ aim' = aim /\ UNCHANGED <<named, outcome>>
        /\ seen' = [u \in Threads |-> IF pc[u] \in Logging THEN seen[u] \cup {s} ELSE seen[u]]
    BY <1>8, <2>1 DEF StreamBegins, SwitchBegins
  <2>3. pc[t] = "idle" /\ pc' = [pc EXCEPT ![t] = "stream"]
    BY <1>8 DEF StreamBegins
  <2>4. Explained(t)'
    BY <2>2, <2>3 DEF Explained
  <2>5. ASSUME NEW u \in Threads \ {t} PROVE Explained(u)'
    <3>1. seen'[u] = seen[u] \/ seen'[u] = seen[u] \cup {s}
      BY <2>2
    <3>2. pc[u] \in Logging => aim' \in seen'[u] /\ (mymux' # NoProcess => new' \in seen'[u])
      BY <2>2 DEF Explained
    <3>3. pc'[u] = pc[u] /\ named'[u] = named[u] /\ outcome'[u] = outcome[u]
      BY <2>2, <2>3, <2>5
    <3> QED  BY <3>1, <3>2, <3>3, MoreSeen
  <2> QED  BY <2>4, <2>5 DEF Kept
<1>9. ASSUME NEW t \in Threads, StreamEnds(t) PROVE Kept
  <2>1. /\ pc[t] = "stream" /\ pc' = [pc EXCEPT ![t] = "idle"] /\ mymux' = NoProcess /\ aim' = new
        /\ UNCHANGED <<named, outcome, seen>>
    BY <1>9 DEF StreamEnds, SwitchEnds
  <2>2. mymux # NoProcess
    BY <2>1
  <2>3. Explained(t)'
    BY <2>1 DEF Explained
  <2>4. ASSUME NEW u \in Threads \ {t} PROVE Explained(u)'
    BY <2>1, <2>2, <2>4, MoreSeen DEF Explained
  <2> QED  BY <2>3, <2>4 DEF Kept
<1>10. ASSUME NEW t \in Threads, SyslogBegins(t) PROVE Kept
  <2>1. SwitchBegins(t, "syslog")
    BY <1>10 DEF SyslogBegins
  <2>2. /\ mymux' = t /\ new' = "syslog" /\ aim' = aim /\ UNCHANGED <<named, outcome>>
        /\ seen' = [u \in Threads |-> IF pc[u] \in Logging THEN seen[u] \cup {"syslog"} ELSE seen[u]]
    BY <1>10, <2>1 DEF SyslogBegins, SwitchBegins
  <2>3. pc[t] = "idle" /\ pc' = [pc EXCEPT ![t] = "syslog"]
    BY <1>10 DEF SyslogBegins
  <2>4. Explained(t)'
    BY <2>2, <2>3 DEF Explained
  <2>5. ASSUME NEW u \in Threads \ {t} PROVE Explained(u)'
    <3>1. seen'[u] = seen[u] \/ seen'[u] = seen[u] \cup {"syslog"}
      BY <2>2
    <3>2. pc[u] \in Logging => aim' \in seen'[u] /\ (mymux' # NoProcess => new' \in seen'[u])
      BY <2>2 DEF Explained
    <3>3. pc'[u] = pc[u] /\ named'[u] = named[u] /\ outcome'[u] = outcome[u]
      BY <2>2, <2>3, <2>5
    <3> QED  BY <3>1, <3>2, <3>3, MoreSeen
  <2> QED  BY <2>4, <2>5 DEF Kept
<1>11. ASSUME NEW t \in Threads, SyslogEnds(t) PROVE Kept
  <2>1. /\ pc[t] = "syslog" /\ pc' = [pc EXCEPT ![t] = "idle"] /\ mymux' = NoProcess /\ aim' = new
        /\ UNCHANGED <<named, outcome, seen>>
    BY <1>11 DEF SyslogEnds, SwitchEnds
  <2>2. mymux # NoProcess
    BY <2>1
  <2>3. Explained(t)'
    BY <2>1 DEF Explained
  <2>4. ASSUME NEW u \in Threads \ {t} PROVE Explained(u)'
    BY <2>1, <2>2, <2>4, MoreSeen DEF Explained
  <2> QED  BY <2>3, <2>4 DEF Kept
<1>12. ASSUME NEW t \in Threads, SetMaxlevel(t) PROVE Kept
  BY <1>12 DEF SetMaxlevel, calls, history, Kept, Explained, SawOther
<1>13. ASSUME NEW t \in Threads, Close(t) PROVE Kept
  <2>1. pc[t] = "idle" /\ pc' = [pc EXCEPT ![t] = "close"] /\ UNCHANGED <<named, outcome, seen, mymux, aim, new>>
    BY <1>13 DEF Close, target, history
  <2>2. Explained(t)'
    BY <2>1 DEF Explained
  <2> QED  BY <2>1, <2>2, <1>a
<1>14. ASSUME NEW t \in Threads, Destroyed(t) PROVE Kept
  <2>1. closer # NoProcess /\ pc' = [pc EXCEPT ![t] = "idle"] /\ UNCHANGED <<named, outcome, seen>>
    BY <1>14 DEF Destroyed, EndClose
  <2>2. \A u \in Threads : pc'[u] \notin Logging
    BY <2>1 DEF Aimed
  <2> QED  BY <2>1, <2>2 DEF Kept, Explained
<1>15. ASSUME UNCHANGED vars PROVE Kept
  BY <1>15 DEF vars, target, calls, history, Kept, Explained, SawOther
<1> QED  BY <1>1, <1>2, <1>3, <1>4, <1>5, <1>6, <1>7, <1>8, <1>9, <1>10, <1>11, <1>12, <1>13, <1>14, <1>15 DEF Next, Kept

-----------------------------------------------------------------------------
Inv == Typed /\ Aimed /\ \A t \in Threads : Explained(t)

\* The invariant holds in every behaviour.
THEOREM Invariance == Spec => []Inv
<1>1. Init => Inv
  <2>1. Init => Typed
    BY TypeInit
  <2>2. Init => Aimed /\ \A t \in Threads : Explained(t)
    BY FS_EmptySet, NamesAssumption DEF Init, Aimed, Explained, SingletonInit, Logging, Fates
  <2> QED  BY <2>1, <2>2 DEF Inv
<1>2. Inv /\ [Next]_vars => Inv'
  BY TypeStep, SwitchingStep, AimedStep, ExplainedStep DEF Inv, Typed
<1> QED  BY <1>1, <1>2, PTL DEF Spec

\* Types of all variables.
THEOREM TypeCorrect == Spec => []TypeOK
<1>1. Inv => TypeOK
  BY DEF Inv, Typed
<1> QED  BY <1>1, Invariance, PTL

\* Between the switches there is one target, the one asked for last.
THEOREM LastTarget == Spec => []OneTarget
<1>1. Inv => OneTarget
  BY NamesAssumption DEF Inv, Typed, TypeOK, Aimed, OneTarget, Fates
<1> QED  BY <1>1, Invariance, PTL

\* A set with one member has no other one.
LEMMA OneMember ==
    ASSUME NEW S, IsFiniteSet(S), NEW x \in S
    PROVE  /\ Cardinality(S) = 1 => S = {x}
           /\ \A y \in S : x # y => Cardinality(S) > 1
<1>1. Cardinality(S) \in Nat /\ Cardinality(S) # 0
  BY FS_CardinalityType, FS_EmptySet
<1>2. Cardinality(S) = 1 => \E z : S = {z}
  BY FS_Singleton
<1> QED  BY <1>1, <1>2

\* An entry goes where the user wants it, in its form, or is lost to a change
\* from or to the log of the system, or for want of a target.
THEOREM EntriesAreKept == Spec => []EntriesArrive
<1>1. Inv => WrittenWhereAimed
  <2> SUFFICES ASSUME Inv, NEW t \in Threads, pc[t] = "after", outcome[t] \in Targets
               PROVE  /\ outcome[t] \in seen[t]
                      /\ Cardinality(seen[t]) = 1 => (named[t] <=> outcome[t] # "syslog")
    BY DEF WrittenWhereAimed
  <2>1. Explained(t) /\ named[t] \in BOOLEAN
    BY DEF Inv, Typed, TypeOK
  <2>2. outcome[t] \in seen[t] /\ outcome[t] # "suppressed"
    BY <2>1, NamesAssumption DEF Explained, Targets, Fates
  <2>3. Cardinality(seen[t]) = 1 => seen[t] = {outcome[t]}
    BY <2>1, <2>2, OneMember DEF Explained
  <2> QED  BY <2>1, <2>2, <2>3 DEF Explained, SawOther
<1>2. Inv => LostOnlyToSyslog
  <2> SUFFICES ASSUME Inv, NEW t \in Threads, pc[t] = "after", outcome[t] \in {"threw", "no stream"}
               PROVE  None \in seen[t] \/ (Cardinality(seen[t]) > 1 /\ "syslog" \in seen[t])
    BY DEF LostOnlyToSyslog
  <2>1. Explained(t)
    BY DEF Inv
  <2>2. None \in seen[t] \/ ("syslog" \in seen[t] /\ SawOther(t))
    BY <2>1 DEF Explained, Lost
  <2> QED  BY <2>1, <2>2, OneMember DEF Explained, SawOther
<1> QED  BY <1>1, <1>2, Invariance, PTL DEF EntriesArrive
=============================================================================

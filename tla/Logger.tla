------------------------------- MODULE Logger -------------------------------
(***************************************************************************)
(* The logger, src/src/Logger.cpp and the macros of                        *)
(* src/hdr/bren/Logger.hpp, a Singleton.                                   *)
(*                                                                         *)
(* log() takes no mutex: each of its reads of the target is a step.        *)
(* stream() and syslog() change the target under mymux_, in two writes.    *)
(* What is modelled of an entry is where it goes and whether it names its  *)
(* level.                                                                  *)
(* The user closes the logger when no thread is using it, as               *)
(* src/src/template_main.cpp does at its end.                              *)
(***************************************************************************)
EXTENDS Naturals, FiniteSets, Singleton

CONSTANTS
    Threads,
    Streams,
    Levels,     \* of loglevel_t, in the order of syslog
    None        \* a null stream

\* What may become of an entry, other than that it is written to a stream.
Fates == {"syslog", "suppressed", "threw", "no stream"}

none == 2
error == 3
debug == 7

ASSUME LevelsAssumption == {none, error, debug} \subseteq Levels /\ Levels \subseteq none .. debug
ASSUME NamesAssumption ==
    /\ NoProcess \notin Threads /\ None \notin Streams \cup Fates
    /\ Streams \cap Fates = {}

VARIABLES
    maxlevel,   \* maxlevel_
    stream,     \* stream_
    syslog,     \* syslog_
    mymux,      \* who has mymux_
    pc,         \* where each thread is
    call,       \* the macro it is executing
    named,      \* the entry it has made up names the level
    outcome,    \* what became of the entry: where it was written, or why not
    aim,        \* history: the target of the last switch
    new,        \* history: the target of the switch under way
    seen        \* history: the targets of the thread's call, from its beginning on

target == <<maxlevel, stream, syslog, mymux>>
calls == <<pc, call, named, outcome>>
history == <<aim, new, seen>>
vars == <<singleton, target, calls, history>>

\* What is logged: an exception with the same text follows only on errors.
\* Conditions, and the actions and returns that may follow, are the caller's.
Macros == [level : Levels \ {none}, throws : {FALSE}] \cup {[level |-> error, throws |-> TRUE]}

FirstCall == [level |-> debug, throws |-> FALSE]

Targets == Streams \cup {"syslog"}
Logging == {"level", "kind", "dest", "test", "put", "after"}

Init ==
    /\ SingletonInit
    /\ maxlevel = debug /\ stream = None /\ syslog = FALSE /\ mymux = NoProcess
    /\ pc = [t \in Threads |-> "idle"]
    /\ call = [t \in Threads |-> FirstCall]
    /\ named = [t \in Threads |-> FALSE]
    /\ outcome = [t \in Threads |-> None]
    /\ aim = None /\ new = None
    /\ seen = [t \in Threads |-> {}]

Goto(t, from, to) == pc[t] = from /\ pc' = [pc EXCEPT ![t] = to]

-----------------------------------------------------------------------------
\* A macro: the instance is made if there is none, with no target.
Log(t) ==
    /\ Goto(t, "idle", "level")
    /\ GetInstance
    /\ call' \in {[call EXCEPT ![t] = m] : m \in Macros}
    /\ seen' = [seen EXCEPT ![t] = {aim} \cup IF mymux = NoProcess THEN {} ELSE {new}]
    /\ UNCHANGED <<target, named, outcome, aim, new>>

\* The rest of the call, which knows what has become of the entry.
Becomes(t, o) == outcome' = [outcome EXCEPT ![t] = o] /\ Goto(t, pc[t], "after")

LevelCheck(t) ==
    /\ IF call[t].level > maxlevel THEN pc[t] = "level" /\ Becomes(t, "suppressed")
                                   ELSE Goto(t, "level", "kind") /\ UNCHANGED outcome
    /\ UNCHANGED <<singleton, target, call, named, history>>

ReadKind(t) ==
    /\ Goto(t, "kind", "dest")
    /\ named' = [named EXCEPT ![t] = ~syslog]
    /\ UNCHANGED <<singleton, target, call, outcome, history>>

ReadDest(t) ==
    /\ IF syslog THEN pc[t] = "dest" /\ Becomes(t, "syslog")
                 ELSE Goto(t, "dest", "test") /\ UNCHANGED outcome
    /\ UNCHANGED <<singleton, target, call, named, history>>

TestStream(t) ==
    /\ IF stream = None THEN pc[t] = "test" /\ Becomes(t, "threw")
                        ELSE Goto(t, "test", "put") /\ UNCHANGED outcome
    /\ UNCHANGED <<singleton, target, call, named, history>>

Put(t) ==
    /\ pc[t] = "put"
    /\ Becomes(t, IF stream = None THEN "no stream" ELSE stream)
    /\ UNCHANGED <<singleton, target, call, named, history>>

\* The macros that throw need the text that log() returns.
TextMissing(t) == call[t].throws /\ outcome[t] = "suppressed"

After(t) ==
    /\ Goto(t, "after", IF outcome[t] = "no stream" \/ TextMissing(t) THEN "crashed" ELSE "idle")
    /\ call' = [call EXCEPT ![t] = FirstCall]
    /\ named' = [named EXCEPT ![t] = FALSE]
    /\ outcome' = [outcome EXCEPT ![t] = None]
    /\ seen' = [seen EXCEPT ![t] = {}]
    /\ UNCHANGED <<singleton, target, aim, new>>

-----------------------------------------------------------------------------
\* Mutants: the switches do not exclude each other; stream() drops the old
\* stream first.
Free_Always == TRUE
NoSyslog_Drops == syslog' = FALSE /\ stream' = None

Free == mymux = NoProcess

\* The user has the instance, which nobody is destroying.
Usable == instance /\ MutexFree

\* A switch begins with the mutex and the first write, and ends with the second.
SwitchBegins(t, to) ==
    /\ Usable /\ Free /\ mymux' = t
    /\ new' = to
    /\ seen' = [u \in Threads |-> IF pc[u] \in Logging THEN seen[u] \cup {to} ELSE seen[u]]
    /\ UNCHANGED <<singleton, maxlevel, call, named, outcome, aim>>

SwitchEnds ==
    /\ mymux' = NoProcess
    /\ aim' = new /\ new' = None
    /\ UNCHANGED <<singleton, maxlevel, call, named, outcome, seen>>

NoSyslog == syslog' = FALSE /\ UNCHANGED stream

UseSyslog == syslog' = TRUE

StreamBegins(t) == \E s \in Streams :
    /\ Goto(t, "idle", "stream")
    /\ SwitchBegins(t, s)
    /\ NoSyslog

StreamEnds(t) ==
    /\ Goto(t, "stream", "idle")
    /\ stream' = new
    /\ SwitchEnds
    /\ UNCHANGED syslog

\* syslog() returns false when that is the target already.
SyslogBegins(t) ==
    /\ ~syslog
    /\ Goto(t, "idle", "syslog")
    /\ SwitchBegins(t, "syslog")
    /\ stream' = None
    /\ UNCHANGED syslog

SyslogEnds(t) ==
    /\ Goto(t, "syslog", "idle")
    /\ UseSyslog
    /\ SwitchEnds
    /\ UNCHANGED stream

SetMaxlevel(t) ==
    /\ pc[t] = "idle" /\ Usable
    /\ maxlevel' \in Levels
    /\ UNCHANGED <<singleton, stream, syslog, mymux, calls, history>>

\* close(): the destructor.  The next logger is a new one.
Close(t) ==
    /\ \A u \in Threads : pc[u] = "idle"
    /\ Goto(t, "idle", "close")
    /\ BeginClose(t)
    /\ UNCHANGED <<target, call, named, outcome, history>>

Destroyed(t) ==
    /\ Goto(t, "close", "idle")
    /\ EndClose(t)
    /\ maxlevel' = debug /\ stream' = None /\ syslog' = FALSE
    /\ aim' = None
    /\ UNCHANGED <<mymux, call, named, outcome, new, seen>>

\* A null pointer that is followed ends the program.
Next ==
  /\ \A u \in Threads : pc[u] # "crashed"
  /\ \E t \in Threads :
    \/ Log(t) \/ LevelCheck(t) \/ ReadKind(t) \/ ReadDest(t) \/ TestStream(t) \/ Put(t) \/ After(t)
    \/ StreamBegins(t) \/ StreamEnds(t) \/ SyslogBegins(t) \/ SyslogEnds(t)
    \/ SetMaxlevel(t) \/ Close(t) \/ Destroyed(t)

Spec == Init /\ [][Next]_vars

-----------------------------------------------------------------------------
TypeOK ==
    /\ instance \in BOOLEAN /\ closer \in Threads \cup {NoProcess}
    /\ maxlevel \in Levels /\ stream \in Streams \cup {None} /\ syslog \in BOOLEAN
    /\ mymux \in Threads \cup {NoProcess}
    /\ pc \in [Threads -> Logging \cup {"idle", "stream", "syslog", "close", "crashed"}]
    /\ call \in [Threads -> Macros] /\ named \in [Threads -> BOOLEAN]
    /\ outcome \in [Threads -> Streams \cup Fates \cup {None}]
    /\ {aim, new} \subseteq Targets \cup {None}
    /\ seen \in [Threads -> SUBSET (Targets \cup {None})]

\* Between the switches there is one target, the one that was asked for last,
\* whatever order stream() and syslog() are called in by different threads.
OneTarget == mymux = NoProcess => aim = IF syslog /\ stream = None THEN "syslog" ELSE stream

\* An entry that is written goes to a target that was asked for, the last one
\* before the call or one of the call's time, and has the form for it if the
\* target did not change meanwhile.
WrittenWhereAimed == \A t \in Threads :
    pc[t] = "after" /\ outcome[t] \in Targets =>
        /\ outcome[t] \in seen[t]
        /\ Cardinality(seen[t]) = 1 => (named[t] <=> outcome[t] # "syslog")

\* An entry is only lost to an exception or a null stream when there was no
\* target, or while the target changes to or from the log of the system: a
\* change between streams harms no thread that logs.
LostOnlyToSyslog == \A t \in Threads :
    pc[t] = "after" /\ outcome[t] \in {"threw", "no stream"} =>
        None \in seen[t] \/ (Cardinality(seen[t]) > 1 /\ "syslog" \in seen[t])

\* What becomes of an entry: it is written where the user wants it, or lost in a
\* change from or to the log of the system.
EntriesArrive == WrittenWhereAimed /\ LostOnlyToSyslog
=============================================================================

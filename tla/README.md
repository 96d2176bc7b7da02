# Verification of brenlib

TLA+ models of brenlib, a C++ library of small components: threading helpers
(a counting semaphore, a connection pool, a state machine, observable values,
singletons, a wrapper for an I/O context), processes, logging, and conversions
(dates, times, CSV, base64, roman numerals).  The modules are translated from
the code under `src/` (in this file, paths are relative to it).

## Inventory

| Component | State it keeps | Operations | Interacts with | What is hard |
|---|---|---|---|---|
| Semaphore (`hdr/bren/Semaphore.hpp`, `src/Semaphore.cpp`) | `uint16_t` counter, condition variable, atomic destruction flag, mutex | `inc`, `dec` (blocking), `try_dec`, `count`, destructor | callers' threads | lost and stolen wakeups, the flag that is raised without the mutex, wrap-around |
| ConnPool (`hdr/bren/ConnPool.hpp`) | map: connection string -> (thread id -> shared connection), mutex | `get`, `purge`, destructor; dropping a handle, which takes no lock | the connection class `T` (may throw), callers' threads | `use_count()` is read while other threads drop handles; connections migrate between threads; a failing connect |
| StateMachine (`hdr/bren/StateMachine.hpp`) | state, `active_` flag, arcs, callbacks, names, handler object, mutex | `event` (sync and async), `transition`, `observe`, `obj`, `name`, `state`, `digraph` | user functions called with and without the mutex; detached threads | the asynchronous window before `active_` is set, user functions that fail or throw, the end state |
| Observable / Observer (`hdr/bren/Observable.hpp`, `Observer.hpp`) | value, list of weak pointers, mutex | `set`, `get`, `addObserver`, `removeObserver`, `observers` | observers' `update` called without the mutex | concurrent `set`s, removal during notification, expired observers |
| Singleton (`hdr/bren/Singleton.hpp`) | instance pointer, mutex, `atexit` hook | `instance`, `close`, `is_constructed` | constructor and destructor of `T` run under the mutex | lock order with what the destructor waits for |
| IOctxtWrapper (`hdr/bren/IOctxtWrapper.hpp`, `src/IOctxtWrapper.cpp`) | I/O context, threads, mutex | `runHere`, `runThreads`, `stop`, `stopWhenIdle` | a Singleton; the ASIO context | stop and join under the mutex, a stopped context that is never restarted |
| Logger (`hdr/bren/Logger.hpp`, `src/Logger.cpp`) | level, stream pointer, syslog flag, mutex | `log`, `stream`, `syslog`, level setters | a Singleton; syslog | `log` reads without the lock that the switches of the target take |
| Child, run (`src/Child.cpp`, `src/run.cpp`) | environment, command, pipe | `addEnv`, `command`, `capture`, `run`, `readEnv_` | fork, exec, waitpid | partial failure between fork and exec |
| NaiveDate, NaiveTime (`src/NaiveDate.cpp`, `src/NaiveTime.cpp`) | three numbers and flags | setters, arithmetic, comparison, ISO conversions | mktime, gmtime | month lengths, boundaries |
| Table, HeaderedTable (`hdr/bren/Table.hpp`, `src/HeaderedTable.cpp`) | rows of cells, cached header map | `cell`, `rows`, `columns`, headers | readCSV, CsvWriter | stale header cache, index arithmetic that wraps |
| readCSV, CsvWriter (`src/readCSV.cpp`, `src/CsvWriter.cpp`) | parser state; writer's columns | parse a stream; write rows | tables | quoting, short rows, line ends |
| Base64, roman, Tokenize, timespecops, functions (`hdr/bren/Base64.hpp`, `src/roman.cpp`, ...) | none | pure conversions | - | boundaries of padding, carries, signs |
| CoolEnum (`hdr/bren/CoolEnum.cpp.hpp`) | two maps, empty at first | lookup by key and by name | callers' threads | the first lookup fills the maps without a mutex |
| runchecks (`src/runchecks.cpp`) | filters, the checks added | choice of suites | CppUnit | names shortened and compared in small letters |
| Daemon template (`src/template_main.cpp`) | where `main()` is | begin, run, close | Logger, IOctxtWrapper, the application | the order of the singletons' ends, failures at each step |
| Tracer, common definitions, scripts | little | diagnostics, code generation | - | - |

What makes each component correct:

- Semaphore: a waiter sleeps only while there are no tokens for it; tokens are
  neither lost nor made up.
- ConnPool: a connection has at most one user; a connection in use stays in the
  pool; every idle connection can be purged; a failed connect leaves nothing.
- StateMachine: transitions follow registered arcs, one after the other;
  observers know the state; the end state is final and releases the object.
- Observable: every change reaches every registered observer that lives.
- Singleton, IOctxtWrapper, Logger: one instance; no deadlock between close,
  stop and their users; no entry lost or refused while the target is switched.
- Child, run: the result is the status and the output of the own child; nothing
  is left behind in the process table and among the descriptors.
- Dates, tables, CSV, conversions: agreement with reference definitions, round
  trips, no wrap of an index.
- CoolEnum, runchecks, names of a state machine, environment of a child: what is
  entered under a name is found by it, and nothing else is.

## Modules

| Module | Models | Used by |
|---|---|---|
| `Semaphore` | `src/Semaphore.cpp` | `MCSemaphore`, `SemaphoreProofs` |
| `ConnLease` | the promise of the pool: leases of connections | `ConnPool` (refinement) |
| `ConnPool` | `hdr/bren/ConnPool.hpp` | `MCConnPool`, `ConnPoolProofs` |
| `ArcMachine` | the promise of the state machine until events overlap | `StateMachine` (refinement) |
| `StateMachine` | `hdr/bren/StateMachine.hpp`, without names and `digraph()` | `MCStateMachine`, `StateMachineProofs` |
| `Observable` | `hdr/bren/Observable.hpp`, `Observer.hpp` | `MCObservable`, `ObservableProofs` |
| `Child` | `Child::run()` of `src/Child.cpp`, `src/run.cpp` | `MCChild`, `ChildProofs` |
| `Singleton` | `hdr/bren/Singleton.hpp` | `IOctxtWrapper`, `Logger` |
| `IOctxtWrapper` | `src/IOctxtWrapper.cpp` and the I/O context it uses | `Daemon` |
| `Daemon` | `main()` of `src/template_main.cpp` | `MCDaemon`, `DaemonProofs` |
| `Logger` | `src/Logger.cpp`, the macros of `hdr/bren/Logger.hpp` | `MCLogger`, `LoggerProofs` |
| `Table` | `hdr/bren/Table.hpp`, `src/HeaderedTable.cpp` | `CsvReader` |
| `CsvReader` | `src/readCSV.cpp` | `CsvWriter`, `HeaderedTable` |
| `HeaderedTable` | a file that is read, and used as a table: `hdr/bren/HeaderedTable.hpp` | `Values` |
| `CsvWriter` | `src/CsvWriter.cpp` | `CsvPipeline` |
| `CsvPipeline` | a file that is written, and read | `Values` |
| `NaiveTime`, `NaiveDate` | `src/NaiveTime.cpp`, `src/NaiveDate.cpp` | `Values` |
| `Conversions` | `hdr/bren/Base64.hpp`, `src/roman.cpp`, `src/Tokenize.cpp`, `src/functions.cpp`, `src/timespecops.cpp` | `Values` |
| `Names` | names and `digraph()` of `hdr/bren/StateMachine.hpp` | `Values` |
| `Environment` | `addEnv()` and `readEnv_()` of `src/Child.cpp` | `Values` |
| `CoolEnum` | `hdr/bren/CoolEnum.cpp.hpp` | `Values` |
| `Checks` | the choice of suites in `src/runchecks.cpp` | `Values` |
| `Values` | the seven modules above, `HeaderedTable` and `CsvPipeline`, each by itself | `MCValues`, `ValuesProofs` |

The `MC` modules only give values to constants.  Operators whose name has an
underscore and a second part (`Commit_RefusalSilent`) are plausible bugs of the
operator named by the first part.  `PROJECT.json` uses them to show that each
property can fail, and maps the definitions to the lines they model.

### Semaphore

Variables are the counter (modulo `CounterMod`, `2^16` in the code), the mutex,
the set of threads asleep on the condition variable, the destruction flag and
the place of each thread.  Every atomic access is a step: `dec()` tests, sleeps,
wakes (also spuriously), tests again and takes; `inc()` adds and then notifies,
and keeps the mutex until it has.  The destructor's two statements are two steps and
take no mutex, as in the code.

### ConnPool

`pool` and `keys` are the nested map, `held` the handles of each thread.  What a
call does to the map between two reads of `use_count()` is one step; dropping a
handle is a step of its own that needs no mutex.  `get()` follows the order of
the code: own entry, first use of a string, scan in the order of thread ids,
connect, failure.  `ConnLease` knows nothing of maps and counts: a connection is
leased to at most one thread, and it is opened, leased, given back, and closed
when it is idle.

### StateMachine

`transition_()` holds the mutex in three places (begin, commit, end).  Each
place is one step, the mutex itself is not a variable.  The functions of the
handler run between the steps.  Observers run inside the commit and may ask to
be dropped, or throw: then the handlers of `transition_()` lock a mutex that
they hold, which throws in turn, so that the flag stays set (`CommitThrow`).  An
asynchronous `event()` gives its copied arguments to a detached thread
(`EventAsync`); a synchronous one reads `state_` again after the unlock
(`SyncRead`).  `told`, `wants`, `broken` and `overlapped` are histories that only
properties read.  Events overlap when one is accepted while another one is
handled: the code excludes that once `active_` is set, but not in the window
between the end of `event()` and the begin of `transition_()`.  Until then the
machine is an `ArcMachine`, on whichever threads it is used; what holds
afterwards as well is stated without that condition.  `Names` has the names: a
function from keys to short names, and the edges of the graph, which are
compared as the texts they are drawn with.

What is left out: the destruction of a machine that is in use, and observers
that call the machine (they block for ever, with certainty).

### Observable

`set()` copies the list under the mutex (`SetStart`), then for each entry locks
the weak pointer (`Take` or `Skip`), calls the observer, which reads the value
behind a reference (`Read`) and has noted it later (`Note`), and prunes at the
end (`SetEnd`).  An observer lives while its user or a running call has a shared
pointer.  An observer that calls `set()` itself does what another thread does
between `Read` and `Note`.

### Child

Each thread runs one program at a time, captured, plain, or with the free
`run()`.  A pipe is a queue of chunks and two sets: the processes that have its
writing and its reading end.  `Fork` copies all ends that the process has, those
of other threads included (`Inherit`), which is what makes captured output end
late.  Every call that may fail has an action of its own: `PipeFails`,
`ForkFails` (`Child::run()` takes -1 for a process number), `GoAstray` (an
exception in the forked process), `ExecFails`, `ReadFails`, `WaitFails`,
`WaitTooLate` and `WaitAny` (a process waited for by somebody else).

### Singleton, IOctxtWrapper, Daemon

`Singleton` has `instance_a` and who is destroying it.  The wrapper extends it:
its destructor stops the context between `BeginClose` and `EndClose`, so that the
mutex of the singleton is held while threads are joined.  `runHere()`,
`runThreads()`, `stop()` and the destructor all begin with `CallStop` and go on
in `Joined`; a run of the context is `Take` and `HandlerEnds` until it is stopped
or idle.  A handler may ask for the instance (`asking`), for which it needs the
mutex of the singleton.  `Daemon` runs `main()` of the template beside the
threads of the application.

### Logger

`log()` reads the level, the kind of the target, the kind again, and the stream
twice, with no mutex: `LevelCheck`, `ReadKind`, `ReadDest`, `TestStream`, `Put`.
`stream()` and `syslog()` write two members each, under the mutex: a step that
begins and one that ends.  `seen` is the history of the targets that the user
has wanted since a thread's call began.  The program ends where the code follows
a null pointer (`crashed`).

### Table, CsvReader, CsvWriter, CsvPipeline, HeaderedTable

Characters are classes: data, separator, quote, carriage return, newline, bytes
above 0x7F, and 0xFF.  `Step` is one round of the loop of `readCSV()` on a
record with its variables; `ReadCSV` has the state after as many rounds as the
file has characters, and one for its end.  What a writer has done is a record
too, so that a call of several fields is a fold over `Put`.  `CsvPipeline`
writes in every setting and order of calls, stops anywhere, and reads the file.
`HeaderedTable` reads a file of any contents, and uses the table by numbers and
names.  `CsvPipeline` and `HeaderedTable` are parts of `Values`.

### NaiveTime, NaiveDate, Conversions, Environment, CoolEnum, Checks

These have small states and no partners.  `Values` puts them into one run, where
the first step chooses which one is used.  Reference definitions stand beside
the code's: the calendar by counting days since 1900 (`DayNumber`), decoding for
encoding, the value of a numeral, the documented forms of a time.  Each loop of
the conversions is a function from the number of its rounds to what its locals
are then (`DecodeStep`, `RomanStep`, `NextToken`, `NextCode`).

## Runs

| Run | Bounds | Shows |
|---|---|---|
| `semaphore` | 3 threads, counter of 4 values, 4 tokens given | no lost wakeup, no token from nothing, waiters are served |
| `connpool_threads` | 3 threads, 1 string, 2 connections | exclusive use, nothing left behind, a purge closes what is idle, every call ends, the pool implements `ConnLease` |
| `statemachine` | a caller who waits or not, 2 detached threads, 4 arcs of which 2 may be refused, an observer that may throw | what remains true when up to three events overlap, and that handling ends; until they do, the machine implements `ArcMachine` and functions run only while the object is there |
| `statemachine_end_is_final` | a caller, 2 detached threads | violation: the end state is left |
| `statemachine_observers` | a caller who waits, an observer | violation: an observer that wants to be called again is not |
| `observable` | 2 threads, one of them sets, 3 observers, one may throw | no change is lost, no double call, every `set()` returns |
| `child` | 2 threads; one runs in every way with every fault, one captures | no descriptor or process left behind, own status, complete output, every run ends |
| `daemon` | `main()`, 1 thread of the application, 2 of the wrapper, 2 handlers | threads are joined, the guard is as wished, `stop()` ends |
| `daemon_runs` | `main()` alone | violation: `runHere()` returns although there is work |
| `logger` | 3 threads, 2 streams, 3 levels | one target, and where entries go |
| `values` | 8 years with all months and days, every time of the day, typed times of 6 characters, data of 4 bytes, texts of 4 characters, numerals to 1999, seconds from -2 to 2, 3 names of 3 states and 2 events, 4 profiles, 2 threads on an enumeration, 4 suites and 2 filters; files of up to 4 characters of 7 kinds, of 5 characters of 4 kinds and some longer ones, 2 uses of their tables, rows of 7 bits, less than 5 columns; written files of up to 4 fields of 7 kinds, in all settings | agreement with the reference definitions; no data of a file lost or doubled, cells keep values, names lead to columns, rows that are written come back |
| `values_calendar` | the same | violation: 31 May is a date of the calendar and not valid |

Why these bounds are enough:

- A lost token needs a waiter, a giver and a thief, and a wrap needs as many
  tokens as the counter has values.
- A migration of a connection needs an owner, a thread that takes it over and a
  third one that scans; the order of thread ids matters, so threads are numbers
  and only connections and strings are symmetric.  The strings are independent
  of each other, and the theorems cover any number of them.
- Overlap needs one event that commits between two steps of another; the third
  thread shows that a flag set by one and cleared by another misleads nobody else.
- A stale copy of the list needs two observers behind the one being called.
- An inherited pipe needs a second thread that forks while the first one has its
  pipe open.  One chunk of room makes programs block, two chunks make two reads.
- A stop that meets a run needs `main()`, a second caller and a thread; two
  threads show that both are joined.
- An entry that is torn between two targets needs a thread that logs and two
  that switch.
- In a file, five characters bring the reader's loop from its beginning through
  a header into a record, in or behind quotes, and to each kind of end; a third
  column of one name needs three columns, which the longer files have.  The
  theorems cover every file shorter than the square root of what the width of
  an index holds.  Four fields give two rows of two columns.
- The dates are the ends of months, and years around the rules for leap years;
  a numeral is repeated beyond 1999 only in its thousands.

## What the code does otherwise than it says

Four runs expect a violation, and the findings in `PROJECT.json` quote the
documentation: the end state may be left when events overlap
(`statemachine_end_is_final`); all observers are dropped at the end of every
event, also those that asked to stay (`statemachine_observers`); `runHere()` of
the daemon template returns at once, since `stop()` stops the context and nothing
restarts it (`daemon_runs`); and May has 30 days (`values_calendar`), so that
`today()` may return a date that is not valid.

Further observations, each visible in the action or definition named:

- Semaphore: `inc()` of a full counter makes it 0 (`IncAdd`).  A waiter that has
  tested the destruction flag and does not sleep yet misses the destructor's
  flag and notification, and sleeps for ever (`DtorFlag`, `DtorNotify`).
- StateMachine: `event()` accepts a second event while a detached thread has not
  begun (`EventAsync`); `inState` also runs after a refusal (`Commit`);
  `transition()` accepts loops although its comment refuses them (`Register`);
  the object is tested and used in two steps, between which an overlapping
  transition may release it (`InCheck`, `InState`; without its condition
  `HandlerAlive` fails with two detached threads).  An observer that throws
  leaves the flag set: the machine takes no more events (`CommitThrow`).
- Names: a scoped name is compared with the shortened ones before it is
  shortened, so that a name may be accepted that is another one's already
  (`Equal`); and the number that stands for a missing name may be the name of
  another state or event (`NameOf`).  In both cases arcs may look alike.
- Observable: a removed observer may still be called from the copy of the list
  (`Take`); an observer that throws keeps the others from being told (`Throw`);
  with two threads that call `set()` an observer may keep the older value
  (`FreshOrDue` fails with two setters).
- Child: when `fork()` fails, `Child::run()` waits for any process and returns 0
  if there is none (`WaitNone`).  An exception in the forked process unwinds a
  copy of the caller's program, which goes on twice (`GoAstray`).  The output
  ends at the first zero byte (`UpToNul`).
- Environment: a line such as `export AB=` throws; the variables behind it are
  never read, since the file is tried once (`ReadEnv`).
- Singleton and IOctxtWrapper: a handler that asks for the instance while
  `close()` joins its thread waits for ever, and so does `close()` (`asking` in
  `StopEnds`).  So does a handler that calls `stop()`, `stopWhenIdle(bool)` or
  `runThreads()` meanwhile, for the mutex of the wrapper; such handlers are not
  modelled.
- Logger: `FET` and `FCET` follow a null pointer when the level of errors is
  above the maximum (`TextMissing`); an entry that is logged while the target
  changes from or to the log of the system may throw, may meet a null stream, or
  may name its level where it should not (`LostOnlyToSyslog`, `named`).
- readCSV: records that are too short are accepted (`NextRow`); a closing quote
  as the last character of a file loses its field, and so does the end of the
  file behind a carriage return in quotes (`Continue`); the byte 0xFF ends a
  record (`EndOfRecord`); bytes above 0x7F at the beginning are dropped, also in
  quotes (`Step`).
- CsvWriter: `endRow()` without fields writes an empty line that the reader
  refuses (`EndRow`); without quoting a field may begin with a quote, which the
  reader takes for a quoted field (`Acceptable`).
- Table: a table of more than 2^32 cells wraps its index (`Index`, `SetRows`);
  the runs stay below, with a width of seven bits.  The map of headers is kept
  when the first row changes (`WithHeaders`).
- NaiveDate: the weekday is another one in timezones beyond twelve hours
  (`Weekday`); the text of a year beyond 9999 has eleven characters and is not
  read back (`Iso`); what stands between the numbers of a text is not looked at
  (`ParsedDate`).
- timespec: `>`, `>=` and `!=` are always true, since they take the complement of
  a `bool` (`src/timespecops.cpp` at lines 51, 56 and 66); they are not modelled.
- Roman numerals: 999 is written as IM, against the usual form (`ToRoman`).
- CoolEnum: a second thread may search maps that the first one is filling
  (`Look`), or, while they are still empty, fill them at the same time, which is
  undefined and may leave them damaged for good (`raced`, `InsertInto`).
- runchecks: a suite is added once for each filter that matches (`Times`).

## Fairness

Safety is checked without fairness where a run has no liveness property, and is
not affected by it elsewhere.  Liveness assumes that a thread which can go on in
the code of the library goes on in the end (weak fairness of the steps of one
call), that functions of the user and handlers of the I/O context return, that
programs end when they have written all they have, and, for the mutexes, that a
thread which waits for one is not passed over for ever.  It is never assumed
that a thread calls something, drops a handle, gives a token, that an observer
throws or leaves, or that a call of the operating system fails: in `Child` the
faults (`Failing`) have no fairness.  The notification of a condition variable
picks any sleeper.

## Proofs

TLAPS checks these theorems for every value of the constants that satisfies the
assumptions named in the modules.

`SemaphoreProofs`.  `TypeCorrect`; `MuxHeld` (the holder of the mutex is where
the mutex is held); and `Safety`: `NoLostWakeup` (while threads sleep, there are
no more tokens than threads on their way to take one or to notify) and
`NoTokenFromNothing` (tokens in stock and taken are no more than those given).
The strengthening is `DecisionStands`: what the holder of the mutex found in the
counter is still true when it acts on it.  The step that matters is the
notification, where the notifier leaves the set of threads on their way and the
woken thread joins it.

`ConnPoolProofs`.  `Invariance` is an inductive invariant with one part per
idea: the mutex and its holder's locals, entries and handles, the entries found
idle so far.  From it follow `Safety` (`Exclusive`; and `HeldIsPooled`,
`PooledOnce`: a connection in use has an entry, and no connection has two),
`NothingLeftBehind` and `ImplementsLease`, which covers every number of strings
where the run has one.  The step that matters is the scan: that a count of one,
once read, stays one, because only the holder of the mutex makes new handles and
others can only drop theirs.  `IdleIsClosed` is about whole calls of `purge()`:
what was idle when it began is either still in the pools to be looked at, or in
the list to be erased, or gone; nobody can take it meanwhile.

`StateMachineProofs`.  `TypeCorrect` needs that a thread at work has an arc
(`Engaged`).  `Safety` has three invariants, each inductive together with the
types: observers are told in the step that changes the state; whoever sets the
flag stays at work until somebody clears it; in the end state the last thread to
finish releases the object.  They hold however events overlap.  What overlap
breaks is proved until it happens, for any number of callers and detached
threads: the invariant `Orderly` says that at most one thread handles an event,
that the arc it follows starts in the current state, and that the flag tells
whether it is at work.  It gives `Sequential` (functions run only while the
object is there, one transition at a time), `EndStays` (the end state is final)
and `ImplementsArcs` (every behaviour is one of `ArcMachine`, which promises
nothing once events have overlapped).

`LoggerProofs`.  `Aimed` says what the last switch, and the one under way, have
made of the two members, and gives `LastTarget`.  `Explained` relates each thread
that logs to the histories: the last target and the one of a switch under way are
among those it has seen, and each of its reads is explained by one of them, not
always the same.  `EntriesAreKept` follows: who has seen a single target has read
it every time, and an entry is lost only to `None` or to two reads that the log
of the system stands between.

`DaemonProofs`.  The mutex of the wrapper is held by the caller inside of a call,
and by nobody else (`Exclusion`); all threads that are not idle are in the list,
and there is a wrapper as long as there are any (`ThreadsAreJoined`); the guard
that a call has put aside is the wish of the user (`GuardIsKept`).  That the
destructor is the call of the process which closes (`Closing`) ties the mutex of
the singleton to the one of the wrapper.  `main()` needs no invariant of its own:
`StepsOfWrapper` shows that it does nothing to the wrapper that another caller
could not do.

`ChildProofs`.  The ends that the parent has open are told by where the thread
is, whatever other threads have forked meanwhile; a process of a thread that is
idle is one whose wait was interrupted.  Both give `NothingStays`.
`OwnStatus` follows from the wait, which takes the status in the step that
removes the process.  `OutputIsComplete` says that a thread which has read to
the end returns all that its program wrote, or all before a zero byte.  Its
invariant has three parts: what was written is what was read, followed by what
is in the pipe (`Flow`); a program has the writing end of its own pipe until it
leaves (`KeepsEnd`), so that the parent does not find the end too early; and
when a thread is past its reading, its program has left and the output is all of
it (`Complete`).

`ObservableProofs`.  `NobodyTwice` follows from the threads' lists of handles
having no observer twice, which the recursive function `Live` preserves: a list
without the dead is an increasing choice of its places.  `NoChangeLost` (who is
registered and alive knows the value, or is about to be told) is proved for one
thread that sets the value: with two, TLC finds the older value delivered last,
which is what `Observable.hpp` does at line 163.

`ValuesProofs`.  One theorem per class of the run `Values`, by its invariant or
by the step that looks something up:

- `TimesAlwaysAgree`: sums of minutes are those of the day by division with a
  remainder (`SumOfMinutes`), and the comparisons agree with the minutes of the
  day (`OrderOfMinutes`).
- `ParsedAreDates` and `DatesAlwaysAgree`: the digits of a date give back the
  date (`StoiOfDigits`), the first days of the years and of the months follow
  each other, so the numbers of days are ordered as the dates are, and the
  weekday goes on by one with the day, in the timezones from eleven hours west to
  twelve east.  What is valid is a date of the calendar; the converse is false for
  31 May, which `values_calendar` shows.  Texts are read back up to the year 9999.
- `ArcsAlwaysDiffer`: two arcs that look alike in the drawing are the same arc,
  from the names of the states being apart (`NamesApart`).  It is about names that
  are registered without a scope, and none of which is the number of a state or
  an event that has no name.
- `OwnVariablesAlwaysWin`: a variable of the process is kept by every line of
  the file that is read (`FileKeeps`, by induction over the lines).
- `NamesAlwaysFind`: as long as no two threads have filled them at once, the maps
  of an enumeration have the same entries, those that the thread which fills them
  has entered (`CoolOK`); and listed suites are found by their names (`ChecksOK`).
- `ConversionsAlwaysAgree` has one theorem per conversion:
  - `TimespecsAddUp`: a sum of timespecs is within the second, a subtraction
    undoes it, and sums are in the order of what is added.
  - `Base64AlwaysReadsBack`: after i characters the decoder has the first bytes
    of the data, and the bits of the byte that is begun (`Decoded`); the four
    characters of a group have the bits of its three bytes (`BitsOfGroup`).  A
    line end changes no state of the decoder, wherever it stands.
  - `NumeralsAlwaysHaveValue`: after each numeral the value of what is written
    and the remainder make the number, with no four in a row but thousands (`Writing`);
    the remainder is less than four times the next numeral, but for thousands.
  - `TokensAlwaysBetween`: the tokens so far are the runs in front of the place
    that is reached (`TokensSoFar`); in the joined text the search finds the next
    word behind each blank (`NextWordIsFound`, `JoinedIsFound`).
  - `HtmlAlwaysReadsBack`: the text is at each moment the one in which the codes
    of its first k characters are replaced (`ReplacedTo`); a step replaces the
    next code (`CodeIsReplaced`, `NextIsReplaced`), or there is none left
    (`NoCodeIsLeft`).
- `CellsAlwaysKept` and `NamesAlwaysLead`: a table has whole rows, fewer than the
  width counts (`Whole`), so that the index of a cell neither wraps nor meets
  another cell (`OnePlace`, `CellIsSet`).  What the user's table keeps to is
  `Held`.  It needs that renaming ends with names that all differ
  (`HeadersUnique`: after n of the comparisons, the columns compared so far do),
  and that the reader makes tables with whole rows: `ReaderOK`, whose part that
  matters bounds its rows and columns by the characters it has read.
- `DataAlwaysKept`: after each step of the reader, the data in the table, or in
  the header that is not yet in it, and in the field that is being read is as
  much as is in front of the reader's place in the file (`Counted`).  For a cell
  to be filled once, those behind the reader's must be empty (`Empty`).  Each
  step goes forward, so that the end is reached (`Kept`), and there, if the file
  ends with a newline, no field is left over.

Recursive functions (`Live`, the digits of a row, the environment after the
lines of a file, the renamings of a header, the steps of the reader, the loops
of the conversions) need induction over a number.  The proofs have it without an operator as a parameter:
by `Induction`, which follows from `LeastNumber` and that from the
well-foundedness of `<`, a set of numbers that has 0 and the successors of its
members has all of them, and each proof names its own set.  That a function
defined by recursion over the steps exists is `Iterated`.  What the proofs
assume of the constants is what the classes get: well-formed texts, years in the
documented range, tables, suites and profiles of the right type, intervals
within the second; numbers that are written as different texts; files without
the mark of their end, and so short that the square of one more than their
length is below the width.

Only model-checked: all liveness properties (the prover has no rules for
fairness and `ENABLED` here), and `RowsAreReadAsWritten`, the part of `Values`
that is written by `CsvPipeline`, which needs the writer's folds over fields next to the reader's
steps.

## Not modelled

`PROJECT.json` lists every part with its reason.

- The tracer prints indented lines, the common definitions are macros and
  includes, scripts and build files create files: none has a state worth a model.
- `epoch2iso8601()` is a call of `strftime()`; the options and the printing of
  the test driver, the suites themselves, and the text of log entries are wording.
- The application of the daemon template is a class of its user: what it does
  is posting work, logging and asking for the wrapper.  Daemonizing happens
  before there is another thread.
- The models are sequentially consistent: relaxed loads such as `use_count()`,
  and the plain members that `log()` reads, are read in some order.
- Memory exhaustion, and the destruction of an object while others still call it
  (but for the semaphore, whose destructor is made for that), are left out.

## Plan

Done: all components that keep a state, their liveness and their composition,
and the proofs above.  Left, in order:

1. `RowsAreReadAsWritten`: what the reader has after each prefix that the writer
   has made.
2. Refinement of `Logger` and `Daemon` by shorter abstract specifications.

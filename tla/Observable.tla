----------------------------- MODULE Observable -----------------------------
(***************************************************************************)
(* The observed value of src/hdr/bren/Observable.hpp and its observers     *)
(* (src/hdr/bren/Observer.hpp).                                            *)
(*                                                                         *)
(* observers_ is a list of weak pointers, changed under mux_.  set()       *)
(* changes the value and copies the list under the mutex, and calls the    *)
(* observers of the copy without it.  An observer lives as long as its     *)
(* user or a running notification has a shared pointer.  A call receives   *)
(* value_ by reference: it reads the value, and has taken note of it in a  *)
(* later step.  An observer that calls set() itself does what another      *)
(* thread could do between these two steps.                                *)
(***************************************************************************)
EXTENDS Integers, SequencesExt

CONSTANTS
    Threads,
    Setters,   \* the threads that call set()
    Observers,
    Throwers,  \* the observers whose function may throw
    Values,
    NoObserver

ASSUME ThreadsAssumption == Setters \subseteq Threads
ASSUME ObserversAssumption ==
    IsFiniteSet(Observers) /\ Throwers \subseteq Observers /\ NoObserver \notin Observers

VARIABLES
    value,     \* value_
    observers, \* observers_
    owned,     \* the observers that their users have not let go of
    pc,        \* where each thread is in set()
    otbn,      \* the observers it still has to notify
    spo,       \* the observer it calls
    found,     \* foundExpired
    read,      \* the value that its call has read
    told,      \* history: the value each observer knows
    broken     \* history: an observer has thrown

locals == <<pc, otbn, spo, found, read>>
vars == <<value, observers, owned, locals, told, broken>>

\* lock() of a weak pointer succeeds.
Alive(o) == o \in owned \/ \E t \in Threads : spo[t] = o

Init ==
    /\ value \in Values
    /\ observers = <<>>
    /\ owned = Observers
    /\ pc = [t \in Threads |-> "idle"]
    /\ otbn = [t \in Threads |-> <<>>]
    /\ spo = [t \in Threads |-> NoObserver]
    /\ found = [t \in Threads |-> FALSE]
    /\ read = [t \in Threads |-> value]
    /\ told = [o \in Observers |-> value]
    /\ broken = FALSE

-----------------------------------------------------------------------------
Place(o) == CHOOSE i \in DOMAIN observers : observers[i] = o

\* The list without the entries that have expired.
Live(list) ==
    LET kept[n \in 0 .. Len(list)] ==
            IF n = 0 THEN <<>>
            ELSE IF Alive(list[n]) THEN Append(kept[n - 1], list[n]) ELSE kept[n - 1]
    IN  kept[Len(list)]

\* The entries the search for o passes: the expired ones are erased.
Before(o) == Live(SubSeq(observers, 1, Place(o) - 1))
After(o) == SubSeq(observers, Place(o) + 1, Len(observers))

\* Mutant: the list is not searched for the observer.
AddObserver_Again(t, o) ==
    /\ pc[t] = "idle" /\ Alive(o)
    /\ observers' = Append(Live(observers), o)
    /\ told' = [told EXCEPT ![o] = value]
    /\ UNCHANGED <<value, owned, locals, broken>>

\* addObserver(): an expired one is refused; a known one stays where it is.
AddObserver(t, o) ==
    /\ pc[t] = "idle"
    /\ Alive(o)
    /\ \/ /\ Contains(observers, o)
          /\ observers' = Before(o) \o <<o>> \o After(o)
          /\ UNCHANGED told
       \/ /\ ~Contains(observers, o)
          /\ observers' = Append(Live(observers), o)
          /\ told' = [told EXCEPT ![o] = value]
    /\ UNCHANGED <<value, owned, locals, broken>>

\* removeObserver(): the search ends at the observer, if it is there.
RemoveObserver(t, o) ==
    /\ pc[t] = "idle"
    /\ Alive(o)
    /\ observers' = IF Contains(observers, o) THEN Before(o) \o After(o) ELSE Live(observers)
    /\ UNCHANGED <<value, owned, locals, told, broken>>

\* The user of an observer lets go of it, at any time.
Drop(o) ==
    /\ o \in owned
    /\ owned' = owned \ {o}
    /\ UNCHANGED <<value, observers, locals, told, broken>>

-----------------------------------------------------------------------------
\* set() of another value: the locked part.
SetStart(t, v) ==
    /\ t \in Setters
    /\ pc[t] = "idle"
    /\ v # value
    /\ value' = v
    /\ otbn' = [otbn EXCEPT ![t] = observers]
    /\ pc' = [pc EXCEPT ![t] = "walk"]
    /\ UNCHANGED <<observers, owned, spo, found, read, told, broken>>

\* Mutant: the walk ends at an expired observer.
Skip_Ends(t) ==
    /\ pc[t] = "walk" /\ otbn[t] # <<>> /\ ~Alive(Head(otbn[t]))
    /\ found' = [found EXCEPT ![t] = TRUE]
    /\ otbn' = [otbn EXCEPT ![t] = <<>>]
    /\ UNCHANGED <<value, observers, owned, pc, spo, read, told, broken>>

\* Mutant: the iterator stays at an expired observer.
Skip_Stays(t) ==
    /\ pc[t] = "walk" /\ otbn[t] # <<>> /\ ~Alive(Head(otbn[t]))
    /\ found' = [found EXCEPT ![t] = TRUE]
    /\ UNCHANGED <<value, observers, owned, pc, otbn, spo, read, told, broken>>

Skip(t) ==
    /\ pc[t] = "walk" /\ otbn[t] # <<>>
    /\ ~Alive(Head(otbn[t]))
    /\ found' = [found EXCEPT ![t] = TRUE]
    /\ otbn' = [otbn EXCEPT ![t] = Tail(@)]
    /\ UNCHANGED <<value, observers, owned, pc, spo, read, told, broken>>

\* lock() succeeds: from here on this thread keeps the observer alive.
Take(t) ==
    /\ pc[t] = "walk" /\ otbn[t] # <<>>
    /\ Alive(Head(otbn[t]))
    /\ spo' = [spo EXCEPT ![t] = Head(otbn[t])]
    /\ otbn' = [otbn EXCEPT ![t] = Tail(@)]
    /\ pc' = [pc EXCEPT ![t] = "call"]
    /\ UNCHANGED <<value, observers, owned, found, read, told, broken>>

\* observableChanged() reads the value behind its reference.
Read(t) ==
    /\ pc[t] = "call"
    /\ read' = [read EXCEPT ![t] = value]
    /\ pc' = [pc EXCEPT ![t] = "note"]
    /\ UNCHANGED <<value, observers, owned, otbn, spo, found, told, broken>>

\* It has taken note of it and returns.
Note(t) ==
    /\ pc[t] = "note"
    /\ told' = [told EXCEPT ![spo[t]] = read[t]]
    /\ spo' = [spo EXCEPT ![t] = NoObserver]
    /\ pc' = [pc EXCEPT ![t] = "walk"]
    /\ UNCHANGED <<value, observers, owned, otbn, found, read, broken>>

\* It throws: set() ends, nobody else is called, nothing is pruned.
Throw(t) ==
    /\ pc[t] = "note"
    /\ spo[t] \in Throwers
    /\ spo' = [spo EXCEPT ![t] = NoObserver]
    /\ otbn' = [otbn EXCEPT ![t] = <<>>]
    /\ found' = [found EXCEPT ![t] = FALSE]
    /\ pc' = [pc EXCEPT ![t] = "idle"]
    /\ broken' = TRUE
    /\ UNCHANGED <<value, observers, owned, read, told>>

\* The end of set(): prune the list if the walk met an expired observer.
SetEnd(t) ==
    /\ pc[t] = "walk" /\ otbn[t] = <<>>
    /\ observers' = IF found[t] THEN Live(observers) ELSE observers
    /\ found' = [found EXCEPT ![t] = FALSE]
    /\ pc' = [pc EXCEPT ![t] = "idle"]
    /\ UNCHANGED <<value, owned, otbn, spo, read, told, broken>>

-----------------------------------------------------------------------------
Notifying(t) == Skip(t) \/ Take(t) \/ Read(t) \/ Note(t) \/ Throw(t) \/ SetEnd(t)

Next ==
    \/ \E o \in Observers : Drop(o) \/ \E t \in Threads : AddObserver(t, o) \/ RemoveObserver(t, o)
    \/ \E t \in Threads : Notifying(t) \/ \E v \in Values : SetStart(t, v)

Spec == Init /\ [][Next]_vars

\* Observers' functions return.
FairSpec == Spec /\ \A t \in Threads : WF_vars(Notifying(t))

-----------------------------------------------------------------------------
\* No observer would be called twice for one change: neither the list nor the
\* copies that are being notified name one twice, while entries expire, are
\* pruned by three operations and are added and removed again.
CalledOnce ==
    /\ IsInjective(observers)
    /\ \A t \in Threads : IsInjective(otbn[t]) /\ ~Contains(otbn[t], spo[t])

\* Who is registered and alive knows the value, or is about to be told: no
\* change is lost although the list changes while observers are notified.
FreshOrDue ==
    ~broken => \A o \in Observers : Contains(observers, o) /\ Alive(o) =>
        \/ told[o] = value
        \/ \E t \in Threads : spo[t] = o \/ Contains(otbn[t], o)

\* Every set() that changes the value returns, whatever joins and leaves.
SetsReturn == \A t \in Threads : pc[t] # "idle" ~> pc[t] = "idle"
=============================================================================

------------------------------- MODULE Names -------------------------------
(***************************************************************************)
(* The names that a StateMachine has for its states and events, and the    *)
(* graph it draws with them: src/hdr/bren/StateMachine.hpp.                *)
(*                                                                         *)
(* A name is registered with its scope or without; what is stored has      *)
(* none.  A state or an event without a name is shown as its number, which *)
(* may as well be the name of another one.                                 *)
(***************************************************************************)
EXTENDS Naturals, FiniteSets

CONSTANTS
    StateKeys, EventKeys,   \* numbers
    Scopes,                 \* scopes of names, NoScope among them
    NoScope,
    ShortNames,             \* what follows the scope
    NumberText,             \* the texts of numbers
    GraphArcs               \* trans_: [from, event, to]

ASSUME ScopeAssumption == NoScope \in Scopes
ASSUME NumbersAssumption == \A j, k \in StateKeys \cup EventKeys : NumberText[j] = NumberText[k] => j = k
ASSUME ArcsAssumption == GraphArcs \subseteq [from : StateKeys, event : EventKeys, to : StateKeys]

VARIABLES
    names,   \* states_ and events_
    scoped   \* history: a name with a scope has been registered

naming == <<names, scoped>>

\* Functions from keys to names, which are empty at first.
NamesInit == names = [states |-> <<>>, events |-> <<>>] /\ scoped = FALSE

\* shorten_(); whether a name as it was given, scope included, is used already.
Shorten(name) == name.short

Equal(name, stored) == name.scope = NoScope /\ Shorten(name) = stored

\* Mutant: names are not compared.
Used_Never(kind, key, name) == FALSE

Used(kind, key, name) ==
    \E k \in DOMAIN names[kind] \ {key} : Equal(name, names[kind][k])

Register(kind, key, name) ==
    /\ ~Used(kind, key, name)
    /\ names' = [names EXCEPT ![kind] =
           [k \in DOMAIN @ \cup {key} |-> IF k = key THEN Shorten(name) ELSE @[k]]]
    /\ scoped' = (scoped \/ name.scope # NoScope)

NamesNext == \E name \in [scope : Scopes, short : ShortNames] :
    \/ \E key \in StateKeys : Register("states", key, name)
    \/ \E key \in EventKeys : Register("events", key, name)

\* name_() and digraph(): an edge for each arc.
NameOf(kind, key) == IF key \in DOMAIN names[kind] THEN names[kind][key] ELSE NumberText[key]

Edge(arc) == <<NameOf("states", arc.from), NameOf("states", arc.to), NameOf("events", arc.event)>>

\* A name is the text of no number that is shown for want of a name.
NoNameIsNumber(kind, keys) ==
    \A k \in DOMAIN names[kind], n \in keys \ DOMAIN names[kind] : names[kind][k] # NumberText[n]

\* As long as all names have been registered without a scope, and none is taken
\* for a number, no two arcs look the same in the graph, however often states and
\* events are renamed.
ArcsLookDifferent ==
    ~scoped /\ NoNameIsNumber("states", StateKeys) /\ NoNameIsNumber("events", EventKeys) =>
        \A a, b \in GraphArcs : a # b => Edge(a) # Edge(b)
=============================================================================

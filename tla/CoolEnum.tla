------------------------------ MODULE CoolEnum ------------------------------
(***************************************************************************)
(* The names of an enumeration, src/hdr/bren/CoolEnum.cpp.hpp: two maps    *)
(* that the first lookup fills, entry by entry and without a mutex.        *)
(*                                                                         *)
(* What a lookup finds while another thread is filling the maps is         *)
(* undefined; and when two threads have filled them at once, so is what is *)
(* in the maps from then on.                                               *)
(***************************************************************************)
EXTENDS Naturals, Sequences

CONSTANTS
    Seekers,  \* threads
    Entries   \* the enumeration: a sequence of [name, key], names and keys distinct

ASSUME EntriesAssumption ==
    /\ Len(Entries) \in Nat /\ DOMAIN Entries = 1 .. Len(Entries)
    /\ \A i, j \in DOMAIN Entries :
           i # j => Entries[i].name # Entries[j].name /\ Entries[i].key # Entries[j].key

VARIABLES
    k2s,    \* the entries whose keys are in the map
    s2k,    \* the entries whose names are
    filled, \* how many entries each thread that fills has entered, or Len(Entries) + 1
    seek,   \* what it looks for: an entry, or 0
    answer, \* what it got: an entry, or 0 for an exception or a name or key of none
    sound,  \* history: the maps were settled when it looked
    raced   \* a thread has begun to fill the maps while another one was filling them

cool == <<k2s, s2k, filled, seek, answer, sound, raced>>

Done == Len(Entries) + 1

CoolInit ==
    /\ k2s = {} /\ s2k = {}
    /\ filled = [t \in Seekers |-> Done]
    /\ seek = [t \in Seekers |-> 0] /\ answer = [t \in Seekers |-> 0]
    /\ sound = [t \in Seekers |-> FALSE] /\ raced = FALSE

\* Mutant: an entry is only made in an empty map.
Enter_First(map, e) == IF map = {} THEN {e} ELSE map

Enter(map, e) == map \cup {e}

Filling(t) == filled[t] # Done

\* Nobody is filling the maps, nor have two threads done so at once.
Settled == ~raced /\ \A t \in Seekers : ~Filling(t)

\* A lookup begins: the maps are filled if they are empty.
Seek(t, e) ==
    /\ seek[t] = 0
    /\ seek' = [seek EXCEPT ![t] = e]
    /\ filled' = [filled EXCEPT ![t] = IF k2s = {} THEN 0 ELSE Done]
    /\ raced' = (raced \/ (k2s = {} /\ \E u \in Seekers : Filling(u)))
    /\ answer' = [answer EXCEPT ![t] = 0] /\ sound' = [sound EXCEPT ![t] = FALSE]
    /\ UNCHANGED <<k2s, s2k>>

\* What is in a map after an insertion: anything, when another thread inserts too.
InsertInto(map, e) == IF raced THEN SUBSET DOMAIN Entries ELSE {Enter(map, e)}

\* COOLENUM and COOLENUM_END
Fill(t) ==
    /\ Filling(t)
    /\ filled' = [filled EXCEPT ![t] = @ + 1]
    /\ IF filled[t] < Len(Entries)
       THEN k2s' \in InsertInto(k2s, filled[t] + 1) /\ s2k' \in InsertInto(s2k, filled[t] + 1)
       ELSE UNCHANGED <<k2s, s2k>>
    /\ UNCHANGED <<seek, answer, sound, raced>>

\* The map of keys, or the one of names, is searched.
Look(t) ==
    /\ seek[t] # 0 /\ ~Filling(t)
    /\ \E map \in {k2s, s2k} :
           answer' \in {[answer EXCEPT ![t] = a] :
               a \in IF Settled THEN {IF seek[t] \in map THEN seek[t] ELSE 0} ELSE {seek[t], 0}}
    /\ sound' = [sound EXCEPT ![t] = Settled]
    /\ seek' = [seek EXCEPT ![t] = 0]
    /\ UNCHANGED <<k2s, s2k, filled, raced>>

CoolNext == \E t \in Seekers : Fill(t) \/ Look(t) \/ \E e \in DOMAIN Entries : Seek(t, e)

\* Once one thread has filled the maps by itself they are whole, and lookups that
\* come later are answered, however many there are at once.  Nothing is promised
\* of a lookup while the maps are filled, or ever after if two threads have filled
\* them at once.
LookupsAnswer ==
    /\ Settled => k2s = s2k /\ k2s \in {{}, DOMAIN Entries}
    /\ \A t \in Seekers : seek[t] = 0 /\ sound[t] => answer[t] # 0
=============================================================================

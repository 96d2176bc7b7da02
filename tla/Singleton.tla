----------------------------- MODULE Singleton -----------------------------
(***************************************************************************)
(* The class of which there is one instance: src/hdr/bren/Singleton.hpp.   *)
(*                                                                         *)
(* instance() constructs it under mux_a, in one step here.  close()        *)
(* destroys it under mux_a: what the destructor does is described by the   *)
(* module that uses this one, between BeginClose and EndClose.             *)
(***************************************************************************)
CONSTANT NoProcess

VARIABLES
    instance,  \* instance_a is not null
    closer     \* the process that has mux_a while it destroys the instance

singleton == <<instance, closer>>

SingletonInit == instance = FALSE /\ closer = NoProcess

MutexFree == closer = NoProcess

GetInstance ==
    /\ MutexFree
    /\ instance' = TRUE
    /\ UNCHANGED closer

BeginClose(p) ==
    /\ MutexFree /\ instance
    /\ closer' = p
    /\ UNCHANGED instance

EndClose(p) ==
    /\ closer = p
    /\ closer' = NoProcess
    /\ instance' = FALSE
=============================================================================

---------------------------- MODULE MCObservable ----------------------------
(* An instance of Observable for TLC: a value of two states, so that every  *)
(* set() of another value toggles it.                                       *)
EXTENDS Observable

Two == 0..1
=============================================================================

------------------------------ MODULE MCLogger ------------------------------
(* Instances of Logger for TLC.                                             *)
EXTENDS Logger, TLC

Symmetry == Permutations(Threads) \cup Permutations(Streams)
=============================================================================

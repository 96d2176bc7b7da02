------------------------------ MODULE MCChild ------------------------------
(* Instances of Child for TLC: one thread with every way of running and     *)
(* every fault, another one that captures.                                  *)
EXTENDS Child, TLC

CONSTANTS a, b, text
MCOutputs == {<<>>, <<text, text>>, <<Nul, text>>}
MCModes == a :> {"capture", "plain", "free"} @@ b :> {"capture"}
MCFaults == a :> {"pipe", "fork", "dup", "exec", "read", "wait"} @@ b :> {"read"}
=============================================================================

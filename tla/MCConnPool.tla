----------------------------- MODULE MCConnPool -----------------------------
(* Instances of ConnPool for TLC: thread ids are numbers, since the scan of *)
(* get() follows their order.                                               *)
EXTENDS ConnPool, TLC

ThreeThreads == 1..3
=============================================================================

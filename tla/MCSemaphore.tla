----------------------------- MODULE MCSemaphore -----------------------------
(* Instance of Semaphore for TLC: a two-bit counter. *)
EXTENDS Semaphore, TLC

MCCounterMod == 2^2
=============================================================================

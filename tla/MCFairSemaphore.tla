-------------------------- MODULE MCFairSemaphore --------------------------
(* FairSemaphore on five threads and two permits. *)
EXTENDS FairSemaphore, TLC

CONSTANTS t1, t2, t3, t4, t5

MCThreads == {t1, t2, t3, t4, t5}
MCTotal == 2
============================================================================

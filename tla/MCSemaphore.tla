----------------------------- MODULE MCSemaphore -----------------------------
(***************************************************************************)
(* The semaphore for TLC.  The liveness property rules symmetry out.       *)
(***************************************************************************)
EXTENDS Semaphore
=============================================================================

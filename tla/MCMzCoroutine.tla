--------------------------- MODULE MCMzCoroutine ---------------------------
(* MzCoroutine for TLC: the constants are model values. *)
EXTENDS MzCoroutine
=============================================================================

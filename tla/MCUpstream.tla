----------------------------- MODULE MCUpstream -----------------------------
(* Model checking of Upstream alone: one chunk task and the numbers of the  *)
(* code, in units of 15 seconds.                                            *)
EXTENDS Upstream
=============================================================================

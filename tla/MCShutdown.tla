----------------------------- MODULE MCShutdown -----------------------------
(* Model checking of Shutdown, both layouts, with two or three connections. *)
EXTENDS Shutdown
=============================================================================

------------------------------- MODULE MCWarm -------------------------------
(* Model checking of Warm. *)
EXTENDS Warm
=============================================================================

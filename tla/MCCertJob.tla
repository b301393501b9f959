------------------------------ MODULE MCCertJob ------------------------------
(* Model checking of CertJob alone: one request, one certificate. *)
EXTENDS CertJob
=============================================================================

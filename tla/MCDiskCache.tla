----------------------------- MODULE MCDiskCache -----------------------------
(* Model checking of DiskCache: a limit of ten units, blobs of 4 or 7. *)
EXTENDS DiskCache, TLC

Symmetry == Permutations(Writers)
=============================================================================

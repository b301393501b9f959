------------------------------ MODULE MCCaches ------------------------------
(* The two caches behind the registry routes: manifests in memory, blobs on *)
(* disk.  They share no state (clear_cache clears one, then the other), so  *)
(* a behaviour moves one of them and leaves the other at rest.              *)
EXTENDS ManifestCache, TLC

CONSTANTS Writers, None, Sizes, MaxDisk, MaxFiles, Clears, StaleParts, RemoveFails

VARIABLES
    part,       \* the cache that moves
    files, written, on_disk, writer, blob, lock, scan, total, phantom

Disk == INSTANCE DiskCache WITH MaxBytes <- MaxDisk, pc <- writer

disk == <<files, written, on_disk, writer, blob, lock, scan, total, phantom>>

ASSUME DiskAssumption == Disk!CacheAssumption

BothInit == part \in {"manifests", "blobs"} /\ Init /\ Disk!Init

BothNext ==
    \/ part = "manifests" /\ Next /\ UNCHANGED <<part, disk>>
    \/ part = "blobs" /\ Disk!Next /\ UNCHANGED <<part, vars>>

BothSpec == BothInit /\ [][BothNext]_<<part, vars, disk>>

Symmetry == Permutations(Requests) \cup Permutations(Writers)

(* The byte counter of the blob cache only errs on the low side: see module *)
(* DiskCache.                                                               *)
NeverOvercounts == Disk!NeverOvercounts
=============================================================================

------------------------------ MODULE DiskCache ------------------------------
(***************************************************************************)
(* The byte accounting and the eviction of src/cache.rs (DiskCache).  The  *)
(* counter on_disk is an atomic integer that download tasks add to after   *)
(* they renamed a blob into place, that an eviction loads, decreases       *)
(* locally and stores back, that clear stores zero into and that a restart *)
(* rebuilds from the directory.  Eviction and clear exclude each other by  *)
(* evict_lock; nothing excludes them from the tasks.                       *)
(***************************************************************************)
EXTENDS Integers, FiniteSets, FiniteSetsExt

CONSTANTS
    Writers,        \* download tasks
    None,           \* nobody holds evict_lock
    Sizes,          \* sizes of blobs, in units of a tenth of the limit or more
    MaxBytes,       \* CACHE_MAX_GB
    MaxFiles,       \* bound: files written in a behaviour
    Clears,         \* TRUE: the management API may clear the cache
    StaleParts,     \* TRUE: failed downloads leave part files behind for an hour
    RemoveFails     \* TRUE: read_dir and remove_file may fail

CacheAssumption ==
    /\ None \notin Writers /\ "clear" \notin Writers \cup {None}
    /\ MaxBytes \in Nat /\ MaxFiles \in Nat
    /\ Sizes \subseteq Nat \ {0}
    /\ {Clears, StaleParts, RemoveFails} \subseteq BOOLEAN

VARIABLES
    files,      \* what is under sha256/: [id, size, blob]; ids grow with mtime
    written,    \* files written so far
    on_disk,    \* the atomic counter
    pc,         \* of each writer: where it is
    blob,       \* of each writer: the file it renamed and has not counted yet, or none
    lock,       \* evict_lock: a writer, "clear" or None
    scan,       \* the list the holder of evict_lock works through
    total,      \* the evictor's local copy of the counter
    phantom     \* history: bytes still to be counted that were gone at the last clear

vars == <<files, written, on_disk, pc, blob, lock, scan, total, phantom>>

Bytes(S) == MapThenSumSet(LAMBDA f : f.size, S)
Blobs == {f \in files : f.blob}
Uncounted == UNION {blob[w] : w \in Writers}

(* EVICT_TARGET_NUM / EVICT_TARGET_DEN *)
Target == (MaxBytes * 9) \div 10

Goto(w, l) == pc' = [pc EXCEPT ![w] = l]

Init ==
    /\ files = {} /\ written = 0 /\ on_disk = 0
    /\ pc = [w \in Writers |-> "idle"] /\ blob = [w \in Writers |-> {}]
    /\ lock = None /\ scan = {} /\ total = 0 /\ phantom = 0

-----------------------------------------------------------------------------
(* A download task: rename, then committed(size). *)

NewFile(s, b) == [id |-> written + 1, size |-> s, blob |-> b]

Write(f) ==
    /\ written < MaxFiles /\ written' = written + 1
    /\ files' = files \cup {f}

Rename(w, s) ==
    /\ pc[w] = "idle"
    /\ Write(NewFile(s, TRUE))
    /\ blob' = [blob EXCEPT ![w] = {NewFile(s, TRUE)}]
    /\ Goto(w, "committed")
    /\ UNCHANGED <<on_disk, lock, scan, total, phantom>>

(* fetch_add, and on to evict_old when the limit is exceeded *)
committed(w) ==
    /\ pc[w] = "committed"
    /\ on_disk' = on_disk + Bytes(blob[w])
    /\ blob' = [blob EXCEPT ![w] = {}]
    /\ Goto(w, IF on_disk' > MaxBytes THEN "evict" ELSE "idle")
    /\ UNCHANGED <<files, written, lock, scan, total, phantom>>

(* A part file whose download failed; the eviction sees it once it has not  *)
(* been written to for PART_MAX_AGE.                                        *)
LeavePart(s) ==
    /\ StaleParts
    /\ Write(NewFile(s, FALSE))
    /\ UNCHANGED <<on_disk, pc, blob, lock, scan, total, phantom>>

-----------------------------------------------------------------------------
(* evict_old *)

(* Take evict_lock; whoever had it before may have made room already. *)
EvictLock(w) ==
    /\ pc[w] = "evict" /\ lock = None
    /\ IF on_disk <= MaxBytes
         THEN Goto(w, "idle") /\ UNCHANGED lock
         ELSE Goto(w, "scan") /\ lock' = w
    /\ UNCHANGED <<files, written, on_disk, blob, scan, total, phantom>>

(* List the files; if the directory cannot be read, give up. *)
ScanFiles(w) ==
    /\ pc[w] = "scan"
    /\ \/ scan' = files /\ Goto(w, "load") /\ UNCHANGED lock
       \/ RemoveFails /\ Goto(w, "idle") /\ lock' = None /\ UNCHANGED scan
    /\ UNCHANGED <<files, written, on_disk, blob, total, phantom>>

LoadTotal(w) ==
    /\ pc[w] = "load"
    /\ total' = on_disk
    /\ Goto(w, "remove")
    /\ UNCHANGED <<files, written, on_disk, blob, lock, scan, phantom>>

Oldest(S) == CHOOSE f \in S : \A g \in S : f.id <= g.id

NoSub(a, b) == a
SaturatingSub(a, b) == IF a > b THEN a - b ELSE 0

(* The next file in order of mtime; a file that cannot be removed is not    *)
(* subtracted.                                                              *)
RemoveOldest(w) ==
    /\ pc[w] = "remove" /\ total > Target /\ scan # {}
    /\ LET f == Oldest(scan) IN
          /\ scan' = scan \ {f}
          /\ \/ f \in files /\ files' = files \ {f} /\ total' = SaturatingSub(total, f.size)
             \/ (f \notin files \/ RemoveFails) /\ UNCHANGED <<files, total>>
    /\ UNCHANGED <<written, on_disk, pc, blob, lock, phantom>>

StoreTotal(w) ==
    /\ pc[w] = "remove" /\ (total <= Target \/ scan = {})
    /\ on_disk' = total
    /\ total' = 0 /\ scan' = {} /\ lock' = None
    /\ Goto(w, "idle")
    /\ UNCHANGED <<files, written, blob, phantom>>

-----------------------------------------------------------------------------
(* clear: remove_dir_all unlinks one file after the other and stops at the  *)
(* first error, for instance when a file appears in a directory it is about *)
(* to remove; the counter is set to zero all the same.                      *)

ClearLock ==
    /\ Clears /\ lock = None
    /\ lock' = "clear" /\ scan' = files
    /\ UNCHANGED <<files, written, on_disk, pc, blob, total, phantom>>

ClearRemove ==
    /\ lock = "clear"
    /\ \E f \in scan : files' = files \ {f} /\ scan' = scan \ {f}
    /\ UNCHANGED <<written, on_disk, pc, blob, lock, total, phantom>>

ClearStore ==
    /\ lock = "clear" /\ (scan = {} \/ ~(files \subseteq scan) \/ RemoveFails)
    /\ on_disk' = 0
    /\ lock' = None /\ scan' = {}
    /\ phantom' = Bytes(Uncounted \ files)
    /\ UNCHANGED <<files, written, pc, blob, total>>

-----------------------------------------------------------------------------
(* The process stops anywhere and init() scans the directory. *)
scan_bytes == Bytes(Blobs)

Restart ==
    /\ on_disk' = scan_bytes
    /\ pc' = [w \in Writers |-> "idle"] /\ blob' = [w \in Writers |-> {}]
    /\ lock' = None /\ scan' = {} /\ total' = 0 /\ phantom' = 0
    /\ UNCHANGED <<files, written>>

Evictor(w) ==
    EvictLock(w) \/ ScanFiles(w) \/ LoadTotal(w) \/ RemoveOldest(w) \/ StoreTotal(w)

Next ==
    \/ \E w \in Writers :
          (\E s \in Sizes : Rename(w, s)) \/ committed(w) \/ Evictor(w)
    \/ \E s \in Sizes : LeavePart(s)
    \/ ClearLock \/ ClearRemove \/ ClearStore
    \/ Restart

Spec == Init /\ [][Next]_vars

-----------------------------------------------------------------------------
(* Properties *)

(* The counter never claims bytes that are not there, except those of blobs *)
(* that were gone when clear set it to zero and counted afterwards; with    *)
(* blobs smaller than the eviction's target nothing else does: an eviction  *)
(* that removes a blob before it was counted, an addition that a store      *)
(* overwrites and a part file that was never added all err on the low side. *)
NeverOvercounts == lock = None => on_disk + Bytes(Uncounted) <= Bytes(Blobs) + phantom

(* When everybody has finished the cache is within its limit, or (after a   *)
(* crash between a rename and its eviction) at least known not to be, so    *)
(* that the next download evicts.                                           *)
LimitKept ==
    lock = None /\ (\A w \in Writers : pc[w] = "idle") =>
        Bytes(Blobs) <= MaxBytes \/ on_disk > MaxBytes

=============================================================================

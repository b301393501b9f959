------------------------------ MODULE CacheSlot ------------------------------
(***************************************************************************)
(* What the blob cache keeps for one digest (src/cache.rs): the slot is     *)
(* empty or holds a file whose cells were hashed to the digest.  A file     *)
(* appears complete, in one step, in an empty slot; eviction and clear make *)
(* it disappear; nothing replaces it.  A write that an aborted task left    *)
(* queued for the same file may still change one cell of it, which the      *)
(* contents allow.                                                          *)
(***************************************************************************)
CONSTANTS
    Contents,   \* the files, functions from cells, that may be under the key
    Absent      \* no file under the cache key

VARIABLE slot

Init == slot = Absent

Publish == slot = Absent /\ slot' \in Contents

Withdraw == slot \in Contents /\ slot' = Absent

LateWrite ==
    /\ slot \in Contents /\ slot' \in Contents
    /\ \E c \in DOMAIN slot : \A d \in DOMAIN slot \ {c} : slot'[d] = slot[d]

Next == Publish \/ Withdraw \/ LateWrite

Spec == Init /\ [][Next]_slot

=============================================================================

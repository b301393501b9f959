------------------------------- MODULE Flight -------------------------------
(***************************************************************************)
(* What the single-flight lock promises (the comment in proxy_blob,        *)
(* src/main.rs: "one download per digest, late arrivals re-check the       *)
(* cache").  A flight for a digest takes off only when no other is in the  *)
(* air and the blob is not cached; only the flight in the air publishes    *)
(* the blob; eviction may take it away at any time.  BlobDownload assumes  *)
(* this of its caller, SingleFlight provides it.                           *)
(***************************************************************************)
CONSTANT Digests

VARIABLES
    flying,     \* digests somebody is fetching into the cache
    cached      \* digests with a blob in the cache

Init == flying = {} /\ cached = {}

TakeOff(d) ==
    /\ d \notin flying /\ d \notin cached
    /\ flying' = flying \cup {d} /\ cached' = cached

Publish(d) ==
    /\ d \in flying /\ d \notin cached
    /\ cached' = cached \cup {d}
    /\ flying' \in {flying, flying \ {d}}

Land(d) == d \in flying /\ flying' = flying \ {d} /\ cached' = cached

Evict(d) == d \in cached /\ cached' = cached \ {d} /\ flying' = flying

Next == \E d \in Digests : TakeOff(d) \/ Publish(d) \/ Land(d) \/ Evict(d)

Spec == Init /\ [][Next]_<<flying, cached>>

=============================================================================

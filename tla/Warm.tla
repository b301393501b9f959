-------------------------------- MODULE Warm --------------------------------
(***************************************************************************)
(* Preloading an image: start_warm and parse_image_manifest_digests of     *)
(* src/main.rs.  One request walks the digests of a manifest in order; a   *)
(* digest that is not skipped is looked up, its flight lock is tried, its  *)
(* size is asked for and its download is spawned (module SingleFlight).    *)
(***************************************************************************)
EXTENDS Sequences, FiniteSets, Integers

CONSTANTS
    Blobs,      \* digests of configs and layers
    Children,   \* digests of the platform manifests of a list
    MaxWarm     \* MAX_WARM_BLOBS_PER_REQUEST

VARIABLES
    pc,         \* "fetch", "walk" or "answered"
    manifest,   \* what the registry returned
    todo,       \* what is left of the parsed digests
    skipped,    \* digests skipped for their kind
    queued,     \* digests whose download was spawned
    cached      \* committed blobs

vars == <<pc, manifest, todo, skipped, queued, cached>>

(* A list has children; an image manifest has a config and layers. *)
Manifests ==
    {[list |-> TRUE, refs |-> s] : s \in [1 .. 2 -> Children]}
        \cup {[list |-> FALSE, refs |-> s] : s \in [1 .. 3 -> Blobs]}
NoManifest == [list |-> TRUE, refs |-> <<>>]

(* The kinds the parser gives to digests. *)
parse_image_manifest_digests(m) ==
    [n \in DOMAIN m.refs |->
        [kind |-> IF m.list THEN "manifest" ELSE IF n = 1 THEN "config" ELSE "layer",
         digest |-> m.refs[n]]]

Init ==
    /\ pc = "fetch" /\ manifest = NoManifest /\ todo = <<>>
    /\ skipped = {} /\ queued = {}
    /\ cached \in SUBSET Blobs

(* The manifest is fetched and parsed, or the request fails; a manifest     *)
(* with too many digests is refused.                                        *)
FetchManifest(m) ==
    /\ pc = "fetch"
    /\ \/ /\ Len(m.refs) <= MaxWarm
          /\ manifest' = m
          /\ todo' = parse_image_manifest_digests(m)
          /\ pc' = "walk"
       \/ pc' = "answered" /\ UNCHANGED <<manifest, todo>>
    /\ UNCHANGED <<skipped, queued, cached>>

(* The loop's first test. *)
IsBlob(e) == e.kind = "blob"

Skip ==
    /\ pc = "walk" /\ todo # <<>> /\ ~IsBlob(Head(todo))
    /\ skipped' = skipped \cup {Head(todo).digest}
    /\ todo' = Tail(todo)
    /\ UNCHANGED <<pc, manifest, queued, cached>>

(* Spawned, unless it is cached or in flight or its size is unknown. *)
Queue ==
    /\ pc = "walk" /\ todo # <<>> /\ IsBlob(Head(todo))
    /\ \/ Head(todo).digest \notin cached /\ queued' = queued \cup {Head(todo).digest}
       \/ UNCHANGED queued
    /\ todo' = Tail(todo)
    /\ UNCHANGED <<pc, manifest, skipped, cached>>

Answer ==
    /\ pc = "walk" /\ todo = <<>>
    /\ pc' = "answered"
    /\ UNCHANGED <<manifest, todo, skipped, queued, cached>>

(* A spawned download commits its blob. *)
Commit(d) ==
    /\ d \in queued \ cached
    /\ cached' = cached \cup {d}
    /\ UNCHANGED <<pc, manifest, todo, skipped, queued>>

Finished == pc = "answered" /\ queued \subseteq cached /\ UNCHANGED vars

Next ==
    \/ \E m \in Manifests : FetchManifest(m)
    \/ Skip \/ Queue \/ Answer \/ Finished
    \/ \E d \in Blobs : Commit(d)

Spec == Init /\ [][Next]_vars

-----------------------------------------------------------------------------
(* Statement of a comment that the code does not keep *)

(* The walk passes over the children of a manifest list and over nothing    *)
(* else: every config and layer is considered for the cache.                *)
BlobsConsidered == skipped \cap Blobs = {}

=============================================================================

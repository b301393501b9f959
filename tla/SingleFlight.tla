---------------------------- MODULE SingleFlight ----------------------------
(***************************************************************************)
(* The blob route: proxy_blob and cached_blob_response of src/main.rs over *)
(* DiskCache::lookup and DiskCache::inflight_lock of src/cache.rs.         *)
(* Requests run concurrently; every await is a step of its own.  A request *)
(* that misses gets the digest's mutex from the in-flight map, waits for   *)
(* it, re-checks the cache and, if the blob is still missing, asks the     *)
(* upstream; the download it spawns keeps the guard until it has finished, *)
(* whether or not the client is still there.  What the download does with  *)
(* the files is module BlobDownload.                                       *)
(***************************************************************************)
EXTENDS Integers, FiniteSets

CONSTANTS
    Requests,   \* request slots
    Digests,    \* blobs asked for
    Locks,      \* identities of mutexes (Arc allocations)
    None,       \* no mutex, no digest
    Cap         \* size of the in-flight map above which it is pruned (4096)

ASSUME FlightAssumption ==
    /\ IsFiniteSet(Requests) /\ IsFiniteSet(Digests)
    /\ None \notin Locks \cup Digests
    /\ Cap \in Nat

VARIABLES
    pc,         \* where each request is
    dig,        \* the digest it asks for
    kind,       \* "get", "head", or "range" (a GET with a Range header)
    lockOf,     \* the mutex it holds an Arc of
    ahead,      \* the requests in front of it in the mutex's queue
    inflight,   \* the map from digests to mutexes
    cached      \* digests with a committed blob

vars == <<pc, dig, kind, lockOf, ahead, inflight, cached>>

(* The guard of the digest's mutex is held. *)
Guarded == {"recheck", "flighthit", "flightgone", "flightpass", "upstream", "download",
            "publish"}
(* In the mutex's queue; the owner is the one with nobody ahead. *)
Queued == {"wait"} \cup Guarded
(* Committed to fetching the blob. *)
Flying == {"upstream", "download", "publish"}
(* The handler still runs and is dropped when the client disconnects. *)
Handling == {"hit", "gone", "pass", "enter", "ref", "wait", "recheck", "flighthit",
             "flightgone", "flightpass", "upstream"}

Init ==
    /\ pc = [r \in Requests |-> "idle"]
    /\ dig = [r \in Requests |-> None]
    /\ kind = [r \in Requests |-> "get"]
    /\ lockOf = [r \in Requests |-> None]
    /\ ahead = [r \in Requests |-> {}]
    /\ inflight = [d \in Digests |-> None]
    /\ cached = {}

Goto(r, l) == pc' = [pc EXCEPT ![r] = l]

DoneLeaking(r) ==
    /\ Goto(r, "idle")
    /\ lockOf' = [lockOf EXCEPT ![r] = None]
    /\ dig' = [dig EXCEPT ![r] = None]
    /\ kind' = [kind EXCEPT ![r] = "get"]
    /\ UNCHANGED <<inflight, ahead>>

(* The response is complete or the handler was dropped: the guard, if any,  *)
(* is dropped, which hands the mutex to the next in the queue.              *)
Done(r) ==
    /\ Goto(r, "idle")
    /\ lockOf' = [lockOf EXCEPT ![r] = None]
    /\ ahead' = [s \in Requests |-> IF s = r THEN {} ELSE ahead[s] \ {r}]
    /\ dig' = [dig EXCEPT ![r] = None]
    /\ kind' = [kind EXCEPT ![r] = "get"]
    /\ UNCHANGED inflight

Step(r, l) == Goto(r, l) /\ UNCHANGED <<dig, kind, lockOf, ahead, inflight, cached>>

-----------------------------------------------------------------------------
(* A request arrives and looks into the cache. *)
Arrive(r, d, k) ==
    /\ pc[r] = "idle"
    /\ dig' = [dig EXCEPT ![r] = d]
    /\ kind' = [kind EXCEPT ![r] = k]
    /\ Goto(r, IF d \in cached THEN "hit" ELSE IF k = "range" THEN "pass" ELSE "enter")
    /\ UNCHANGED <<lockOf, ahead, inflight, cached>>

(* cached_blob_response: a HEAD needs no file; otherwise open the file,     *)
(* which eviction may have removed since the lookup.  (The second form runs *)
(* under the guard.)                                                        *)
Open(r) ==
    /\ pc[r] \in {"hit", "flighthit"}
    /\ \/ /\ kind[r] = "head" \/ dig[r] \in cached
          /\ Done(r) /\ UNCHANGED cached
       \/ /\ kind[r] # "head" /\ dig[r] \notin cached
          /\ Step(r, IF pc[r] = "hit" THEN "gone" ELSE "flightgone")

(* The file vanished: look again; if it is back answer 503, else ask the    *)
(* upstream and stream its answer past the cache.                           *)
LookAgain(r) ==
    /\ pc[r] \in {"gone", "flightgone"}
    /\ \/ dig[r] \in cached /\ Done(r) /\ UNCHANGED cached
       \/ /\ dig[r] \notin cached
          /\ Step(r, IF pc[r] = "gone" THEN "pass" ELSE "flightpass")

(* passthrough_registry: the answer, whatever it is, goes to the client. *)
PassThrough(r) ==
    /\ pc[r] \in {"pass", "flightpass"}
    /\ Done(r) /\ UNCHANGED cached

-----------------------------------------------------------------------------
(* inflight_lock *)

Referenced(l) == \E s \in Requests : lockOf[s] = l

(* retain drops the entries whose Arc nobody else holds (strong_count = 1). *)
PruneNothing(m) == m
Prune(m) ==
    IF Cardinality({d \in Digests : m[d] # None}) > Cap
      THEN [d \in Digests |-> IF Referenced(m[d]) THEN m[d] ELSE None]
      ELSE m

Fresh(m, l) == ~Referenced(l) /\ \A d \in Digests : m[d] # l

(* The entry of the digest, or a new mutex. *)
inflight_lock(r) ==
    /\ pc[r] = "enter"
    /\ LET m == Prune(inflight) IN
       \E l \in Locks :
          /\ IF m[dig[r]] # None THEN l = m[dig[r]] ELSE Fresh(m, l)
          /\ inflight' = [m EXCEPT ![dig[r]] = l]
          /\ lockOf' = [lockOf EXCEPT ![r] = l]
    /\ Goto(r, "ref")
    /\ UNCHANGED <<dig, kind, ahead, cached>>

(* lock_owned: tokio's mutex is first come, first served. *)
InQueue(l) == {s \in Requests : pc[s] \in Queued /\ lockOf[s] = l}

JumpQueue(r) == ahead' = [ahead EXCEPT ![r] = {}]
LineUp(r) == ahead' = [ahead EXCEPT ![r] = InQueue(lockOf[r])]

lock_owned(r) ==
    /\ pc[r] = "ref"
    /\ LineUp(r)
    /\ Goto(r, "wait")
    /\ UNCHANGED <<dig, kind, lockOf, inflight, cached>>

Acquired(r) ==
    /\ pc[r] = "wait" /\ ahead[r] = {}
    /\ Step(r, "recheck")

-----------------------------------------------------------------------------
(* Under the guard *)

(* Late arrivals re-check the cache. *)
NoSecondLook(r) == FALSE
FoundNow(r) == dig[r] \in cached

Recheck(r) ==
    /\ pc[r] = "recheck"
    /\ Step(r, IF FoundNow(r) THEN "flighthit" ELSE "upstream")

(* No URL, no answer, a status that is not a success, or a HEAD: the        *)
(* answer is streamed to the client without the guard.                      *)
NotFetched(r) ==
    /\ pc[r] = "upstream"
    /\ Done(r) /\ UNCHANGED cached

(* The body will be fetched by a spawned task that takes the guard along    *)
(* (chunks::download, or tee_blob_to_cache for a request with credentials   *)
(* or an answer without a length).                                          *)
Spawn(r) ==
    /\ pc[r] = "upstream" /\ kind[r] # "head"
    /\ Step(r, "download")

(* rename() *)
Commit(r) ==
    /\ pc[r] = "download"
    /\ cached' = cached \cup {dig[r]}
    /\ Goto(r, "publish")
    /\ UNCHANGED <<dig, kind, lockOf, ahead, inflight>>

(* The download failed, or has cleaned up and run DiskCache::committed. *)
TaskEnds(r) ==
    /\ pc[r] \in {"download", "publish"}
    /\ Done(r) /\ UNCHANGED cached

-----------------------------------------------------------------------------
(* The client disconnects while the handler runs: the handler's future is   *)
(* dropped at its current await.                                            *)
Disconnect(r) ==
    /\ pc[r] \in Handling
    /\ Done(r) /\ UNCHANGED cached

Evict(d) ==
    /\ d \in cached
    /\ cached' = cached \ {d}
    /\ UNCHANGED <<pc, dig, kind, lockOf, ahead, inflight>>

Handler(r) ==
    \/ Open(r) \/ LookAgain(r) \/ PassThrough(r)
    \/ inflight_lock(r) \/ lock_owned(r) \/ Acquired(r)
    \/ Recheck(r) \/ NotFetched(r) \/ Spawn(r) \/ Commit(r) \/ TaskEnds(r)

Next ==
    \/ \E r \in Requests :
          \/ \E d \in Digests, k \in {"get", "head", "range"} : Arrive(r, d, k)
          \/ Handler(r) \/ Disconnect(r)
    \/ \E d \in Digests : Evict(d)

Spec == Init /\ [][Next]_vars

(* Handlers and download tasks run; upstreams answer or time out; a         *)
(* download ends (BlobDownload's AttemptEnds, whose exception is left out   *)
(* here: a client that neither reads nor closes).                           *)
Fairness == \A r \in Requests : WF_vars(Handler(r))

FairSpec == Spec /\ Fairness

-----------------------------------------------------------------------------
(* Properties *)

PCs == {"idle", "hit", "gone", "pass", "enter", "ref"} \cup Queued

(* The state is well formed. *)
TypeOK ==
    /\ pc \in [Requests -> PCs]
    /\ dig \in [Requests -> Digests \cup {None}]
    /\ \A r \in Requests : dig[r] = None <=> pc[r] = "idle"
    /\ kind \in [Requests -> {"get", "head", "range"}]
    /\ lockOf \in [Requests -> Locks \cup {None}]
    /\ ahead \in [Requests -> SUBSET Requests]
    /\ inflight \in [Digests -> Locks \cup {None}]
    /\ cached \in SUBSET Digests

(* No two requests hold the guard of one digest, although the map forgets   *)
(* mutexes when it is full and hands out new ones under old keys.           *)
OneFlight ==
    \A r, s \in Requests :
        r # s /\ pc[r] \in Guarded /\ pc[s] \in Guarded => dig[r] # dig[s]

(* Why: a mutex somebody holds an Arc of is still the map's entry for the   *)
(* digest, the map gives every digest its own mutex, and of two requests in *)
(* one queue one is behind the other.                                       *)
HeldIsMapped ==
    \A r \in Requests :
        /\ pc[r] \in {"ref"} \cup Queued => lockOf[r] # None
        /\ lockOf[r] # None => pc[r] \in {"ref"} \cup Queued /\ lockOf[r] = inflight[dig[r]]

OwnMutex ==
    \A d, e \in Digests : d # e /\ inflight[d] # None => inflight[d] # inflight[e]

QueueOrdered ==
    \A r, s \in Requests :
        /\ s \in ahead[r] => pc[s] \in Queued /\ lockOf[s] = lockOf[r] /\ r # s
        /\ r # s /\ pc[r] \in Queued /\ pc[s] \in Queued /\ lockOf[r] = lockOf[s] =>
              r \in ahead[s] \/ s \in ahead[r]

GuardedFirst == \A r \in Requests : pc[r] \in Guarded \cup {"idle"} => ahead[r] = {}

(* Nobody publishes the blob but the flight: until it does, the blob is     *)
(* missing, so no download is started or finished for nothing.              *)
NotYetCached ==
    \A r \in Requests : pc[r] \in {"upstream", "download"} => dig[r] \notin cached

(* The inductive invariant behind OneFlight. *)
FlightInv == HeldIsMapped /\ OwnMutex /\ QueueOrdered /\ GuardedFirst /\ NotYetCached

(* The in-flight map does not grow with the number of digests ever asked    *)
(* for, only with the cap and the requests at hand.                         *)
MapBounded ==
    LET size == Cardinality({d \in Digests : inflight[d] # None}) IN
    size <= Cap + 1 \/ size <= Cardinality(Requests)

F == INSTANCE Flight WITH
       flying <- {d \in Digests : \E r \in Requests : pc[r] \in Flying /\ dig[r] = d}

(* For every digest the route keeps the promise of the single flight.       *)
ImplementsFlight == F!Spec

(* Every request is answered: nobody waits for ever in a mutex's queue.     *)
Answered == \A r \in Requests : []<>(pc[r] = "idle")

=============================================================================

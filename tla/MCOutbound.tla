----------------------------- MODULE MCOutbound -----------------------------
(* Requests to upstreams, the registry of running downloads and the pool    *)
(* of sources: no shared state, so a behaviour moves one of them and leaves *)
(* the others at rest, where no step of theirs whose fairness is assumed is *)
(* enabled.                                                                 *)
EXTENDS Upstream

CONSTANTS Digests, MaxHandles, First, Reachable, Reporters, MaxCount, MaxOutages, Aborts

VARIABLES
    part,       \* the component that moves
    task, own, listed, drops, made, viewed,
    stats, weights, live, point, src, todo, snap, up, outages, cut

Registry == INSTANCE ActiveDownloads
Pool == INSTANCE SourcePool WITH pc <- point

ASSUME PoolAssumption == Pool!PoolAssumption

registry == <<task, own, listed, drops, made, viewed>>
pool == <<stats, weights, live, point, src, todo, snap, up, outages, cut>>

AllInit ==
    /\ part \in {"tokens", "redirects", "registry", "pool"}
    /\ Init /\ Registry!Init /\ Pool!Init

(* Requests are looked at twice: chunks that succeed at once share the      *)
(* token cache while time passes (to the cache a retry is like another      *)
(* chunk); and all requests follow redirects and are tried again while the  *)
(* clock stands still, since neither depends on the time.                   *)
Direct == \A r \in Requests : kind'[r] = "chunk" /\ hops'[r] = 0 /\ tries'[r] = 0

AllNext ==
    \/ part = "tokens" /\ Next /\ Direct /\ UNCHANGED <<part, registry, pool>>
    \/ part = "redirects" /\ Next /\ now' = now /\ UNCHANGED <<part, registry, pool>>
    \/ part = "registry" /\ Registry!Next /\ UNCHANGED <<part, vars, pool>>
    \/ part = "pool" /\ Pool!Next /\ UNCHANGED <<part, vars, registry>>

(* Of the pool: tasks run, probes time out and timers fire; tokio's RwLock  *)
(* is fair, so a prober is not kept out by readers for ever.  A chunk's     *)
(* fetch need not end.                                                      *)
PoolFairness ==
    /\ \A p \in Pool!Probers : SF_pool(part = "pool" /\ Pool!Step(p))
    /\ \A r \in Reporters : WF_pool(part = "pool" /\ Pool!Recompute(r))

AllSpec ==
    /\ AllInit /\ [][AllNext]_<<part, vars, registry, pool>>
    /\ Fairness /\ Registry!Fairness /\ PoolFairness

-----------------------------------------------------------------------------
(* Properties, stated and explained in the components' modules *)

(* A running download is listed: see module ActiveDownloads. *)
ListedWhileRunning == Registry!ListedWhileRunning
(* One that has ended is not, in the end. *)
EntriesGo == Registry!EntriesGo
(* The weights are those of the statistics: see module SourcePool. *)
WeightsFollowStats == Pool!WeightsFollowStats
(* A source that is back gets a weight. *)
SourceRecovers == Pool!SourceRecovers
(* The prober of a pool that nobody has any more stops. *)
ProberEnds == Pool!ProberEnds
=============================================================================

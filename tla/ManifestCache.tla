---------------------------- MODULE ManifestCache ----------------------------
(***************************************************************************)
(* The manifest route: proxy_manifest of src/main.rs over ManifestCache of *)
(* src/cache.rs.  Manifests are mutable at the upstream (a tag moves), so  *)
(* entries expire; they are kept apart by the Authorization header they    *)
(* were fetched with; and the map is bounded by a number of entries and by *)
(* a number of bytes.  The map is behind a mutex, but a miss is fetched    *)
(* without it: several requests may fetch one manifest and put it in any   *)
(* order, and clear may come in between.                                   *)
(***************************************************************************)
EXTENDS Integers, FiniteSets, FiniteSetsExt

CONSTANTS
    Requests,       \* request slots
    Paths,          \* registry prefix and path (and Accept header)
    Identities,     \* Authorization headers, by fingerprint
    Private,        \* the paths that need a credential ...
    Trusted,        \* ... and the identities that have it
    NoEntry,        \* no manifest under a key, no request in a slot
    TTL,            \* MANIFEST_TTL
    MaxEntries,     \* max_entries
    MaxBytes,       \* MANIFEST_CACHE_MAX_MB
    MaxFetch,       \* longest time an upstream takes to answer
    MaxVersion,     \* bound: versions of a manifest; version v has v bytes
    MaxTime         \* bound: the clock

ASSUME ManifestAssumption ==
    /\ Private \subseteq Paths /\ Trusted \subseteq Identities
    /\ {TTL, MaxEntries, MaxBytes, MaxFetch, MaxTime} \subseteq Nat
    /\ MaxVersion \in Nat \ {0}
    /\ IsFiniteSet(Paths) /\ IsFiniteSet(Identities)
    /\ NoEntry \notin [ver : Nat, stored : Nat]

VARIABLES
    now,        \* the clock
    version,    \* of each path: the current version at the upstream
    retired,    \* of each path and version: when it was superseded
    entries,    \* the map
    bytes,      \* the atomic byte counter next to it
    pc, path, ident, head, begun, got     \* of each request

cache == <<entries, bytes>>
upstream == <<version, retired>>
request == <<pc, path, ident, head, begun, got>>
vars == <<now, cache, upstream, request>>

Keys == Paths \X Identities
Versions == 1 .. MaxVersion

Init ==
    /\ now = 0
    /\ version = [p \in Paths |-> 1]
    /\ retired = [p \in Paths |-> [v \in Versions |-> 0]]
    /\ entries = [k \in Keys |-> NoEntry]
    /\ bytes = 0
    /\ pc = [r \in Requests |-> "idle"]
    /\ path = [r \in Requests |-> NoEntry] /\ ident = [r \in Requests |-> NoEntry]
    /\ head = [r \in Requests |-> FALSE]
    /\ begun = [r \in Requests |-> 0] /\ got = [r \in Requests |-> 1]

(* What the upstream grants. *)
Allowed(a, p) == p \in Private => a \in Trusted

(* The key of the cache: never shared across Authorization identities. *)
KeyOfPath(p, a) == <<p, CHOOSE b \in Identities : TRUE>>
Key(p, a) == <<p, a>>

FreshForEver(e) == TRUE
Fresh(e) == now - e.stored < TTL

Usable(e) == IF e = NoEntry THEN FALSE ELSE Fresh(e)

Goto(r, l) == pc' = [pc EXCEPT ![r] = l]

-----------------------------------------------------------------------------
(* A request: get *)
Ask(r, p, a, h) ==
    /\ pc[r] = "idle"
    /\ path' = [path EXCEPT ![r] = p] /\ ident' = [ident EXCEPT ![r] = a]
    /\ head' = [head EXCEPT ![r] = h]
    /\ begun' = [begun EXCEPT ![r] = now]
    /\ LET e == entries[Key(p, a)] IN
       IF Usable(e)
         THEN Goto(r, "serve") /\ got' = [got EXCEPT ![r] = e.ver]
         ELSE Goto(r, "fetch") /\ UNCHANGED got
    /\ UNCHANGED <<now, cache, upstream>>

(* fetch_following_redirects: an error, a 401 or another status is passed   *)
(* on; a HEAD is answered without being cached.                             *)
Fetched(r) ==
    /\ pc[r] = "fetch"
    /\ \/ Goto(r, "refused") /\ UNCHANGED got
       \/ /\ Allowed(ident[r], path[r])
          /\ got' = [got EXCEPT ![r] = version[path[r]]]
          /\ Goto(r, IF head[r] THEN "serve" ELSE "put")
    /\ UNCHANGED <<now, cache, upstream, path, ident, head, begun>>

(* put *)
Retained == [k \in Keys |-> IF Usable(entries[k]) THEN entries[k] ELSE NoEntry]
Present(m) == {k \in Keys : m[k] # NoEntry}
Size(m, k) == IF m[k] = NoEntry THEN 0 ELSE m[k].ver
BytesOf(m) == MapThenSumSet(LAMBDA k : Size(m, k), Keys)

NextBytes(m, k, n) == BytesOf(m) - Size(m, k) + n

FullOfEntries(m, k, n) == Cardinality(Present(m)) >= MaxEntries
Full(m, k, n) == Cardinality(Present(m)) >= MaxEntries \/ NextBytes(m, k, n) > MaxBytes

Put(r) ==
    /\ pc[r] = "put"
    /\ LET k == Key(path[r], ident[r])
           n == got[r]
           m == Retained
           e == [ver |-> n, stored |-> now]
       IN  IF n > MaxBytes
             THEN UNCHANGED cache
             ELSE IF Full(m, k, n)
               THEN /\ entries' = [j \in Keys |-> IF j = k THEN e ELSE NoEntry]
                    /\ bytes' = n
               ELSE /\ entries' = [m EXCEPT ![k] = e]
                    /\ bytes' = NextBytes(m, k, n)
    /\ Goto(r, "serve")
    /\ UNCHANGED <<now, upstream, path, ident, head, begun, got>>

Respond(r) ==
    /\ pc[r] \in {"serve", "refused"}
    /\ Goto(r, "idle")
    /\ begun' = [begun EXCEPT ![r] = 0] /\ got' = [got EXCEPT ![r] = 1]
    /\ path' = [path EXCEPT ![r] = NoEntry] /\ ident' = [ident EXCEPT ![r] = NoEntry]
    /\ head' = [head EXCEPT ![r] = FALSE]
    /\ UNCHANGED <<now, cache, upstream>>

Clear ==
    /\ entries' = [k \in Keys |-> NoEntry] /\ bytes' = 0
    /\ UNCHANGED <<now, upstream, request>>

-----------------------------------------------------------------------------
(* The upstream moves a tag; time passes, but no fetch outlives MaxFetch. *)
Publish(p) ==
    /\ version[p] < MaxVersion
    /\ version' = [version EXCEPT ![p] = @ + 1]
    /\ retired' = [retired EXCEPT ![p][version[p]] = now]
    /\ UNCHANGED <<now, cache, request>>

Tick ==
    /\ now < MaxTime
    /\ \A r \in Requests : /\ pc[r] \notin {"serve", "refused"}
                           /\ pc[r] \in {"fetch", "put"} => now - begun[r] < MaxFetch
    /\ now' = now + 1
    /\ UNCHANGED <<cache, upstream, request>>

Next ==
    \/ \E r \in Requests :
          \/ \E p \in Paths, a \in Identities, h \in BOOLEAN : Ask(r, p, a, h)
          \/ Fetched(r) \/ Put(r) \/ Respond(r)
    \/ Clear \/ Tick
    \/ \E p \in Paths : Publish(p)

Spec == Init /\ [][Next]_vars

-----------------------------------------------------------------------------
(* Properties *)

(* A manifest that is served was current at the upstream less than TTL and  *)
(* one fetch ago, although a slow fetch may put an old version over a newer *)
(* one and restart its clock; with a TTL of 0 it was one fetch ago.         *)
StalenessBounded ==
    \A r \in Requests : pc[r] = "serve" /\ got[r] # version[path[r]] =>
        LET age == now - retired[path[r]][got[r]]
        IN  age < TTL + MaxFetch \/ age <= MaxFetch

(* Nobody is served a manifest the upstream would not give them. *)
NoLeak == \A r \in Requests : pc[r] = "serve" => Allowed(ident[r], path[r])

(* The byte counter is the size of what the map holds, however entries were *)
(* replaced, pruned or cleared, and the map respects both of its limits.    *)
MapWithinLimits ==
    /\ bytes = BytesOf(entries) /\ bytes <= MaxBytes
    /\ Cardinality(Present(entries)) <= MaxEntries \/ Cardinality(Present(entries)) = 1

=============================================================================

------------------------------ MODULE Upstream ------------------------------
(***************************************************************************)
(* Requests that leave the gateway.  A chunk task asks blob_token of       *)
(* src/sources.rs for the source's anonymous token and follows redirects   *)
(* by itself (fetch_chunk of src/chunks.rs); registry and GitHub requests  *)
(* of clients go through fetch_following_redirects of src/main.rs.  The    *)
(* token cache is shared and its mutex is not held during a fetch.  Time   *)
(* is in units of 15 seconds; URLs are reduced to their hosts.             *)
(***************************************************************************)
EXTENDS Integers, FiniteSets

CONSTANTS
    Requests,       \* slots for chunk tasks and proxied requests
    Sources,        \* hosts of the source pool, edited at run time ...
    Anonymous,      \* ... and those of them without a token_url
    Registries,     \* hosts of the two configured registries
    RegistryHosts,  \* allowed_registry_hosts, fixed when the process starts
    GithubHosts,    \* GITHUB_HOSTS
    Strangers,      \* any other host
    NoHost,         \* an idle slot has none
    Lifetimes,      \* what a token service gives as expires_in, and keeps to
    Unstated,       \* how long a token lives whose service gives no number
    DefaultLife,    \* unwrap_or(300)
    Margin, Floor,  \* saturating_sub(30), max(30)
    MaxFetch,       \* the longest time a token travels; its head has 15 seconds, its body any time
    MaxConnect,     \* the longest time from obtaining a token to sending it: connecting
    Cap,            \* 4096 entries
    ChunkHops,      \* MAX_REDIRECTS of fetch_chunk (5)
    ProxyHops,      \* MAX_REDIRECTS of the environment (8)
    MaxRetries,     \* MAX_CHUNK_RETRIES (3)
    MaxTime         \* bound: the clock

ASSUME UpstreamAssumption ==
    /\ Anonymous \subseteq Sources /\ Registries \subseteq RegistryHosts
    /\ NoHost \notin Sources \cup RegistryHosts \cup GithubHosts \cup Strangers
    /\ {Margin, Floor, MaxFetch, MaxConnect, Cap, ChunkHops, ProxyHops, MaxRetries, MaxTime} \subseteq Nat
    /\ Lifetimes \cup Unstated \cup {DefaultLife} \subseteq Nat \ {0}
    /\ Floor > 0

VARIABLES
    now,
    cache,      \* token_cache, by source: [token, expires]
    pc,         \* of each slot: "idle", "pick", "ask", "answer", "send" or "wire"
    kind,       \* "chunk", "registry" or "github"
    home,       \* the host its credential is for
    at,         \* the host it is talking to
    auth,       \* the next request carries the credential
    hops, tries,
    begun,      \* since when it asks for its token, or has it
    token       \* the token just obtained: [dies, life], dies 0 stands for none;
                \* life is what its service says, NotStated if it does not

tokens == <<begun, token>>
slot == <<kind, home, at, auth, hops, tries>>
vars == <<now, cache, pc, slot, tokens>>

Hosts == Sources \cup RegistryHosts \cup GithubHosts \cup Strangers
NotStated == 0
NoToken == [dies |-> 0, life |-> 0]
NoEntry == [token |-> NoToken, expires |-> 0]

Init ==
    /\ now = 1
    /\ cache = [s \in Sources |-> NoEntry]
    /\ pc = [r \in Requests |-> "idle"] /\ kind = [r \in Requests |-> "chunk"]
    /\ home = [r \in Requests |-> NoHost] /\ at = [r \in Requests |-> NoHost]
    /\ auth = [r \in Requests |-> FALSE]
    /\ hops = [r \in Requests |-> 0] /\ tries = [r \in Requests |-> 0]
    /\ begun = [r \in Requests |-> 0] /\ token = [r \in Requests |-> NoToken]

Goto(r, l) == pc' = [pc EXCEPT ![r] = l]

Finish(r) ==
    /\ Goto(r, "idle") /\ kind' = [kind EXCEPT ![r] = "chunk"]
    /\ home' = [home EXCEPT ![r] = NoHost] /\ at' = [at EXCEPT ![r] = NoHost]
    /\ auth' = [auth EXCEPT ![r] = FALSE]
    /\ hops' = [hops EXCEPT ![r] = 0] /\ tries' = [tries EXCEPT ![r] = 0]

-----------------------------------------------------------------------------
(* blob_token *)

Unexpired(e) == now < e.expires

StartChunk(r) ==
    /\ pc[r] = "idle" /\ Goto(r, "pick")
    /\ UNCHANGED <<now, cache, slot, tokens>>

(* An attempt: pick a source (module SourcePool), look for its token. *)
blob_token(r, s) ==
    /\ pc[r] = "pick"
    /\ home' = [home EXCEPT ![r] = s] /\ at' = [at EXCEPT ![r] = s]
    /\ hops' = [hops EXCEPT ![r] = 0]
    /\ \/ /\ s \in Anonymous
          /\ auth' = [auth EXCEPT ![r] = FALSE] /\ Goto(r, "send") /\ UNCHANGED tokens
       \/ /\ s \notin Anonymous /\ Unexpired(cache[s])
          /\ auth' = [auth EXCEPT ![r] = TRUE]
          /\ token' = [token EXCEPT ![r] = cache[s].token]
          /\ begun' = [begun EXCEPT ![r] = now]
          /\ Goto(r, "send")
       \/ /\ s \notin Anonymous /\ ~Unexpired(cache[s])
          /\ begun' = [begun EXCEPT ![r] = now]
          /\ Goto(r, "ask") /\ UNCHANGED <<auth, token>>
    /\ UNCHANGED <<now, cache, kind, tries>>

(* The token service issues a token, ... *)
Issue(r, life, lives) ==
    /\ pc[r] = "ask"
    /\ token' = [token EXCEPT ![r] = [dies |-> now + lives, life |-> life]]
    /\ Goto(r, "answer")
    /\ UNCHANGED <<now, cache, slot, begun>>

(* ... or the fetch fails or times out: the chunk goes out without one. *)
NoAnswer(r) ==
    /\ pc[r] \in {"ask", "answer"}
    /\ auth' = [auth EXCEPT ![r] = FALSE]
    /\ begun' = [begun EXCEPT ![r] = 0] /\ token' = [token EXCEPT ![r] = NoToken]
    /\ Goto(r, "send")
    /\ UNCHANGED <<now, cache, kind, home, at, hops, tries>>

expires_in(life) == IF life = NotStated THEN DefaultLife ELSE life

ttl_full(life) == IF expires_in(life) < Floor THEN Floor ELSE expires_in(life)
ttl(life) == IF expires_in(life) < Margin + Floor THEN Floor ELSE expires_in(life) - Margin

(* It arrives: prune a large map, insert. *)
Retained ==
    IF Cardinality({s \in Sources : cache[s] # NoEntry}) > Cap
      THEN [s \in Sources |-> IF Unexpired(cache[s]) THEN cache[s] ELSE NoEntry]
      ELSE cache

Insert(r) ==
    /\ pc[r] = "answer"
    /\ cache' = [Retained EXCEPT ![home[r]] =
                    [token |-> token[r], expires |-> now + ttl(token[r].life)]]
    /\ auth' = [auth EXCEPT ![r] = TRUE]
    /\ begun' = [begun EXCEPT ![r] = now]
    /\ Goto(r, "send")
    /\ UNCHANGED <<now, kind, home, at, hops, tries, token>>

-----------------------------------------------------------------------------
(* fetch_chunk, fetch_following_redirects *)

(* A client's request.  copy_request_headers forwards Authorization to      *)
(* registries only.                                                         *)
StartProxied(r, k, h, a) ==
    /\ pc[r] = "idle"
    /\ kind' = [kind EXCEPT ![r] = k]
    /\ home' = [home EXCEPT ![r] = h] /\ at' = [at EXCEPT ![r] = h]
    /\ auth' = [auth EXCEPT ![r] = a]
    /\ Goto(r, "send")
    /\ UNCHANGED <<now, cache, hops, tries, tokens>>

(* validate_registry_url, validate_upstream_url; a chunk checks its next    *)
(* host only when it differs from the present one.                          *)
MayVisit(r, h) ==
    \/ kind[r] = "registry" /\ h \in RegistryHosts
    \/ kind[r] = "github" /\ h \in GithubHosts
    \/ kind[r] = "chunk" /\ (h = at[r] \/ h \in RegistryHosts)

Send(r) ==
    /\ pc[r] = "send"
    /\ Goto(r, "wire")
    /\ begun' = [begun EXCEPT ![r] = 0] /\ token' = [token EXCEPT ![r] = NoToken]
    /\ UNCHANGED <<now, cache, slot>>

Limit(r) == IF kind[r] = "chunk" THEN ChunkHops ELSE ProxyHops

KeepAuth(r, h) == auth[r]
NextAuth(r, h) == auth[r] /\ h = at[r]

SameHops(r) == hops[r]
NextHops(r) == hops[r] + 1

(* A 301, 302, 303, 307 or 308 with a Location; fetch_chunk takes any 3xx.  *)
Redirect(r, h) ==
    /\ pc[r] = "wire"
    /\ hops[r] < Limit(r) /\ MayVisit(r, h)
    /\ auth' = [auth EXCEPT ![r] = NextAuth(r, h)]
    /\ at' = [at EXCEPT ![r] = h]
    /\ hops' = [hops EXCEPT ![r] = NextHops(r)]
    /\ Goto(r, "send")
    /\ UNCHANGED <<now, cache, kind, home, tries, tokens>>

(* The loop ends: an error is the answer to the client (502), or the chunk  *)
(* is tried again, from any source.                                         *)
Fail(r) ==
    /\ \/ /\ kind[r] = "chunk" /\ tries[r] < MaxRetries
          /\ tries' = [tries EXCEPT ![r] = @ + 1]
          /\ home' = [home EXCEPT ![r] = NoHost] /\ at' = [at EXCEPT ![r] = NoHost]
          /\ auth' = [auth EXCEPT ![r] = FALSE] /\ hops' = [hops EXCEPT ![r] = 0]
          /\ Goto(r, "pick")
          /\ UNCHANGED kind
       \/ (kind[r] = "chunk" => tries[r] >= MaxRetries) /\ Finish(r)
    /\ UNCHANGED <<now, cache, tokens>>

(* A redirect that is not followed (too many of them, another host, another *)
(* status, no Location), a timeout or a broken connection; for a chunk also *)
(* a status or a Content-Range it does not take.                            *)
Break(r) == pc[r] = "wire" /\ Fail(r)

Answer(r) == pc[r] = "wire" /\ Finish(r) /\ UNCHANGED <<now, cache, tokens>>

(* Time passes: while a token is fetched, while the connection is made on   *)
(* which it will be sent, and anywhere else.                                *)
Tick ==
    /\ now < MaxTime
    /\ \A r \in Requests :
          /\ pc[r] \in {"ask", "answer"} => now - begun[r] < MaxFetch
          /\ pc[r] = "send" /\ token[r] # NoToken => now - begun[r] < MaxConnect
    /\ now' = now + 1
    /\ UNCHANGED <<cache, pc, slot, tokens>>

Proxied(r) ==
    \/ \E h \in Registries, a \in BOOLEAN : StartProxied(r, "registry", h, a)
    \/ \E h \in GithubHosts : StartProxied(r, "github", h, FALSE)

FetchToken(r) ==
    \/ \E s \in Sources : blob_token(r, s)
    \/ \E life \in Lifetimes : Issue(r, life, life)
    \/ \E lives \in Unstated : Issue(r, NotStated, lives)
    \/ NoAnswer(r) \/ Insert(r)

Fetch(r) ==
    Send(r) \/ Break(r) \/ Answer(r) \/ \E h \in Hosts : Redirect(r, h)

Next ==
    \/ \E r \in Requests : StartChunk(r) \/ Proxied(r) \/ FetchToken(r) \/ Fetch(r)
    \/ Tick

Spec == Init /\ [][Next]_vars

(* Every wait has a timeout: 15 seconds for the head of a token's answer,   *)
(* CHUNK_TIMEOUT for that of a chunk's, 1800 seconds without a byte for     *)
(* anything else; bodies that trickle for ever are left out.                *)
Fairness == \A r \in Requests : WF_vars(FetchToken(r) \/ Fetch(r))

FairSpec == Spec /\ Fairness

-----------------------------------------------------------------------------
(* Properties *)

(* Whatever chain of redirects the upstreams send, a request only goes to   *)
(* its first host and to allowed ones, and its credential only to the host  *)
(* it is for, also when the chain leads back to it.                         *)
StaysInBounds ==
    \A r \in Requests : pc[r] = "wire" =>
        /\ at[r] = home[r] \/ at[r] \in RegistryHosts \cup GithubHosts
        /\ auth[r] => at[r] = home[r]

(* The token of a chunk's first request is alive when it is sent, also one  *)
(* that travelled slowly, was cached, is read in its last moment and waits  *)
(* for a connection, if its service says how long it lives, that is at      *)
(* least the floor of 30 seconds and those two delays, and the delays fit   *)
(* into the margin of 30 seconds.                                           *)
Promised(t) == t.life >= Floor + MaxFetch + MaxConnect

TokenAlive ==
    MaxFetch + MaxConnect <= Margin =>
        \A r \in Requests : pc[r] = "send" /\ Promised(token[r]) => now < token[r].dies

(* "Tokens are cached per (source, repository) until shortly before expiry" *)
(* (the comment above blob_token): one that the cache hands out is alive.   *)
CachedUntilExpiry == \A s \in Sources : Unexpired(cache[s]) => now < cache[s].token.dies

(* Every request ends, however the upstreams redirect it.                   *)
FetchEnds == \A r \in Requests : []<>(pc[r] = "idle")

=============================================================================

--------------------------- MODULE OutboundProofs ---------------------------
(***************************************************************************)
(* Proofs about Upstream, ActiveDownloads and SourcePool, for any number   *)
(* of requests, hosts, digests, token lifetimes, limits, chunk tasks,      *)
(* outages and reports.                                                    *)
(***************************************************************************)
EXTENDS MCOutbound, TLAPS

-----------------------------------------------------------------------------
(* Redirects *)

(* In every state, not only on the wire: a request is at its first host or  *)
(* at an allowed one, and one that has left its first host has no           *)
(* credential any more.                                                     *)
Bounds ==
    /\ at \in [Requests -> Hosts \cup {NoHost}] /\ home \in [Requests -> Hosts \cup {NoHost}]
    /\ auth \in [Requests -> BOOLEAN]
    /\ pc \in [Requests -> {"idle", "pick", "ask", "answer", "send", "wire"}]
    /\ \A r \in Requests :
          /\ at[r] = home[r] \/ at[r] \in RegistryHosts \cup GithubHosts
          /\ auth[r] => at[r] = home[r]
          /\ pc[r] \in {"ask", "answer"} => at[r] = home[r] /\ home[r] \in Sources

(* Starting a request or an attempt puts it at its first host; a redirect   *)
(* that changes the host drops the credential for good.                     *)
LEMMA BoundsNext == Bounds /\ [Next]_vars => Bounds'
  <1>. SUFFICES ASSUME Bounds, [Next]_vars  PROVE Bounds'
    OBVIOUS
  <1>. USE UpstreamAssumption DEF UpstreamAssumption
  <1>1. ASSUME NEW r \in Requests, StartChunk(r) \/ Send(r)  PROVE Bounds'
    BY <1>1 DEF StartChunk, Send, Goto, slot, Bounds
  <1>2. ASSUME NEW r \in Requests, Proxied(r)  PROVE Bounds'
    <2>1. ASSUME NEW k, NEW h \in Hosts, NEW a \in BOOLEAN, StartProxied(r, k, h, a)  PROVE Bounds'
      BY <2>1 DEF StartProxied, Goto, Bounds
    <2>. QED  BY <1>2, <2>1 DEF Proxied, Hosts
  <1>3. ASSUME NEW r \in Requests, NEW s \in Sources, blob_token(r, s)  PROVE Bounds'
    <2>1. /\ home' = [home EXCEPT ![r] = s] /\ at' = [at EXCEPT ![r] = s] /\ s \in Hosts
          /\ \/ auth' = [auth EXCEPT ![r] = FALSE] \/ auth' = [auth EXCEPT ![r] = TRUE]
             \/ auth' = auth
          /\ pc' = [pc EXCEPT ![r] = "send"] \/ pc' = [pc EXCEPT ![r] = "ask"]
      BY <1>3 DEF blob_token, Goto, Hosts
    <2>. QED  BY <2>1 DEF Bounds
  <1>4. ASSUME NEW r \in Requests, NEW life, NEW lives, Issue(r, life, lives)  PROVE Bounds'
    BY <1>4 DEF Issue, Goto, slot, Bounds
  <1>5. ASSUME NEW r \in Requests, NoAnswer(r) \/ Insert(r)  PROVE Bounds'
    BY <1>5 DEF NoAnswer, Insert, Goto, Bounds
  <1>6. ASSUME NEW r \in Requests, Break(r) \/ Answer(r)  PROVE Bounds'
    <2>1. /\ home' = [home EXCEPT ![r] = NoHost] /\ at' = [at EXCEPT ![r] = NoHost]
          /\ auth' = [auth EXCEPT ![r] = FALSE]
          /\ pc' = [pc EXCEPT ![r] = "pick"] \/ pc' = [pc EXCEPT ![r] = "idle"]
      BY <1>6 DEF Break, Answer, Fail, Finish, Goto
    <2>. QED  BY <2>1 DEF Bounds
  <1>7. ASSUME NEW r \in Requests, NEW h \in Hosts, Redirect(r, h)  PROVE Bounds'
    <2>1. h = at[r] \/ h \in RegistryHosts \cup GithubHosts
      BY <1>7 DEF Redirect, MayVisit
    <2>2. /\ UNCHANGED home /\ at' = [at EXCEPT ![r] = h]
          /\ auth' = [auth EXCEPT ![r] = auth[r] /\ h = at[r]]
          /\ pc' = [pc EXCEPT ![r] = "send"]
      BY <1>7 DEF Redirect, NextAuth, Goto
    <2>3. auth' \in [Requests -> BOOLEAN]
      BY <2>2 DEF Bounds
    <2>. QED  BY <2>1, <2>2, <2>3 DEF Bounds
  <1>8. CASE Tick \/ UNCHANGED vars
    BY <1>8 DEF Tick, vars, slot, Bounds
  <1>. QED  BY <1>1, <1>2, <1>3, <1>4, <1>5, <1>6, <1>7, <1>8 DEF Next, FetchToken, Fetch

(* However the upstreams redirect it, a request only goes to its first host *)
(* and to allowed ones, and its credential only to the host it is for.      *)
THEOREM RedirectsStayInBounds == Spec => []StaysInBounds
  <1>1. Init => Bounds
    BY DEF Init, Bounds
  <1>2. Bounds => StaysInBounds
    BY DEF Bounds, StaysInBounds
  <1>. QED  BY <1>1, <1>2, BoundsNext, PTL DEF Spec

-----------------------------------------------------------------------------
(* Tokens *)

Tokens == [dies : Nat, life : Nat]
Entries == [token : Tokens, expires : Nat]

TokenTypes ==
    /\ now \in Nat
    /\ cache \in [Sources -> Entries]
    /\ token \in [Requests -> Tokens] /\ begun \in [Requests -> Nat]

(* The fetch of a token has not lasted longer than it may, and the token    *)
(* was issued during it; a request has one only between Issue and Send, and *)
(* one it is about to send outlives the making of the connection.           *)
SlotTokens ==
    \A r \in Requests :
        /\ pc[r] \in {"ask", "answer"} => begun[r] <= now /\ now <= begun[r] + MaxFetch
        /\ pc[r] = "answer" => token[r].dies >= begun[r] + token[r].life
        /\ pc[r] \notin {"answer", "send"} => token[r] = NoToken
        /\ pc[r] = "send" /\ Promised(token[r]) =>
              /\ begun[r] <= now /\ now <= begun[r] + MaxConnect
              /\ begun[r] + MaxConnect < token[r].dies

(* A cached token outlives its entry, and the making of a connection. *)
CachedTokens ==
    \A s \in Sources :
        Promised(cache[s].token) => cache[s].expires + MaxConnect <= cache[s].token.dies

TokenInv == Bounds /\ TokenTypes /\ SlotTokens /\ CachedTokens

(* A token that was issued while it was fetched is cached no longer than it *)
(* lives: the margin covers the time it travelled, and a connection's.      *)
LEMMA TtlFits ==
    ASSUME UpstreamAssumption, MaxFetch + MaxConnect <= Margin,
           NEW n \in Nat, NEW b \in Nat, NEW t \in Tokens,
           n <= b + MaxFetch, t.dies >= b + t.life, Promised(t)
    PROVE  n + ttl(t.life) + MaxConnect <= t.dies /\ n + MaxConnect < t.dies
  <1>1. /\ Margin \in Nat /\ Floor \in Nat /\ MaxFetch \in Nat /\ MaxConnect \in Nat /\ Floor > 0
        /\ t.dies \in Nat /\ t.life \in Nat /\ t.life >= Floor + MaxFetch + MaxConnect
    BY DEF UpstreamAssumption, Tokens, Promised
  <1>2. expires_in(t.life) = t.life
    BY <1>1 DEF expires_in, NotStated
  <1>3. CASE t.life < Margin + Floor
    BY <1>1, <1>2, <1>3 DEF ttl
  <1>4. CASE ~(t.life < Margin + Floor)
    BY <1>1, <1>2, <1>4 DEF ttl
  <1>. QED  BY <1>3, <1>4

(* The lifetime of an entry is a number. *)
LEMMA TtlNat ==
    ASSUME UpstreamAssumption, NEW n \in Nat  PROVE ttl(n) \in Nat
  BY DEF UpstreamAssumption, ttl, expires_in

(* The effects of the steps on time, tokens and the cache. *)
LEMMA TokenNext ==
    ASSUME MaxFetch + MaxConnect <= Margin, TokenInv, [Next]_vars
    PROVE  TokenInv'
  <1>. USE UpstreamAssumption
  <1>1. Bounds'
    BY BoundsNext DEF TokenInv
  <1>c. {Margin, Floor, MaxFetch, MaxConnect} \subseteq Nat /\ Floor > 0
    BY DEF UpstreamAssumption
  <1>n. NoToken \in Tokens /\ ~Promised(NoToken) /\ NoEntry \in Entries /\ NoEntry.token = NoToken
    BY <1>c DEF NoToken, Tokens, Promised, NoEntry, Entries
  <1>p. pc \in [Requests -> {"idle", "pick", "ask", "answer", "send", "wire"}]
    BY DEF TokenInv, Bounds
  <1>2. ASSUME NEW r \in Requests, NEW l \in {"idle", "pick", "send", "wire"},
               pc[r] \notin {"ask", "answer"}, pc' = [pc EXCEPT ![r] = l],
               l = "send" => pc[r] # "send",
               \/ /\ l = "wire" /\ token' = [token EXCEPT ![r] = NoToken]
                  /\ begun' = [begun EXCEPT ![r] = 0]
               \/ pc[r] # "send" /\ l # "wire" /\ token' = token /\ begun' = begun,
               UNCHANGED <<now, cache>>
        PROVE  TokenInv'
    <2>1. TokenTypes'
      BY <1>2, <1>n DEF TokenInv, TokenTypes
    <2>2. CachedTokens'
      BY <1>2 DEF TokenInv, CachedTokens
    <2>3. SlotTokens'
      BY <1>2, <1>n, <1>p DEF TokenInv, TokenTypes, SlotTokens
    <2>. QED  BY <1>1, <2>1, <2>2, <2>3 DEF TokenInv
  <1>3. ASSUME NEW r \in Requests, NEW s \in Sources, blob_token(r, s)  PROVE TokenInv'
    <2>1. pc[r] = "pick" /\ UNCHANGED <<now, cache>>
      BY <1>3 DEF blob_token
    <2>2. CASE s \in Anonymous
      BY <1>2, <1>3, <2>1, <2>2 DEF blob_token, Goto, tokens
    <2>3. CASE s \notin Anonymous /\ Unexpired(cache[s])
      <3>1. /\ token' = [token EXCEPT ![r] = cache[s].token] /\ begun' = [begun EXCEPT ![r] = now]
            /\ pc' = [pc EXCEPT ![r] = "send"] /\ now < cache[s].expires
        BY <1>3, <2>3 DEF blob_token, Goto, Unexpired
      <3>2. cache[s] \in Entries /\ cache[s].token \in Tokens
        BY DEF TokenInv, TokenTypes, Entries
      <3>3. Promised(cache[s].token) => now + MaxConnect < cache[s].token.dies
        BY <3>1, <3>2, <1>c DEF TokenInv, TokenTypes, CachedTokens, Entries, Tokens
      <3>4. TokenTypes' /\ CachedTokens'
        BY <2>1, <3>1, <3>2 DEF TokenInv, TokenTypes, CachedTokens
      <3>5. SlotTokens'
        BY <2>1, <3>1, <3>3, <1>p, <1>c DEF TokenInv, TokenTypes, SlotTokens
      <3>. QED  BY <1>1, <3>4, <3>5 DEF TokenInv
    <2>4. CASE s \notin Anonymous /\ ~Unexpired(cache[s])
      <3>1. begun' = [begun EXCEPT ![r] = now] /\ UNCHANGED token /\ pc' = [pc EXCEPT ![r] = "ask"]
        BY <1>3, <2>4 DEF blob_token, Goto
      <3>2. TokenTypes' /\ CachedTokens'
        BY <2>1, <3>1 DEF TokenInv, TokenTypes, CachedTokens
      <3>3. SlotTokens'
        BY <2>1, <3>1, <1>p, <1>c DEF TokenInv, TokenTypes, SlotTokens
      <3>. QED  BY <1>1, <3>2, <3>3 DEF TokenInv
    <2>. QED  BY <2>2, <2>3, <2>4
  <1>4. ASSUME NEW r \in Requests, NEW life \in Nat, NEW lives \in Nat, life <= lives,
               Issue(r, life, lives)
        PROVE  TokenInv'
    <2>. DEFINE t == [dies |-> now + lives, life |-> life]
    <2>1. /\ pc[r] = "ask" /\ token' = [token EXCEPT ![r] = t] /\ UNCHANGED <<now, cache, begun>>
          /\ pc' = [pc EXCEPT ![r] = "answer"]
      BY <1>4 DEF Issue, Goto
    <2>2. t \in Tokens /\ t.dies >= now + t.life
      BY <1>4 DEF TokenInv, TokenTypes, Tokens
    <2>3. t.dies >= begun[r] + t.life
      BY <2>1, <2>2 DEF TokenInv, TokenTypes, SlotTokens, Tokens
    <2>. HIDE DEF t
    <2>4. TokenTypes' /\ CachedTokens'
      BY <2>1, <2>2 DEF TokenInv, TokenTypes, CachedTokens
    <2>5. SlotTokens'
      BY <2>1, <2>3, <1>p DEF TokenInv, TokenTypes, SlotTokens
    <2>. QED  BY <1>1, <2>4, <2>5 DEF TokenInv
  <1>5. ASSUME NEW r \in Requests, NoAnswer(r)  PROVE TokenInv'
    <2>1. /\ pc[r] \in {"ask", "answer"} /\ begun' = [begun EXCEPT ![r] = 0]
          /\ token' = [token EXCEPT ![r] = NoToken] /\ pc' = [pc EXCEPT ![r] = "send"]
          /\ UNCHANGED <<now, cache>>
      BY <1>5 DEF NoAnswer, Goto
    <2>2. TokenTypes' /\ CachedTokens'
      BY <2>1, <1>n DEF TokenInv, TokenTypes, CachedTokens
    <2>3. SlotTokens'
      BY <2>1, <1>n, <1>p DEF TokenInv, TokenTypes, SlotTokens
    <2>. QED  BY <1>1, <2>2, <2>3 DEF TokenInv
  <1>6. ASSUME NEW r \in Requests, Insert(r)  PROVE TokenInv'
    <2>. DEFINE e == [token |-> token[r], expires |-> now + ttl(token[r].life)]
    <2>1. /\ pc[r] = "answer" /\ begun' = [begun EXCEPT ![r] = now]
          /\ cache' = [Retained EXCEPT ![home[r]] = e]
          /\ pc' = [pc EXCEPT ![r] = "send"] /\ UNCHANGED <<now, token>>
      BY <1>6 DEF Insert, Goto
    <2>2. token[r] \in Tokens /\ token[r].life \in Nat /\ ttl(token[r].life) \in Nat
      BY TtlNat DEF TokenInv, TokenTypes, Tokens
    <2>3. e \in Entries /\ e.token = token[r] /\ e.expires = now + ttl(token[r].life)
      BY <2>2 DEF TokenInv, TokenTypes, Entries
    <2>. HIDE DEF e
    <2>4. Promised(token[r]) => e.expires + MaxConnect <= token[r].dies /\ now + MaxConnect < token[r].dies
      BY <2>1, <2>2, <2>3, TtlFits DEF TokenInv, TokenTypes, SlotTokens
    <2>5. Retained \in [Sources -> Entries] /\ \A s \in Sources : Retained[s] \in {cache[s], NoEntry}
      BY <1>n DEF Retained, TokenInv, TokenTypes
    <2>6. TokenTypes'
      BY <2>1, <2>3, <2>5 DEF TokenInv, TokenTypes
    <2>7. CachedTokens'
      <3>1. ASSUME NEW s \in Sources  PROVE cache'[s] \in {cache[s], NoEntry, e}
        BY <2>1, <2>5
      <3>. QED  BY <3>1, <2>3, <2>4, <1>n DEF TokenInv, CachedTokens
    <2>8. SlotTokens'
      BY <2>1, <2>4, <1>p, <1>c DEF TokenInv, TokenTypes, SlotTokens
    <2>. QED  BY <1>1, <2>6, <2>7, <2>8 DEF TokenInv
  <1>7. ASSUME NEW r \in Requests, StartChunk(r) \/ Proxied(r) \/ Send(r) \/ Break(r) \/ Answer(r)
        PROVE  TokenInv'
    <2>1. CASE StartChunk(r)
      BY <1>2, <2>1 DEF StartChunk, Goto, tokens
    <2>2. CASE Proxied(r)
      <3>1. pc[r] = "idle" /\ pc' = [pc EXCEPT ![r] = "send"] /\ UNCHANGED <<now, cache, begun, token>>
        BY <2>2 DEF Proxied, StartProxied, Goto, tokens
      <3>. QED  BY <1>2, <3>1
    <2>3. CASE Send(r)
      <3>1. /\ pc[r] = "send" /\ pc' = [pc EXCEPT ![r] = "wire"] /\ UNCHANGED <<now, cache>>
            /\ token' = [token EXCEPT ![r] = NoToken] /\ begun' = [begun EXCEPT ![r] = 0]
        BY <2>3 DEF Send, Goto
      <3>. QED  BY <1>2, <3>1
    <2>4. CASE Break(r) \/ Answer(r)
      <3>1. /\ pc[r] = "wire" /\ UNCHANGED <<now, cache, begun, token>>
            /\ pc' = [pc EXCEPT ![r] = "pick"] \/ pc' = [pc EXCEPT ![r] = "idle"]
        BY <2>4 DEF Break, Answer, Fail, Finish, Goto, tokens
      <3>. QED  BY <1>2, <3>1
    <2>. QED  BY <1>7, <2>1, <2>2, <2>3, <2>4
  <1>8. ASSUME NEW r \in Requests, NEW h \in Hosts, Redirect(r, h)  PROVE TokenInv'
    BY <1>2, <1>8 DEF Redirect, Goto, tokens
  <1>9. CASE Tick
    <2>1. /\ now' = now + 1 /\ UNCHANGED <<cache, pc, begun, token>>
          /\ \A r \in Requests :
                /\ pc[r] \in {"ask", "answer"} => now - begun[r] < MaxFetch
                /\ pc[r] = "send" /\ token[r] # NoToken => now - begun[r] < MaxConnect
      BY <1>9 DEF Tick, tokens
    <2>2. TokenTypes' /\ CachedTokens'
      BY <2>1 DEF TokenInv, TokenTypes, CachedTokens
    <2>3. SlotTokens'
      BY <2>1, <1>c, <1>n DEF TokenInv, TokenTypes, SlotTokens
    <2>. QED  BY <1>1, <2>2, <2>3 DEF TokenInv
  <1>10. CASE UNCHANGED vars
    BY <1>1, <1>10 DEF vars, tokens, TokenInv, TokenTypes, SlotTokens, CachedTokens
  <1>11. ASSUME NEW r \in Requests, FetchToken(r)  PROVE TokenInv'
    <2>1. \A life \in Lifetimes : life \in Nat /\ life <= life
      BY DEF UpstreamAssumption
    <2>2. NotStated \in Nat /\ \A lives \in Unstated : lives \in Nat /\ NotStated <= lives
      BY DEF UpstreamAssumption, NotStated
    <2>. QED  BY <1>11, <2>1, <2>2, <1>3, <1>4, <1>5, <1>6 DEF FetchToken
  <1>. QED  BY <1>7, <1>8, <1>9, <1>10, <1>11 DEF Next, Fetch

(* A token whose lifetime its service states, and that lives long enough,   *)
(* is alive when it is sent, however many tasks share the cache and however *)
(* slowly tokens travel and connections are made, within the margin.        *)
THEOREM TokensAlive == Spec => []TokenAlive
  <1>1. CASE MaxFetch + MaxConnect <= Margin
    <2>1. Init => TokenInv
      <3>1. NoToken \in Tokens /\ ~Promised(NoToken) /\ NoEntry \in Entries /\ NoEntry.token = NoToken
        BY UpstreamAssumption DEF UpstreamAssumption, NoToken, Tokens, Promised, NoEntry, Entries
      <3>. QED  BY <3>1 DEF Init, TokenInv, Bounds, TokenTypes, SlotTokens, CachedTokens
    <2>2. TokenInv /\ [Next]_vars => TokenInv'
      BY <1>1, TokenNext
    <2>3. TokenInv => TokenAlive
      <3>. SUFFICES ASSUME TokenInv, NEW r \in Requests, pc[r] = "send", Promised(token[r])
                    PROVE  now < token[r].dies
        BY DEF TokenAlive
      <3>1. /\ now \in Nat /\ begun[r] \in Nat /\ token[r].dies \in Nat /\ MaxConnect \in Nat
            /\ now <= begun[r] + MaxConnect /\ begun[r] + MaxConnect < token[r].dies
        BY UpstreamAssumption DEF UpstreamAssumption, TokenInv, TokenTypes, SlotTokens, Tokens
      <3>. QED  BY <3>1
    <2>. QED  BY <2>1, <2>2, <2>3, PTL DEF Spec
  <1>2. CASE ~(MaxFetch + MaxConnect <= Margin)
    <2>1. TokenAlive
      BY <1>2 DEF TokenAlive
    <2>. QED  BY <2>1, PTL
  <1>. QED  BY <1>1, <1>2

-----------------------------------------------------------------------------
(* The registry of running downloads *)

(* A removal carries the handle of a download that has ended: no running or *)
(* registering download has that handle, and none will.                     *)
RegistryInv ==
    /\ task \in [Digests -> {"idle", "register", "run"}]
    /\ own \in [Digests -> Nat] /\ listed \in [Digests -> Nat] /\ made \in Nat
    /\ \A d \in Digests : own[d] <= made /\ (task[d] = "run" => listed[d] = own[d])
    /\ \A x \in drops :
          /\ x.digest \in Digests /\ x.handle \in Nat /\ x.handle <= made
          /\ task[x.digest] # "idle" => x.handle # own[x.digest]

(* The compare in Arc::ptr_eq spares the entry of a later download. *)
LEMMA RegistryNext == RegistryInv /\ [Registry!Next]_(Registry!vars) => RegistryInv'
  <1>. SUFFICES ASSUME RegistryInv, [Registry!Next]_(Registry!vars)  PROVE RegistryInv'
    OBVIOUS
  <1>1. ASSUME NEW d \in Digests, Registry!Start(d)  PROVE RegistryInv'
    BY <1>1 DEF Registry!Start, RegistryInv
  <1>2. ASSUME NEW d \in Digests, Registry!Register(d)  PROVE RegistryInv'
    BY <1>2 DEF Registry!Register, RegistryInv
  <1>3. ASSUME NEW d \in Digests, Registry!End(d)  PROVE RegistryInv'
    BY <1>3 DEF Registry!End, RegistryInv
  <1>4. ASSUME NEW x \in Registry!AllDrops, Registry!Remove(x)  PROVE RegistryInv'
    BY <1>4 DEF Registry!Remove, Registry!OwnEntry, RegistryInv
  <1>5. CASE Registry!View \/ Registry!ViewEnds \/ UNCHANGED Registry!vars
    BY <1>5 DEF Registry!View, Registry!ViewEnds, Registry!vars, RegistryInv
  <1>. QED  BY <1>1, <1>2, <1>3, <1>4, <1>5 DEF Registry!Next

(* A registered download stays in the dashboard's list until it ends, for   *)
(* any number of digests and of delayed removals of earlier downloads.      *)
THEOREM DownloadsListed == Registry!Spec => []ListedWhileRunning
  <1>1. Registry!Init => RegistryInv
    BY DEF Registry!Init, RegistryInv
  <1>2. RegistryInv => ListedWhileRunning
    BY DEF RegistryInv, ListedWhileRunning, Registry!ListedWhileRunning
  <1>. QED  BY <1>1, <1>2, RegistryNext, PTL DEF Registry!Spec
-----------------------------------------------------------------------------
(* The pool of sources *)

Points == {"idle", "ready", "fetch", "probe", "recompute", "weigh", "sleep", "gone"}

(* stats.read() keeps every writer out: what a process read is what is      *)
(* there when it stores the weights.                                        *)
SnapFresh == \A p \in Pool!Procs : point[p] = "weigh" => snap[p] = Pool!Scores

(* Somebody will compute the weights again. *)
Pending ==
    \/ \E p \in Pool!Procs : point[p] \in {"recompute", "weigh"}
    \/ \E p \in Pool!Probers : point[p] = "probe"

PoolInv ==
    /\ point \in [Pool!Procs -> Points] /\ DOMAIN snap = Pool!Procs
    /\ SnapFresh
    /\ Pending \/ ~Pool!Measured \/ cut \/ weights = Pool!Scores

(* A step that changes no statistics and no weights, and takes nobody's     *)
(* promise to recompute away.                                               *)
LEMMA PoolKept ==
    ASSUME PoolInv, NEW p \in Pool!Procs, NEW l \in Points \ {"weigh"}, point' = [point EXCEPT ![p] = l],
           point[p] \notin {"probe", "recompute", "weigh"} \/ l = "recompute" \/ cut',
           cut => cut', UNCHANGED <<stats, weights>>, DOMAIN snap' = Pool!Procs,
           \A q \in Pool!Procs : q # p => snap'[q] = snap[q]
    PROVE  PoolInv'
  <1>1. Pool!Scores' = Pool!Scores /\ Pool!Measured' = Pool!Measured
    BY DEF Pool!Scores, Pool!Measured, Pool!score
  <1>2. SnapFresh'
    BY <1>1 DEF PoolInv, SnapFresh
  <1>3. Pending => Pending' \/ cut'
    BY DEF PoolInv, Pending, Pool!Probers, Pool!Procs
  <1>. QED  BY <1>1, <1>2, <1>3 DEF PoolInv

(* Reports and probes change the statistics while no process holds          *)
(* stats.read(), and their own recomputation is still to come.              *)
LEMMA PoolNext == PoolInv /\ [Pool!Next]_(Pool!vars) => PoolInv'
  <1>. SUFFICES ASSUME PoolInv, [Pool!Next]_(Pool!vars)  PROVE PoolInv'
    OBVIOUS
  <1>p. \A r \in Reporters : r \in Pool!Procs
    BY DEF Pool!Procs
  <1>q. Pool!Probers \subseteq Pool!Procs /\ "loop" \in Pool!Probers /\ "once" \in Pool!Probers
    BY DEF Pool!Procs, Pool!Probers
  <1>1. ASSUME NEW r \in Reporters, NEW s \in Sources, Pool!Pick(r, s)  PROVE PoolInv'
    BY <1>1, <1>p, PoolKept DEF Pool!Pick, Pool!Goto, Points, PoolInv
  <1>0. ASSUME NEW r \in Reporters, Pool!Begin(r) \/ Pool!End(r)  PROVE PoolInv'
    BY <1>0, <1>p, PoolKept DEF Pool!Begin, Pool!End, Pool!Goto, Points, PoolInv
  <1>2. ASSUME NEW r \in Reporters, Pool!Report(r)  PROVE PoolInv'
    <2>1. /\ point[r] = "fetch" /\ point' = [point EXCEPT ![r] = "recompute"] /\ UNCHANGED snap
          /\ \A p \in Pool!Procs : point[p] # "weigh"
      BY <1>2 DEF Pool!Report, Pool!Goto, Pool!NoReaders
    <2>2. SnapFresh' /\ Pending'
      BY <2>1, <1>p DEF PoolInv, SnapFresh, Pending
    <2>. QED  BY <2>1, <2>2 DEF PoolInv, Points
  <1>3. ASSUME NEW p \in Pool!Procs, Pool!ReadStats(p)  PROVE PoolInv'
    <2>1. /\ point[p] = "recompute" /\ point' = [point EXCEPT ![p] = "weigh"] /\ UNCHANGED stats
          /\ snap' = [snap EXCEPT ![p] = Pool!Scores]
      BY <1>3 DEF Pool!ReadStats, Pool!Goto, Pool!Scores
    <2>2. Pool!Scores' = Pool!Scores
      BY <2>1 DEF Pool!Scores, Pool!score
    <2>3. SnapFresh' /\ Pending'
      BY <2>1, <2>2 DEF PoolInv, SnapFresh, Pending
    <2>. QED  BY <2>1, <2>3 DEF PoolInv, Points
  <1>4. ASSUME NEW p \in Pool!Procs, Pool!Weigh(p)  PROVE PoolInv'
    <2>1. /\ point[p] = "weigh" /\ weights' = Pool!Scores /\ UNCHANGED stats
          /\ \E l \in {"sleep", "idle", "ready"} : point' = [point EXCEPT ![p] = l]
          /\ snap' = [snap EXCEPT ![p] = [s \in Sources |-> Pool!score(Pool!NoStats)]]
      BY <1>4 DEF Pool!Weigh, Pool!Goto, PoolInv, SnapFresh
    <2>2. Pool!Scores' = Pool!Scores
      BY <2>1 DEF Pool!Scores, Pool!score
    <2>3. SnapFresh'
      BY <2>1, <2>2 DEF PoolInv, SnapFresh
    <2>. QED  BY <2>1, <2>2, <2>3 DEF PoolInv, Points
  <1>5. ASSUME NEW r \in Reporters, Pool!AbortTask(r)  PROVE PoolInv'
    <2>1. /\ point[r] \in {"fetch", "recompute", "weigh"} /\ point' = [point EXCEPT ![r] = "idle"]
          /\ cut' = (cut \/ point[r] # "fetch") /\ UNCHANGED <<stats, weights>>
          /\ snap' = [snap EXCEPT ![r] = [s \in Sources |-> Pool!score(Pool!NoStats)]]
      BY <1>5 DEF Pool!AbortTask, Pool!Goto
    <2>2. DOMAIN snap' = Pool!Procs /\ \A q \in Pool!Procs : q # r => snap'[q] = snap[q]
      BY <2>1 DEF PoolInv
    <2>. QED  BY <2>1, <2>2, <1>p, PoolKept DEF Points
  <1>6. CASE Pool!Tick \/ Pool!trigger_probe
    <2>1. \E p \in Pool!Probers, l \in {"gone", "probe"} :
             point[p] \in {"sleep", "idle"} /\ point' = [point EXCEPT ![p] = l]
      BY <1>6, <1>q DEF Pool!Tick, Pool!trigger_probe, Pool!Goto
    <2>2. UNCHANGED <<stats, weights, snap, cut>>
      BY <1>6 DEF Pool!Tick, Pool!trigger_probe
    <2>. QED  BY <2>1, <2>2, <1>q, PoolKept DEF PoolInv, Points
  <1>7. ASSUME NEW p \in Pool!Probers, NEW s \in Sources, Pool!ProbeOne(p, s)  PROVE PoolInv'
    <2>1. /\ point[p] = "probe" /\ UNCHANGED <<point, snap>> /\ \A q \in Pool!Procs : point[q] # "weigh"
      BY <1>7 DEF Pool!ProbeOne, Pool!NoReaders
    <2>2. SnapFresh' /\ Pending'
      BY <2>1 DEF SnapFresh, Pending
    <2>. QED  BY <2>1, <2>2 DEF PoolInv
  <1>8. ASSUME NEW p \in Pool!Probers, Pool!ProbesJoined(p)  PROVE PoolInv'
    BY <1>8, <1>q, PoolKept DEF Pool!ProbesJoined, Pool!Goto, Points, PoolInv
  <1>9. CASE UNCHANGED <<stats, weights, point, snap, cut>>
    BY <1>9 DEF PoolInv, SnapFresh, Pending, Pool!Measured, Pool!Scores, Pool!score
  <1>10. CASE Pool!Replace \/ Pool!Retired \/ (\E s \in Sources : Pool!Outage(s)) \/ UNCHANGED Pool!vars
    BY <1>9, <1>10 DEF Pool!Replace, Pool!Retired, Pool!Outage, Pool!vars
  <1>. QED  BY <1>0, <1>1, <1>2, <1>3, <1>4, <1>5, <1>6, <1>7, <1>8, <1>10 DEF Pool!Next, Pool!Recompute, Pool!Probe

(* When nobody is about to recompute them the weights are the scores of the *)
(* statistics, for any number of concurrent reports and probes; only an     *)
(* aborted task leaves an older weight behind.                              *)
THEOREM WeightsAreCurrent == Pool!Spec => []WeightsFollowStats
  <1>1. Pool!Init => PoolInv
    <2>. SUFFICES ASSUME Pool!Init  PROVE PoolInv
      OBVIOUS
    <2>1. point \in [Pool!Procs -> Points] /\ DOMAIN snap = Pool!Procs /\ SnapFresh
      BY DEF Pool!Init, Points, SnapFresh
    <2>2. ~Pool!Measured
      BY DEF Pool!Init, Pool!Measured, Pool!NoStats
    <2>. QED  BY <2>1, <2>2 DEF PoolInv
  <1>2. PoolInv => WeightsFollowStats
    BY DEF PoolInv, Pending, WeightsFollowStats, Pool!WeightsFollowStats, Pool!Quiet, Pool!Probers, Pool!Procs
  <1>. QED  BY <1>1, <1>2, PoolNext, PTL DEF Pool!Spec

-----------------------------------------------------------------------------
(* What the run checks is a behaviour of the requests, one of the registry  *)
(* and one of the pool: the theorems about each hold for the three side by  *)
(* side.                                                                    *)
THEOREM OutboundApart == AllSpec => Spec /\ Registry!Spec /\ Pool!Spec
  <1>1. AllInit => Init /\ Registry!Init /\ Pool!Init
    BY DEF AllInit
  <1>2. [AllNext]_<<part, vars, registry, pool>> =>
            [Next]_vars /\ [Registry!Next]_(Registry!vars) /\ [Pool!Next]_(Pool!vars)
    BY DEF AllNext, registry, pool, Registry!vars, Pool!vars
  <1>. QED  BY <1>1, <1>2, PTL DEF AllSpec, Spec, Registry!Spec, Pool!Spec
=============================================================================

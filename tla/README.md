# A TLA+ model of web-proxy

web-proxy is a gateway in front of container registries and GitHub.  It caches
blobs and manifests, downloads blobs in parallel chunks from several sources,
pulls images through the local docker daemon, issues its own certificate and is
configured at run time.  This directory holds specifications of the parts of it
that keep state across an `await` and of the pure functions that must agree with
each other, the TLC runs that check them on small instances, and TLAPS proofs, for
every value of the constants, of every invariant the passing runs check.

Paths below are relative to the crate (`src/main.rs` is `src/src/main.rs` of the
repository).

## 1. Inventory

| Part | State | Operations | Hard because |
|---|---|---|---|
| Chunked downloader (`chunks.rs`: `download`, `fetch_chunk`, bitmap) and streamer (`main.rs`: `tee_blob_to_cache`) | part file, bitmap sidecar, committed blob; chunk tasks, collector, running hash, client channel | plan, resume, spawn, write frames, retry, join, save bitmap, emit, compare digest, rename | tasks write a file the collector reads and hashes; crashes, eviction and clear remove files one at a time; a resume trusts files of another process; aborted tasks may still have a write queued |
| Blob route (`main.rs`: `proxy_blob`, `cached_blob_response`; `cache.rs`: `lookup`, `inflight_lock`) | map from digests to mutexes, queue of each mutex, set of cached blobs | look up, enter the map (and prune it), wait, look again, fetch, spawn, commit | every step is an await; clients leave anywhere; the map forgets mutexes; eviction between lookup and open |
| Cache accounting (`cache.rs`: `DiskCache`) | files, atomic byte counter, `evict_lock` | `committed`, `evict_old`, `clear`, `init` | counter updated by read, work, store next to `fetch_add`; failing removals; part files that were never counted |
| Manifest cache (`cache.rs`: `ManifestCache`; `main.rs`: `proxy_manifest`) | map keyed by path, accept and identity; byte counter | `get`, fetch, `put`, `clear` | fetches outside the lock, finishing in any order; mutable upstream; two limits |
| Source pool (`sources.rs`: `SourcePool`) | statistics, weights, prober, Arc count | `pick`, `report_*`, `recompute_weights`, probes, replacement | two locks taken in turn, aborted reporters, a prober that must end with its pool |
| Anonymous token cache (`sources.rs`: `blob_token`) | tokens with deadlines | look up, fetch, prune, insert | unlocked while fetching; the lifetime rule must cover the token's travel and its last reader |
| Redirects (`main.rs`: `fetch_following_redirects`; `chunks.rs`: `fetch_chunk`) | per request: host, credential, hops, tries | send, follow, give up, try again | every host is chosen by the one before; two loops with rules of their own; retries around one of them |
| Registry of downloads (`cache.rs`: `ActiveDownloadGuard`) | map from digests to progress | register, drop, remove, read | the removal is a spawned task that may run after the digest's next registration |
| Docker pulls (`dockerpull.rs`: `PullManager`) | list of jobs, a state per job | `start`, `run`, `docker_pull`, `docker_retag` | list unlocked between check and push; `try_lock`; a silent daemon |
| Certificate job (`main.rs`: `issue_cert`; `dockerpull.rs`: `issue_cert_job`) | job status, acme container, issued and deployed files | claim, pull, create, start, wait, copy, restart | container and files outlive the process; a wait that times out; non-atomic deployment |
| Settings and source list (`settings.rs`, `sources.rs`, `main.rs`) | two files with siblings, locks, live pool | patch, validate, write, rename, swap, reload | concurrent patches, failed writes, crashes |
| Serving and shutdown (`main.rs`: `serve_multi`, `serve_conn`, `drain_deadline`, `shutdown_signal`) | accept loop, connections, deadlines | accept, signal, drain, time out | signal subscriptions that come and go with `select!` |
| Cache warming (`main.rs`: `start_warm`, `parse_image_manifest_digests`) | none of its own | parse a manifest, spawn downloads | parser and loop must agree on the kinds of entries |
| DNS records (`main.rs`: `create_dns_records`) | records at the provider | look up the zone, then per name look up and create | no serialisation, failures half way, answers that are lost, clients that leave |
| Byte ranges (`main.rs`: `parse_single_byte_range`, `cached_blob_response`, `file_stream_range`) | none | parse, cut, stream | boundaries of size, suffix and 64 bits |
| Names and scopes (`dockerpull.rs`: `parse_image_ref`, `plan_pull`; `main.rs`: `route_request`, `registry_repository`, `rewrite_401_challenge`, `rewrite_scope`; `sources.rs`: `blob_token`) | none | rewrite | four functions take apart, on the way back, what another put together |
| Metrics, request log, TLS parsing, dashboard | rings, files | | see section 8 |

How they interact: `proxy_blob` looks into `DiskCache`, takes the digest's mutex
and spawns `chunks::download` (or the streamer), which picks sources from the
`SourcePool`, reports to it, sends pieces to the client through a bounded
channel, and calls `committed`, which may evict.  `clear_cache` and eviction
remove files under all of them.  `save_sources_config` replaces the pool under
running downloads.  Pulls and the certificate job talk to the docker daemon in
tasks of their own; a successful certificate job restarts the process.  The
daemon's pulls come back to the gateway as requests under `/v2/`, whose
challenges send it to the gateway's token endpoint.

What makes each part correct is the list of properties in section 4.

## 2. Modules

| Module | Models | State and actions |
|---|---|---|
| `BlobDownload` | one digest: the chunked download, the streamer and their files | a file is a function from cells to `none`, `good`, `bad` or `stray` (overwritten late by an aborted task); `pc` is the collector's (or streamer's) place, `task` the chunk tasks; one action per await of `download`, of a chunk task and of `tee_blob_to_cache`; `werr` is the write error the shared file handle has yet to report, `lost` the chunks whose error another task got; `Remove*`, `Crash`, `LateLands` and the client are the environment |
| `CacheSlot` | abstract: the slot of a digest is empty or holds what was hashed, filled in one step, one cell changed at a time by late writes | implemented by `BlobDownload` |
| `SingleFlight` | the blob route of any number of requests | `pc[r]` per request; `inflight` the map, `ahead` the fair queue of a tokio mutex; a spawned download is the steps `Spawn`, `Commit`, `TaskEnds` |
| `Flight` | abstract: a flight takes off for an absent blob that nobody fetches | implemented by `SingleFlight`; this is what `BlobDownload` assumes of its caller (`Recheck`, one attempt at a time) |
| `DiskCache` | byte counter, eviction, clear, restart | files with size and age; the eviction's load, its removals and its store are separate steps |
| `ManifestCache` | manifest route and cache with a clock and tags that move | version v of a manifest has v bytes |
| `SourcePool` | statistics, weights, probes, the pool's end | a weight is represented by the statistics it was computed from; a download keeps the pool it began with (`Begin`, `End`), also after its replacement |
| `PullManager` | `start` and the job tasks | ids stand for positions in the list, which grows at its end; `quiet` is the timer that every frame starts anew |
| `CertJob` | `issue_cert` and its job, acme.sh, the deployed pair, restarts | a certificate names the key it belongs to; `layout` is how the deployment lays out the directories: `found`, what the copy reads, need not be what was `issued` |
| `ConfigFiles` | `settings.json` and `sources.json` under concurrent requests and crashes | `agreed` is a history variable: all patches that took effect, counted from the last save that was built on a failed read |
| `Shutdown` | accept loop, connections, deadlines, signals; both layouts | the layout is chosen in `Init` (`multi`) |
| `Upstream` | `blob_token` with a clock, and both loops that follow redirects | a slot is a chunk task or a proxied request; a URL is its host, a token the lifetime its service states, if it does, and its time of death |
| `ActiveDownloads` | the registry of downloads | a handle stands for the guard's `Arc`; `drops` are spawned removals that have not run; `viewed` is the mutex in the hands of a reader |
| `DnsRecords` | requests for DNS records and the provider | `stray` are creations whose request was dropped; `excused` is a history variable: names whose duplicates the code cannot avoid |
| `Warm` | `start_warm` over a parsed manifest | a spawned download is one step |
| `ByteRange`, `ImageNames` | pure functions, next to reference definitions | a byte is its offset; a name is a sequence of components |
| `PureFunctions` (`ByteRange`, `ImageNames`) | all small inputs | an input is chosen at the start, its answer computed in one step |
| `MCBlobDownload`, `MCDiskCache`, `MCShutdown`, `MCCertJob`, `MCUpstream`, `MCWarm` | one component | |
| `MCRoutes` (`SingleFlight`, `PureFunctions`), `MCOutbound` (`Upstream`, `ActiveDownloads`, `SourcePool`), `MCCaches` (`ManifestCache`, `DiskCache`), `MCManagement` (`PullManager`, `CertJob`, `Shutdown`), `MCConfigFiles` (`ConfigFiles`, `DnsRecords`) | several components in one run | a variable chooses the component that moves |
| `BlobDownloadProofs`, `SingleFlightProofs`, `AlgorithmsProofs` | theorems about `BlobDownload`, `SingleFlight` and `PureFunctions` | inductive invariants and lemmas, one per action |
| `CachesProofs`, `ConfigProofs`, `OutboundProofs`, `ManagementProofs` | theorems about the components of the run of that name | each EXTENDS the run's MC module, so that it is about the same definitions |

Definitions keep the code's names where they can (`inflight_lock`, `committed`,
`scan_bytes`, `patch_from_body`, `trigger_probe`, ...).  `PROJECT.json` maps every
one of them to its lines.  Beside a few definitions stands a variant with a
slip in it (`Recheck` and `NoRecheck`, `NextAuth` and `KeepAuth`, ...): each shows
that a property notices the slip.

The components that share a run share no state.  A behaviour moves one of them and
leaves the others in an initial state, where no step whose fairness is assumed
is enabled (the source pool's fairness is stated for the behaviours that move it,
because its first probes are due at once); so it satisfies their fairness, and each
component's behaviours are exactly those of its own specification.  Requests to
upstreams move in two of these ways: with the clock, without redirects and retries,
and with both while the clock stands still; neither depends on the time, the token
of a request is dropped when it is first sent, and a retry is to the token cache
like the request of another chunk.

### Abstractions

* Bytes are cells: a cell is what one body frame carries.  `bad` is any content
  that is not the blob's; the hash is modelled by whether all hashed cells were
  `good` and were all of the blob, that is, sha256 is taken to be collision free.
  A `stray` cell is a bad one to the hash; it is told apart only so that the
  properties can say what else never happens to a hashed cell.
* The chunk tasks share one `tokio::fs::File`, which hands a write to the blocking
  pool and reports its failure to the next write or flush, whosever it is
  (`WriteRefused`, `TakesError`).  The streamer has a handle of its own, so a
  refused write is its own `TeeFails`, perhaps one frame later than the model has
  it.  The collector's flush at the end meets no error: every task's flush comes
  before its join.
* Errors of seeking and reading a cached file while it is streamed are left out of
  `ByteRange`: the client then gets fewer bytes than were announced.
* The chunk plan is any size of `PlanSizes`; how `chunk_plan` finds it is not
  modelled.  A resumed download takes the sidecar's size, as the code does.
* In every module but `Upstream`, an upstream's answer or failure stands for the
  whole chain of redirects.  `Upstream` leaves out methods, bodies, schemes and
  ports.  Its clock ticks every 15 seconds, the timeout of a token request; the
  cache is for one repository, so that a source is the whole key.
* A service that states a token's lifetime keeps to it; a token without a stated
  lifetime lives any time of `Unstated`, and the code takes it for 300 seconds.
* A token's answer is taken to be complete within `MaxFetch` of the request.  The
  timeout of 15 seconds is for the answer's head; its short body is read under
  the HTTP client's read timeout.  Connecting to the source takes up to `MaxConnect`
  from then on.  `TokenAlive` therefore has the premise that the two together are at
  most the margin of 30 seconds, which the run's 15 and 15 seconds are.
* `ImageNames` leaves out the case of letters in host names, the syntax of tags and
  digests, and the actions of a scope, which is always `pull`.  A component with a
  colon (`WithPort`) is a host at the front of a name and refused elsewhere.
* `MAX_FINISHED_JOBS`, `MAX_CHUNK_RETRIES` and the like are constants, smaller in the runs.
* Hit counters, log entries, progress texts and dashboard fields are left out.
* `evict_old`'s and `clear`'s directory walk is one step; what happens between
  the walk and each removal is not.
* Latency and throughput averages are left out of `SourcePool`: a weight is
  positive exactly if the source has a success.  The random walk of `pick` is
  any source it can return, rounding included.
* `Settings` is reduced to one text field and the port, whose truncation to 16
  bits before validation is kept.
* The docker daemon, acme.sh, the registries, the clock, the clients, tokio's
  mutexes and its blocking pool are external and modelled by how the code uses
  them.  A tokio mutex and RwLock are fair.

## 3. Fairness

* `BlobDownload`: the collector, the streamer and each chunk task run, and somebody
  keeps asking for the blob.  A body that stalls is a `FetchFails`: the HTTP client
  is built with connect and read timeouts (`main.rs`, `reqwest::Client::builder`), so
  a task is never stuck in its fetch; the model lets it end or fail.  Nothing is
  assumed of the client, which may keep its connection and never read again: the
  send into its channel has no timeout.  `AttemptEnds` says that this alone holds an
  attempt for ever, and `EventuallyCached` has its absence as a premise.  Nothing is
  assumed of faults except that there are finitely many (`MaxFaults`).
* `SingleFlight`: weak fairness of every handler and download task.  That a
  download ends is `AttemptEnds` of `BlobDownload`, for clients that do not stall:
  behind one that does, the others wait.  Nothing is assumed about disconnects and
  evictions.
* `SourcePool`: strong fairness of each prober, because tokio's RwLock queues the
  writers of the statistics and a probe has a timeout; weak fairness for a reporter's
  recomputation.  A chunk's fetch need not end.
* `PullManager`: a job's own steps are taken and its timer runs.  Nothing is assumed
  of the daemon: it may never accept, answer a retag, or end its stream.
* `CertJob`: every docker call returns: `docker_api` bounds the wait for the head of
  an answer, and a daemon is assumed to end a body it has begun (nothing in the
  code bounds that read).  The container is not fair.
* `Shutdown`: the server's tasks run and its timers fire.  Clients owe nothing.
* `Upstream`: a request that waits gets an answer or its timeout: 15 seconds for a
  token's head, `CHUNK_TIMEOUT` for a chunk's, 1800 seconds without a byte for the
  rest; bodies that trickle for ever are left out.  What the answer is, another redirect included, is not restricted.
* `ActiveDownloads`: readers let go of the mutex (they await nothing under it), and
  removals get it, strongly fair because tokio's mutex is a queue.  Nothing is
  assumed about downloads: an entry must go although its digest is never fetched
  again.

## 4. Runs

Six runs pass, six show a disagreement between the code and what is said of it.
A liveness property of the form "it always ends" is stated as `[]<>` of the ended
state, which comes to the same.

| Run | Instance | Shows |
|---|---|---|
| `Blob` | 3 cells, chunks of 2 or 3, 2 permits, 1 retry, channel of 1, 3 faults; corrupt and over-long bodies, refused writes, late writes, stalled clients | `TypeOK`; `BlobIntegrity`: the committed blob is what was hashed, but for late writes; `FreshChunksWritten`: a chunk counted as done by this attempt has no hole, unless its write error went to another task; `EmittedNeverRewritten`; `ImplementsSlot`; `AttemptEnds`: only a stalled client holds an attempt; `EventuallyCached`: no leftover of faults poisons a digest |
| `BlobTrailing` | 2 cells, 1 fault | **violated**: `OnlyVerified` |
| `Routes` | 2 requests, 3 digests, map pruned at every entry; all headers over 0..7 and sizes 0..5; all names of 1 to 4 of 8 components with tags, digests and markers | `OneFlight`, `MapBounded`, `Answered`, `ImplementsFlight`; `RangeExact`: the bytes sent are the bytes asked for; `PullComesHome`: the image a user names is the one the daemon's requests reach, and the one it is renamed to; `ScopeMatchesRoute`: a challenge's scope leads to the registry and repository of the request |
| `Caches` | 2 requests, 2 paths (one private), 2 identities, 3 versions; 2 writers, 5 files, sizes 4 and 7 of 10, clears, stale parts, failing removals | `StalenessBounded`: a served manifest was current less than TTL plus one fetch ago (one fetch, if the TTL is 0); `NoLeak` across identities; `MapWithinLimits`: the byte counter is exact and both limits hold; `NeverOvercounts`: the blob cache's counter errs only on the low side |
| `CacheLimit` | 2 writers, nothing failing | **violated**: `LimitKept` |
| `Management` | 2 callers, 2 images (one retagged), limit 2, 4 jobs; 2 certificate requests, 3 certificates, 2 restarts, all layouts; 3 connections, 2 signals, both layouts | `OvershootBounded`: the check-then-push of `start` costs at most the callers in between, for the limit and for an image, and a pulling job is listed; `JobsEnd`: a pull that never ends waits for the daemon's head or retag, or is sent frames for ever; `OneJob`; `DeploysFinished`: no acme.sh writes while its files are copied; `DoneIsDeployed`: success means that the pair the job found is deployed whole; `JobEnds`; `StopsInTime` for the single listener |
| `CertDir` | 1 request, 1 certificate | **violated**: `DeploysIssued` |
| `ShutdownUnbounded` | 2 connections, 1 signal | **violated**: `DrainCompletes` |
| `ConfigSafety` | 2 writers, 3 port numbers around 2^16, failing reads, 1 crash; 3 DNS requests, 4 names, any records there before | `NoPatchLost`: a patch is lost only to one whose read of the file failed; `PortUsable`; `PoolIsSaved`; `OkMeansAll`: success means a record for every name; `NoDuplicates`: asking again makes no second record, unless a lookup failed or met a creation under way |
| `Outbound` | 2 slots, 5 hosts in all roles, 2 hops, 1 retry, tokens of 30 and 75 seconds and of an unstated 45, 75 seconds of time; 2 digests, 3 downloads; a pool of 2 sources (one down at first), a chunk task and two probers, aborts, 1 outage | `StaysInBounds`: redirects lead to allowed hosts only, and a credential goes only to its host; `TokenAlive`: a token with a stated lifetime is alive when it is sent; `FetchEnds`; `ListedWhileRunning`; `EntriesGo`; `WeightsFollowStats`, `SourceRecovers`, `ProberEnds` |
| `TokenDefault` | 1 chunk task, the code's numbers in units of 15 seconds | **violated**: `CachedUntilExpiry` |
| `WarmNothing` | 3 blobs, 2 platform manifests | **violated**: `BlobsConsidered` |

Why the bounds are enough.  Three cells with chunks of two or three give plans of
two chunks with a short last one and of a single chunk, and a resumption under
another plan; a channel of one is full after the first piece; three faults suffice for a crash, the loss of one of the files and a bad
body in one behaviour, which is what the combinations in section 6 take.  With
a cap of zero the in-flight map is pruned at every request, with requests
waiting, holding and just having let go of its mutexes; three digests are one
more than there are requests, so a forgotten mutex is always possible.  Blob
sizes of 4 and 7 under a limit of 10 and a target of 9 need one, two or three
removals.  `MaxBytes = 2` with versions of 1 to 3 bytes reaches every branch of
`put`.  Four jobs are the limit of pulls plus both callers, so that the limit can
be overshot and a finished job trimmed.  Two
connections already show the lost deadline; the third lets one connection end,
one time out and one stay.  A lifetime of five units is longer than margin and floor
together, so that it is cut by the margin, one of two is raised to the floor and
lies below what `TokenAlive` speaks of, and an unstated one of three is dead while it
is cached; the clock holds the travel of a token, its whole stay in the cache, its
last reader's connection and the moment behind it, and with a cap of zero every
insertion prunes.  Two hops and one retry are the least for a chain that leaves a
host and comes back, and for a second attempt.  Three handles for two digests
leave a removal behind while its digest registers again.  Three DNS requests are
one that fails or is dropped, one that repeats it and one at the same time.
Numbers up to 7 with `U64Max = 6` and blobs of up to 5 bytes have every order of
the bounds of a range, the size and the limit, and blobs of more than two read
buffers; a name of four components has room for a host, a namespace and a marker
inside the repository.

A model stops because of a bound in one place only: the bound `MaxJobs` on pulls,
where `BoundReached` says so.  Deadlock is checked in every run except
`ShutdownUnbounded`, where a server may indeed wait for ever; in `Management`
the step `Waits` stands for that.

## 5. Proofs

Every invariant of every passing run is also a theorem, `Spec => []Inv`, for all
values of the constants that satisfy the named assumptions of the modules.  TLC
checked each inductive invariant before it was proved.  In a run of several
components a theorem is about the specification of the component it concerns, and
`CachesApart`, `ConfigApart`, `OutboundApart` and `ManagementApart` show that what
the run checks is a behaviour of every one of its components: the theorems hold of
it.

### The downloader (`BlobDownloadProofs`)

For every number of cells, chunk sizes, permits, retries and faults
(`BlobAssumption`: sizes and counts are naturals, at least one of each that must
exist):

* `TypeCorrect`: `Spec => []TypeOK`;
* `IntegrityInvariant` and `BlobIsVerified`: `[]IntegrityInv`, hence
  `[]BlobIntegrity`;
* `NeverRewritten`: `EmittedNeverRewritten`, and `RefinesSlot`: the refinement of
  `CacheSlot`;
* `FetchedIsWritten`: `[]FreshChunksWritten`.

None has a hypothesis: corrupt upstreams, refused writes and late writes may all come
together.  What a late write does is in the statements instead: a cell it changes is
`stray`, and nothing else ever changes a hashed cell.

`BlobIntegrity` is not inductive: rename publishes the file as it is then, while
the hash was taken chunk by chunk before.  `IntegrityInv` adds why the two agree.
`AtRest` and `WritersBehind` say where writing can happen: only inside the
collector's loop, only for chunks that are not done, at or behind the chunk's own
offset, and every emitted chunk is done.  So no writer can reach the emitted
prefix, and `HashedPrefixIntact` (the file holds what was hashed, if the hash is
still right) is preserved; an over-long body only runs forward, from behind the
prefix.  A late write can, and turns a cell `stray` (`LateFrames`).  When everything
is emitted the prefix is the blob, which is `ReadyToCommit`.  `TeePrefixIntact` is the same for the streamer.  The arithmetic
of chunks is in `ChunkBounds`, `OffsetMonotone` and `PastTheEnd`.

`FreshChunksWritten` speaks of chunks that are done; `Written` says of those still
being fetched that what lies before the cursor is written, but for a cell whose
refusal is still pending or went to another task.  A task is done only when its
cursor has passed its region and its own flush found no error, so the one follows
from the other, and a late write only fills holes.

### The blob route (`SingleFlightProofs`)

For any finite sets of requests and digests, any mutexes and any cap: `TypeCorrect`,
`FlightInvariant`, `FlightsAreSingle` (`[]OneFlight`), `RefinesFlight` (the refinement
of `Flight`) and `InflightIsBounded` (`[]MapBounded`).  `OneFlight` needs
`FlightInv`: a mutex somebody has an Arc of is still the map's entry of its digest
(`HeldIsMapped`; this is what pruning by `strong_count` must keep), digests do
not share a mutex (`OwnMutex`), of two requests in a queue one is behind the
other (`QueueOrdered`) and whoever holds the guard is first (`GuardedFirst`).
`NotYetCached` is what the second look under the mutex buys, and what the
refinement needs: nobody downloads a blob that is there.  For `MapBounded`, what
pruning leaves are digests that requests ask for (`PrunedIsAskedFor`), and so is the
new entry; so the map has at most as many entries as there are requests.

No run has `FlightInv` as a property: it is proved, and the run `Routes` checks its
consequences.

### The caches (`CachesProofs`)

* `CounterNeverOvercounts`, under `SmallBlobs`: no blob is larger than what an
  eviction leaves.  Without it the theorem is false (section 6); TLC finds the
  counterexample with sizes 2, 4 and 12 of 10.  `DiskInv` compares not the counter
  but what it will be: during an eviction the evictor's own copy, and with it the
  renamed blobs that `committed` has yet to add (`CountedIsThere`); `OwnFiles` says
  that these are different files and `LockOwned` that there is one evictor.
* `ManifestsDoNotLeak`, `ManifestsAreRecent`: `ManifestInv` follows a manifest from
  the moment the upstream gave it: what a fetch brings was current when it began
  (`Fetching`), what is stored was within one fetch of its time stamp (`Stored`), so
  what is served was within the TTL and that fetch (`Served`).  The bound is strict
  because an entry is fresh only below the TTL; with a TTL of 0 nothing is served
  from the map and one fetch remains.
* `ManifestsWithinLimits`: the byte counter is the sum of the entries' sizes, for
  any limits.  The step that matters changes one entry (`ChangeOne`).

Sums over finite sets are a fold in the model.  The facts needed of it (a sum
exists, is unique, and falls by the value of a removed element: `SumExists`,
`SumsAgree`, `SumRemove`) are proved from the existence of a smallest counterexample
(`Smallest`), since induction with an operator as parameter is not available.

### Settings, source list and DNS records (`ConfigProofs`)

`ConfigInvariant` is the inductive invariant: a request that holds a lock is the
only one past it (`LockHeld`), what it merged is the patch on top of what the file
still holds, or of the default if its read failed (`MergedFresh`), what it will rename is whole (`WrittenBeforeRename`),
and a source list that was renamed is the live one or about to be (`SwapPending`,
`SwapsSaved`).  From it `PatchesSurvive`, `PortStaysUsable` and `PoolStaysSaved`, for
any number of writers, values and crashes.

`SuccessMeansAll` and `NoSecondRecord`: for any number of requests and names,
`DnsInv` says that a request has left a record behind it for every name it has
passed (`NamesBehind`), and that of a name that is not excused at most one creation
is under way, and only while it has no record (`OneCreation`).

### Requests to upstreams, the registry of downloads, the source pool (`OutboundProofs`)

* `RedirectsStayInBounds`: `Bounds` is `StaysInBounds` in every state instead of on
  the wire only, so that what a redirect inherits is known.
* `TokensAlive`: `TokenInv` says that a cached token's entry ends before it does
  (`CachedTokens`) and that a token in a request's hands is alive until it is sent
  (`SlotTokens`), if their lifetime was promised; tokens of other kinds may be in the
  cache at the same time.  `TtlFits` is the arithmetic of the margin and the floor.  It
  needs `Floor > 0`: the code's is 30 seconds.
* `DownloadsListed`: `RegistryInv` says that no delayed removal has the handle of a
  download that runs, so the comparison of pointers protects its entry.
* `WeightsAreCurrent`: the scores a process has read are still those of the
  statistics when it stores them, because it keeps `stats.read()` until then
  (`SnapFresh`), and whoever changed the statistics has yet to recompute
  (`Pending`).

### Management (`ManagementProofs`)

* `OneJobAtATime`, `DeploysWhatIsFinished`, `SuccessIsDeployed`: in `CertInv` the
  status is `running` while a job is active and there is at most one (`StatusHeld`); a
  container that exited well has issued a matching pair (`IssuedWell`); from the
  harvest on no container runs (`AtRest`), so what was copied first and what is
  copied last belong together (`Copied`).
* `OvershootIsBounded`: for any finite set of callers.  `PullInv` counts pulling
  jobs and callers between check and push together: a check that passes sees all
  pulling jobs in the list, so only the other callers can come on top.

### Ranges and names (`AlgorithmsProofs`)

`RangesAreExact`, for every size, buffer and limit of integers; `PullsComeHome` and
`ScopesMatchRoutes`, for names of any length over any components, tags and digests.
`file_stream_range` is a recursive function: its blocks are shown to add up to one
run of bytes by looking at the smallest remainder where they do not
(`StreamIsRun`).  For names, `ParsedName`, `PulledRepository`, `RequestParts` and
`PrefixedScope` say what each function yields on what another puts together.
`NamesAssumption` fixes what the code's tests of a first component give for the
literals it uses: `docker.io` and `ghcr.io` look like hosts, `library` does not.

### Only model-checked

* Liveness, because the prover has no rule for fairness and ENABLED:
  `AttemptEnds`, `EventuallyCached`, `Answered`, `JobsEnd`, `JobEnds`, `StopsInTime`,
  `SourceRecovers`, `ProberEnds`, `FetchEnds`, `EntriesGo`.
* The disagreements of the six runs in section 6, which are counterexamples.  `Shutdown` and `Warm` have no safety property of their own.

## 6. Where code and words part

Six runs show a disagreement TLC finds by itself:

* `CacheLimit`: `evict_old` loads the byte counter, removes files and stores its
  own copy; what `committed` adds in between is lost, and the cache stays above
  `CACHE_MAX_GB` with a counter below it.
* `ShutdownUnbounded`: `serve_multi` calls `drain_deadline` after the signal has
  been consumed, and the deadline first waits for a signal: with a client that
  does not close the drain is unbounded until a second signal, and starts anew
  with every connection that ends.
* `WarmNothing`: `start_warm` skips every entry whose kind is not `blob`; the
  parser's kinds are `manifest`, `config` and `layer`.  Nothing is ever warmed, and
  the answer is 202 with nothing queued.

* `BlobTrailing`: a body longer than its range is written before its length is
  known.  For the last chunk the bytes behind the end stay in the part file, also
  when a retry brings the right body, and are committed with it; the hash does not
  cover them.  `README.md:8` says that only what passed the sha256 check lands in
  the cache.  (`BlobIntegrity` speaks of the cells of the blob.)
* `TokenDefault`: a token whose service gives no `expires_in` is cached for 270
  seconds.  Where it lives shorter (the protocol's default is 60) chunks are sent
  with a dead token until then, against `sources.rs:279`.  A token below the floor of
  30 seconds is kept too long in the same way.
* `CertDir`: acme.sh writes into the root of the volume mounted at `/certs`, the copy
  reads `{cache_dir}/certs/{domain}_ecc`, where `dockerpull.rs:857` says the files land.

Others met while modelling.  Where a property excuses one of them, its comment says
so:

* A write the disk refuses is reported by `tokio::fs::File` to the next write or
  flush on the handle, which all chunk tasks share.  The failing chunk's own flush
  may then succeed and the chunk be marked done with a hole, against the comments
  at `chunks.rs:492-494` and `501-503`; the other task tries again for nothing.  The
  digest check catches it at the end (`lost` in `FreshChunksWritten`).
* The collector's send to the client has no timeout (`chunks.rs:334`): a client that
  keeps its connection and stops reading holds the download, the digest's mutex and
  every request behind it (`Stalled` in `AttemptEnds`).
* `Settings::load` takes any error of reading the file for its absence
  (`settings.rs:44-47`).  A patch saved after such an error is merged into the default
  settings, and every field saved before is lost, although a missing field of a patch
  means "unchanged" (`settings.rs:30`).  `NoPatchLost` counts from that save.
* A hung daemon can wedge a pull, against `dockerpull.rs:329-331`: connecting, the
  head of the answer and the retag have no timeout, and a stream that sends a frame
  every ten minutes never times out.
* `load_bitmap` compares lengths.  A sidecar that outlived its part file is
  trusted again when a later part file has grown long enough, holes included.
  The digest check then removes both, which is why `EventuallyCached` holds.
* Aborting a chunk task does not cancel a write already queued on the blocking
  pool, so the next attempt is not the sole writer of its part file, against
  `cache.rs:206-208`.  The write may carry other bytes than the blob's and land after
  the cell was hashed, or in the committed blob.
* `chunks_done` starts at the resumed chunks and counts them again when emitted.
* Evicted part files and sidecars are subtracted though they were never added.
* The evictor's copy of the counter stops at zero.  If it removes a blob larger than
  what an eviction leaves (90 percent of the limit) together with one that is not
  counted yet, the latter is added afterwards and the counter is too high.  This is the hypothesis of `CounterNeverOvercounts`.
* `PullManager::start` unlocks the list between check and push
  (`OvershootBounded` bounds the damage); a job is Done for a moment
  before Retagging, when a trim can drop it; the trim keeps the oldest finished
  jobs.
* `serve_multi` subscribes to the signal anew in every turn of its accept loop; a
  signal between two turns is lost.
* `issue_cert` marks the job running before it may fail or be dropped, and then
  stays running until a restart; certificate and key are copied one after the
  other, and a process that ends in between does not load the pair.
* A chunk task aborted between its report and the weights leaves the old weight
  until the next report or probe (`cut` in `SourcePool`).
* `pick` may return a source without a weight: with a random number of zero, or
  by rounding.
* Parallel chunks that find no token each fetch one.
* `blob_token` takes the repository to end at the first `/blobs/`, routing at the
  last marker: they differ for a repository with a component `blobs`.
* A name of Docker Hub whose namespace looks like a host (`docker.io/quay.io/app`)
  is routed and renamed as if it were that host (`Ambiguous`).
* `start_warm` asks for the tag of a reference that has both tag and digest.
* The doc comment above `fetch_anonymous_token` promises an empty string when the
  token service is out of reach; the function returns an error.
* The doc comment above `parse_single_byte_range` begins with a paragraph
  (`main.rs:2845-2846`) that says `None`, and the upstream's answer, for ranges that
  cannot be satisfied, which are answered with 416; the repository's `README.md:109`
  says that requests with a Range are passed through, while a cached blob is served
  with 206.  `RangeExact` follows the second paragraph of the comment.  A number
  beyond 64 bits makes the header malformed, and the whole blob is sent.
* A redirected POST becomes a GET on 301 and 302 but keeps its body: the branch
  that would drop it is never reached for these.
* A failed lookup of a DNS record is taken for its absence, so the record is
  created a second time; and a request that comes while another creates the
  same name does the same (`excused`).
* Three loads of two counters make up a hit rate in the metrics, which may come
  out above 100 percent.

## 7. Plan

Order of work; the first ten are done.

1. `BlobDownload` with `CacheSlot`: integrity, resumption, liveness, proofs.
2. `SingleFlight` with `Flight`: exclusion, map, refinement, liveness, proofs.
3. `DiskCache`, `ManifestCache`.
4. `PullManager`, `CertJob`, `Shutdown`.
5. `ConfigFiles`, `SourcePool`.
6. Mutated definitions for every property.
7. `Upstream`: token cache, redirects, retries.  `ActiveDownloads`.
8. `DnsRecords`, `Warm`.
9. `ByteRange`, `ImageNames` against reference definitions.
10. Proofs of every invariant of every passing run, and of the composition of the
    runs.
11. Still to model: methods and bodies of redirected requests.
12. A composition of `SingleFlight` and `DiskCache` for two digests of one bucket,
    with the download as one of `Flight`'s flights.
13. Still to prove: action properties behind the liveness that TLC checks (the hop
    count of a request only grows until it ends, a pull never returns to an
    earlier place), and that a restart of the server loses no acknowledged patch as
    a refinement of an abstract register.

## 8. Not modelled

* Metrics history: one task samples counters into a bounded ring behind a lock.
* Request log: a bounded ring with one push per request under one lock.
* The GitHub routes and `require_mgmt_auth`: stateless checks of one request with
  unit tests.  The token and GitHub proxies beyond scopes and redirects: they
  forward headers and one body.
* `chunk_plan_for` and the throughput averages it reads: a clamped step function,
  whose result `BlobDownload` takes to be any size of `PlanSizes`.
* The parsing of the daemon's progress lines: per-layer display.
* TLS file parsing, environment variables and the dashboard page: pure input and
  output.  Whether a certificate and a key load together is in `CertJob`.
* A loss of power (nothing is synced before rename): outside `Crash`, which is the
  end of the process.

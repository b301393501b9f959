----------------------------- MODULE SourcePool -----------------------------
(***************************************************************************)
(* The pool of upstream sources of src/sources.rs: the statistics chunk    *)
(* tasks and probes report, the weights computed from them, pick, and the  *)
(* life of the pool's background prober.  A statistic and the weights are  *)
(* behind two RwLocks; recompute_weights holds stats.read() while it waits *)
(* for weights.write(), everything else is done inside one critical        *)
(* section.  A weight is modelled by the statistics it is the score of:    *)
(* it is positive if there was a success.                                  *)
(***************************************************************************)
EXTENDS Integers, FiniteSets

CONSTANTS
    Sources,        \* indices of the configured sources
    First,          \* index 0
    Reachable,      \* those that answer at first
    Reporters,      \* chunk tasks
    MaxCount,       \* the counters saturate here (u64::MAX)
    MaxOutages,     \* bound: how often a source goes down or comes back
    Aborts          \* TRUE: chunk tasks may be aborted (their download failed)

PoolAssumption ==
    /\ First \in Sources /\ Reachable \subseteq Sources /\ IsFiniteSet(Sources)
    /\ MaxCount \in Nat \ {0} /\ MaxOutages \in Nat
    /\ Aborts \in BOOLEAN

VARIABLES
    stats,      \* of each source: [ok, bad, range, seen]
    weights,    \* of each source: the [ok, bad, range] it was computed from
    live,       \* TRUE: this is the pool in AppState; FALSE: it was replaced
    pc,         \* of each reporter and of each prober
    src,        \* the source a reporter picked
    todo,       \* of each prober: the sources whose probe has not returned
    snap,       \* of each process: the statistics it reads under stats.read()
    up,         \* the sources that answer at present
    outages,
    cut         \* history: a report was aborted and nobody has weighed since

vars == <<stats, weights, live, pc, src, todo, snap, up, outages, cut>>

(* The periodic loop; a round from new() or from trigger_probe. *)
Probers == {"loop", "once"}
Procs == Reporters \cup Probers

score(s) == [ok |-> s.ok, bad |-> s.bad, range |-> s.range]
NoStats == [ok |-> 0, bad |-> 0, range |-> FALSE, seen |-> FALSE]
Positive(w) == w.ok > 0

(* 1.0 is the score of one success at no latency. *)
InitialWeight == [ok |-> 1, bad |-> 0, range |-> FALSE]

saturating_add(n) == IF n = MaxCount THEN n ELSE n + 1

Init ==
    /\ stats = [s \in Sources |-> NoStats]
    /\ weights = [s \in Sources |-> InitialWeight]
    /\ live = TRUE
    /\ pc = [p \in Procs |-> IF p = "once" THEN "probe" ELSE IF p = "loop" THEN "sleep" ELSE "idle"]
    /\ src = [r \in Reporters |-> First]
    /\ todo = [p \in Probers |-> IF p = "once" THEN Sources ELSE {}]
    /\ snap = [p \in Procs |-> [s \in Sources |-> score(NoStats)]]
    /\ up = Reachable
    /\ outages = 0
    /\ cut = FALSE

Goto(p, l) == pc' = [pc EXCEPT ![p] = l]

(* stats.write() is granted when nobody holds stats.read(). *)
AnyTime == TRUE
NoReaders == \A p \in Procs : pc[p] # "weigh"

-----------------------------------------------------------------------------
(* pick *)

(* Neither a source that was measured without Range support ... unless      *)
(* there is no other.                                                       *)
Eligible == LET E == {s \in Sources : ~stats[s].seen \/ stats[s].range}
            IN  IF E = {} THEN Sources ELSE E

(* The walk stops at the first source where the rest of the target is not   *)
(* positive: one with a weight, or index 0 when the random number is 0;     *)
(* rounding may carry it past the end.                                      *)
Picks ==
    LET W == {s \in Sources : Positive(weights[s])}
    IN  IF W = {} THEN Eligible ELSE W \cup {First} \cup Eligible

(* A download begins: it keeps the pool that is in AppState, also when that *)
(* is replaced, until it ends.                                              *)
Begin(r) ==
    /\ live /\ pc[r] = "idle" /\ Goto(r, "ready")
    /\ UNCHANGED <<stats, weights, live, src, todo, snap, up, outages, cut>>

End(r) ==
    /\ pc[r] = "ready" /\ Goto(r, "idle")
    /\ UNCHANGED <<stats, weights, live, src, todo, snap, up, outages, cut>>

Pick(r, s) ==
    /\ pc[r] = "ready"
    /\ s \in Picks
    /\ src' = [src EXCEPT ![r] = s]
    /\ Goto(r, "fetch")
    /\ UNCHANGED <<stats, weights, live, todo, snap, up, outages, cut>>

-----------------------------------------------------------------------------
(* report_success, report_failure *)

Succeeded(s) == [stats EXCEPT ![s].ok = saturating_add(@), ![s].range = TRUE, ![s].seen = TRUE]
Failed(s) == [stats EXCEPT ![s].bad = saturating_add(@), ![s].seen = TRUE]

Report(r) ==
    /\ pc[r] = "fetch" /\ NoReaders
    /\ \/ src[r] \in up /\ stats' = Succeeded(src[r])
       \/ stats' = Failed(src[r])
    /\ Goto(r, "recompute") /\ src' = [src EXCEPT ![r] = First]
    /\ UNCHANGED <<weights, live, todo, snap, up, outages, cut>>

(* recompute_weights: stats.read(), then weights.write(). *)
ReadStats(p) ==
    /\ pc[p] = "recompute"
    /\ snap' = [snap EXCEPT ![p] = [s \in Sources |-> score(stats[s])]]
    /\ Goto(p, "weigh")
    /\ UNCHANGED <<stats, weights, live, src, todo, up, outages, cut>>

Weigh(p) ==
    /\ pc[p] = "weigh"
    /\ weights' = snap[p]
    /\ snap' = [snap EXCEPT ![p] = [s \in Sources |-> score(NoStats)]]
    /\ Goto(p, IF p = "loop" THEN "sleep" ELSE IF p = "once" THEN "idle" ELSE "ready")
    /\ cut' = FALSE
    /\ UNCHANGED <<stats, live, src, todo, up, outages>>

(* The download of the chunk fails elsewhere and its JoinSet is dropped. *)
AbortTask(r) ==
    /\ Aborts /\ pc[r] \in {"fetch", "recompute", "weigh"}
    /\ snap' = [snap EXCEPT ![r] = [s \in Sources |-> score(NoStats)]]
    /\ Goto(r, "idle")
    /\ cut' = (cut \/ pc[r] # "fetch")
    /\ src' = [src EXCEPT ![r] = First]
    /\ UNCHANGED <<stats, weights, live, todo, up, outages>>

-----------------------------------------------------------------------------
(* The probers *)

(* Arcs of the pool: AppState's, the downloads', a single round's, the loop's. *)
StrongCount ==
    (IF live THEN 1 ELSE 0) + (IF pc["loop"] = "gone" THEN 0 ELSE 1)
        + Cardinality({p \in Procs \ {"loop"} : pc[p] # "idle"})

LastArcOff == StrongCount = 0
LastArc == StrongCount = 1

Tick ==
    /\ pc["loop"] = "sleep"
    /\ IF LastArc
         THEN Goto("loop", "gone") /\ UNCHANGED todo
         ELSE Goto("loop", "probe") /\ todo' = [todo EXCEPT !["loop"] = Sources]
    /\ UNCHANGED <<stats, weights, live, src, snap, up, outages, cut>>

trigger_probe ==
    /\ live /\ pc["once"] = "idle"
    /\ Goto("once", "probe") /\ todo' = [todo EXCEPT !["once"] = Sources]
    /\ UNCHANGED <<stats, weights, live, src, snap, up, outages, cut>>

(* probe_one: a 2xx, 401 or 405 is a success, with or without the header    *)
(* Accept-Ranges; another status, an error or a timeout is a failure.       *)
ProbeNeverCounts(s) == stats' = [stats EXCEPT ![s].seen = TRUE]
ProbeAnswered(s) ==
    \E range \in BOOLEAN :
        stats' = [stats EXCEPT ![s].ok = saturating_add(@), ![s].range = @ \/ range,
                               ![s].seen = TRUE]

ProbeOne(p, s) ==
    /\ pc[p] = "probe" /\ s \in todo[p] /\ NoReaders
    /\ IF s \in up THEN ProbeAnswered(s) ELSE stats' = Failed(s)
    /\ todo' = [todo EXCEPT ![p] = @ \ {s}]
    /\ UNCHANGED <<weights, live, pc, src, snap, up, outages, cut>>

(* All probes have returned: recompute the weights. *)
ProbesJoined(p) ==
    /\ pc[p] = "probe" /\ todo[p] = {}
    /\ Goto(p, "recompute")
    /\ UNCHANGED <<stats, weights, live, src, todo, snap, up, outages, cut>>

-----------------------------------------------------------------------------
(* save_sources_config puts another pool into AppState. *)
Replace ==
    /\ live /\ live' = FALSE
    /\ UNCHANGED <<stats, weights, pc, src, todo, snap, up, outages, cut>>

(* A source goes down or comes back. *)
Outage(s) ==
    /\ outages < MaxOutages /\ outages' = outages + 1
    /\ up' = IF s \in up THEN up \ {s} ELSE up \cup {s}
    /\ UNCHANGED <<stats, weights, live, pc, src, todo, snap, cut>>

Retired == pc["loop"] = "gone" /\ UNCHANGED vars

Recompute(p) == ReadStats(p) \/ Weigh(p)
Probe(p) == (\E s \in Sources : ProbeOne(p, s)) \/ ProbesJoined(p)

(* What a task that has begun goes on with by itself. *)
Step(p) ==
    \/ Recompute(p)
    \/ p \in Reporters /\ Report(p)
    \/ p \in Probers /\ Probe(p)
    \/ p = "loop" /\ Tick

Next ==
    \/ \E r \in Reporters :
          Begin(r) \/ End(r) \/ (\E s \in Sources : Pick(r, s)) \/ Report(r) \/ AbortTask(r)
    \/ \E p \in Probers : Probe(p)
    \/ \E p \in Procs : Recompute(p)
    \/ Tick \/ trigger_probe \/ Replace \/ Retired
    \/ \E s \in Sources : Outage(s)

Spec == Init /\ [][Next]_vars

-----------------------------------------------------------------------------
(* Properties *)

Scores == [s \in Sources |-> score(stats[s])]
Quiet == \A p \in Procs : pc[p] \notin {"recompute", "weigh"}
Measured == \E s \in Sources : stats[s].seen

(* When no task or prober is about to recompute them, the weights are the   *)
(* scores of the statistics: concurrent reports do not leave an older       *)
(* weight behind.  Only a task that is aborted between its report and its   *)
(* weights does, until the next report or round.                            *)
WeightsFollowStats ==
    Quiet /\ (\A p \in Probers : pc[p] # "probe") /\ Measured /\ ~cut => weights = Scores

(* A source that answers from some time on gets a positive weight, even if  *)
(* it had been out of rotation and no chunk was ever tried on it again.     *)
SourceRecovers ==
    \A s \in Sources : <>[](s \in up /\ live) => <>[](Positive(weights[s]))

(* The prober of a pool that was replaced stops once the downloads that     *)
(* have kept the pool are over (from when on both stay so).                 *)
ProberEnds == []<>(~live /\ (\A r \in Reporters : pc[r] = "idle") => pc["loop"] = "gone")

=============================================================================

------------------------------- MODULE CertJob -------------------------------
(***************************************************************************)
(* Issuing a certificate: issue_cert of src/main.rs, the job it spawns     *)
(* (issue_cert_job of src/dockerpull.rs), restart_gateway, and what main   *)
(* loads when the process starts.  The job's status is in memory, behind a *)
(* mutex; the acme.sh container and the files survive the process.  The    *)
(* container has a fixed name, so there is at most one.                    *)
(***************************************************************************)
EXTENDS Integers, FiniteSets

CONSTANTS
    Requests,       \* calls of issue_cert, and the tasks they spawn
    MaxIssues,      \* bound: certificates the CA issues
    MaxRestarts     \* bound: crashes and restarts

CertAssumption == MaxIssues \in Nat /\ MaxRestarts \in Nat

VARIABLES
    layout,     \* of the deployment: what cache_dir/certs/{domain}_ecc is
    status,     \* of the job: "idle", "running", "done" or "failed"
    pc,         \* where each call, then its task, is
    container,  \* web-proxy-acme: "none", "created", "running", "ok" or "bad" (exited)
    issued,     \* what acme.sh wrote last: [cert, key]; a certificate names its key
    live,       \* certs/live: [cert, key], each NoCert, Torn or a value of issued
    loaded,     \* TRUE: the process runs with the pair of certs/live, FALSE: it fell back
    restarts

vars == <<layout, status, pc, container, issued, live, loaded, restarts>>

NoCert == [ver |-> 0, key |-> 0]
Torn == [ver |-> -1, key |-> -1]
NoFiles == [cert |-> NoCert, key |-> 0]

(* acme.sh writes into the root of the volume mounted at /data, the copy    *)
(* reads cache_dir/certs/{domain}_ecc.  Unless the deployment has made the  *)
(* two one directory, the copy finds nothing, or a pair that somebody put   *)
(* there.                                                                   *)
Layouts == {"apart", "placed", "linked"}

Placed == LET v == MaxIssues + 1 IN [cert |-> [ver |-> v, key |-> v], key |-> v]

found == CASE layout = "apart" -> NoFiles [] layout = "placed" -> Placed [] OTHER -> issued

Deploying == {"cert", "certcopy", "key", "keycopy"}
Tasks == {"pull", "inspect", "clean", "create", "start", "wait", "reap", "bury"}
            \cup Deploying \cup {"succeed", "fail"}

Init ==
    /\ layout \in Layouts
    /\ status = "idle"
    /\ pc = [r \in Requests |-> "idle"]
    /\ container = "none"
    /\ issued = NoFiles /\ live = NoFiles
    /\ loaded = FALSE
    /\ restarts = 0

Goto(r, l) == pc' = [pc EXCEPT ![r] = l]

-----------------------------------------------------------------------------
(* issue_cert *)

(* Under the mutex: refuse while a job runs, otherwise claim the job. *)
MayClaimAlways == TRUE
MayClaim == status # "running"

Claim(r) ==
    /\ pc[r] = "idle" /\ MayClaim
    /\ status' = "running"
    /\ Goto(r, "asked")
    /\ UNCHANGED <<layout, container, issued, live, loaded, restarts>>

(* The answer 409. *)
Conflict(r) == pc[r] = "idle" /\ ~MayClaim /\ UNCHANGED vars

(* self_container_id: spawn the task, or answer 500 ... *)
SelfId(r) ==
    /\ pc[r] = "asked"
    /\ Goto(r, "pull") \/ Goto(r, "idle")
    /\ UNCHANGED <<layout, status, container, issued, live, loaded, restarts>>

(* ... unless the client disconnects first and the handler is dropped. *)
Disconnect(r) ==
    /\ pc[r] = "asked"
    /\ Goto(r, "idle")
    /\ UNCHANGED <<layout, status, container, issued, live, loaded, restarts>>

-----------------------------------------------------------------------------
(* issue_cert_job *)

(* A call of the docker API that returns, and the ones after which `?`      *)
(* ends the job.                                                            *)
Call(r, from, to) ==
    /\ pc[r] = from
    /\ Goto(r, to)
    /\ UNCHANGED <<layout, status, container, issued, live, loaded, restarts>>

PullImage(r) == Call(r, "pull", "inspect") \/ Call(r, "pull", "fail")
Inspect(r) == Call(r, "inspect", "clean") \/ Call(r, "inspect", "fail")

(* A leftover container is removed by force; the result is ignored. *)
RemoveLeftover(r) ==
    /\ pc[r] = "clean"
    /\ container' \in {"none", container}
    /\ Goto(r, "create")
    /\ UNCHANGED <<layout, status, issued, live, loaded, restarts>>

(* The daemon refuses a second container of the same name.  A call that     *)
(* timed out may have had its effect all the same.                          *)
CreateContainer(r) ==
    /\ pc[r] = "create"
    /\ \/ container = "none" /\ container' = "created" /\ (Goto(r, "start") \/ Goto(r, "fail"))
       \/ Goto(r, "fail") /\ UNCHANGED container
    /\ UNCHANGED <<layout, status, issued, live, loaded, restarts>>

StartContainer(r) ==
    /\ pc[r] = "start"
    /\ \/ container = "created" /\ container' = "running" /\ (Goto(r, "wait") \/ Goto(r, "fail"))
       \/ Goto(r, "fail") /\ UNCHANGED container
    /\ UNCHANGED <<layout, status, issued, live, loaded, restarts>>

(* wait returns the exit code; a code other than 0, or none, is a failure. *)
WaitReturns(r) ==
    /\ pc[r] = "wait"
    /\ \/ container = "ok" /\ Goto(r, "reap")
       \/ container = "bad" /\ Goto(r, "bury")
    /\ UNCHANGED <<layout, status, container, issued, live, loaded, restarts>>

(* After 900 s, or when the call fails: the container is left as it is. *)
WaitPatiently(r) == FALSE
WaitAsSuccess(r) == Call(r, "wait", "reap")
WaitTimeout(r) == Call(r, "wait", "fail")

(* Remove the container; the result is ignored.  Without force the daemon   *)
(* keeps a running one.                                                     *)
RemoveContainer(r) ==
    /\ pc[r] \in {"reap", "bury"}
    /\ \/ (container # "running" \/ pc[r] = "bury") /\ container' = "none"
       \/ UNCHANGED container
    /\ Goto(r, IF pc[r] = "reap" THEN "cert" ELSE "fail")
    /\ UNCHANGED <<layout, status, issued, live, loaded, restarts>>

(* tokio::fs::copy: it fails before it has opened the source and the target, *)
(* or truncates the target and then copies, or fails in between.            *)
CopyOpens(r) ==
    /\ found # NoFiles
    /\ \/ pc[r] = "cert" /\ live' = [live EXCEPT !.cert = Torn] /\ Goto(r, "certcopy")
       \/ pc[r] = "key" /\ live' = [live EXCEPT !.key = -1] /\ Goto(r, "keycopy")
    /\ UNCHANGED <<layout, status, container, issued, loaded, restarts>>

CopyEnds(r) ==
    /\ \/ pc[r] = "certcopy" /\ live' = [live EXCEPT !.cert = found.cert] /\ Goto(r, "key")
       \/ pc[r] = "keycopy" /\ live' = [live EXCEPT !.key = found.key] /\ Goto(r, "succeed")
    /\ UNCHANGED <<layout, status, container, issued, loaded, restarts>>

CopyFailsQuietly(r) == \E p \in Deploying : Call(r, p, "succeed")
CopyFails(r) == \E p \in Deploying : Call(r, p, "fail")

(* Back in issue_cert's task: record the result; after a success ask the    *)
(* daemon to restart this container.                                        *)
Record(r) ==
    /\ \/ pc[r] = "succeed" /\ status' = "done" /\ Goto(r, "reboot")
       \/ pc[r] = "fail" /\ status' = "failed" /\ Goto(r, "idle")
    /\ UNCHANGED <<layout, container, issued, live, loaded, restarts>>

(* The daemon does not answer, or no id: the process stays as it is. *)
NoReboot(r) == Call(r, "reboot", "idle")

-----------------------------------------------------------------------------
(* acme.sh, whoever waits for it or not: a new certificate, for the same    *)
(* key or for a new one, or a failure.                                      *)
AcmeExits ==
    /\ container = "running"
    /\ \/ /\ issued.cert.ver < MaxIssues
          /\ container' = "ok"
          /\ \E k \in {issued.key, issued.cert.ver + 1} \ {0} :
                issued' = [cert |-> [ver |-> issued.cert.ver + 1, key |-> k], key |-> k]
       \/ container' = "bad" /\ UNCHANGED issued
    /\ UNCHANGED <<layout, status, pc, live, loaded, restarts>>

(* The process ends at any point: a crash, restart_gateway, or the restart  *)
(* after a success.  main loads certs/live if both files are there and      *)
(* belong together, and falls back to the environment's otherwise.          *)
Loads(f) == f.cert.ver > 0 /\ f.key > 0 /\ f.cert.key = f.key

Restart ==
    /\ restarts < MaxRestarts /\ restarts' = restarts + 1
    /\ status' = "idle"
    /\ pc' = [r \in Requests |-> "idle"]
    /\ loaded' = Loads(live)
    /\ UNCHANGED <<layout, container, issued, live>>

Task(r) ==
    \/ SelfId(r) \/ PullImage(r) \/ Inspect(r) \/ RemoveLeftover(r)
    \/ CreateContainer(r) \/ StartContainer(r) \/ WaitReturns(r) \/ WaitTimeout(r)
    \/ RemoveContainer(r) \/ CopyOpens(r) \/ CopyEnds(r) \/ CopyFails(r)
    \/ Record(r) \/ NoReboot(r)

Next ==
    \/ \E r \in Requests : Claim(r) \/ Conflict(r) \/ Disconnect(r) \/ Task(r)
    \/ AcmeExits \/ Restart

Spec == Init /\ [][Next]_vars

(* The daemon ends the answers it begins; the container may run for ever. *)
Fairness == \A r \in Requests : WF_vars(Task(r))
FairSpec == Spec /\ Fairness

-----------------------------------------------------------------------------
(* Properties *)

Active == {r \in Requests : pc[r] \in Tasks \cup {"asked"}}

(* There is never more than one job between its claim and its result, so    *)
(* nobody removes or waits for the container of another.                    *)
OneJob == Cardinality(Active) <= 1

(* While the files are copied no acme.sh runs that could rewrite them, not  *)
(* even one left over from a job that timed out or died with the process.   *)
DeploysFinished == (\E r \in Requests : pc[r] \in Deploying) => container # "running"

(* A job that reports success has deployed the whole of the pair that it    *)
(* found, and the next process can load it, although the two files are      *)
(* copied one after the other and a leftover acme.sh may write the source.  *)
DoneIsDeployed == status = "done" => Loads(live) /\ live = found

(* "Certificates land under {cache_dir}/certs/{domain}_ecc/" (the comment   *)
(* above issue_cert_job): what a job deploys is what acme.sh has issued.    *)
DeploysIssued == (\E r \in Requests : pc[r] \in Deploying) => found = issued

(* A job ends even if its container never does. *)
JobEnds == \A r \in Requests : []<>(r \notin Active)

=============================================================================

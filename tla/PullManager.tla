----------------------------- MODULE PullManager -----------------------------
(***************************************************************************)
(* The pull jobs of src/dockerpull.rs: PullManager::start, run, the stream *)
(* of docker_pull, docker_retag, and start_pull of src/main.rs that calls  *)
(* them.  Callers (management requests) start jobs concurrently; each job  *)
(* is a task of its own that talks to the docker daemon.  The list of jobs *)
(* is behind one mutex, every job's state behind another, and start looks  *)
(* at the states with try_lock.                                            *)
(***************************************************************************)
EXTENDS Integers, FiniteSets

CONSTANTS
    Callers,        \* concurrent requests to start_pull
    Images,         \* image references asked for
    Retagged,       \* those with a tag, renamed after the pull (plan_pull)
    None,           \* no image
    MaxActive,      \* MAX_ACTIVE_PULL_JOBS (32)
    MaxFinished,    \* MAX_FINISHED_JOBS (20)
    MaxJobs         \* bound: jobs started in a behaviour

PullAssumption ==
    /\ Retagged \subseteq Images /\ None \notin Images
    /\ MaxActive \in Nat \ {0} /\ MaxFinished \in Nat /\ MaxJobs \in Nat
    /\ IsFiniteSet(Callers)

VARIABLES
    want,       \* of each caller: the image it is about to create a job for
    next_id,    \* the next job's id; ids grow in the order of the list
    image,      \* of each job: what it pulls
    st,         \* of each job: where its task is
    quiet,      \* of each job: time has passed since the last frame of its stream
    jobs        \* the ids in the manager's list

vars == <<want, next_id, image, st, quiet, jobs>>

Ids == 1 .. MaxJobs

(* The points of a job's task.  status is Pulling in the first two; Done in *)
(* "pulled", for the moment until run sets Retagging; Retagging in "retag". *)
Points == {"none", "request", "stream", "pulled", "retag", "done", "failed"}
Running == {"request", "stream", "pulled", "retag"}
Busy == {"request", "stream", "retag"}

Init ==
    /\ want = [c \in Callers |-> None]
    /\ next_id = 1
    /\ image = [j \in Ids |-> None]
    /\ st = [j \in Ids |-> "none"]
    /\ quiet = [j \in Ids |-> FALSE]
    /\ jobs = {}

-----------------------------------------------------------------------------
(* start *)

(* What try_lock on the states may show: a job whose task holds its mutex   *)
(* counts as active, so one that is just passing through Done can be seen   *)
(* either way.                                                              *)
Views == {{j \in jobs : st[j] \in Busy} \cup S : S \in SUBSET {j \in jobs : st[j] = "pulled"}}

(* The first critical section of start: an active job for the same image is *)
(* returned, too many active jobs are refused, otherwise a job will be      *)
(* created, but the list is unlocked in between.                            *)
TooManyLate(active) == Cardinality(active) > MaxActive
TooMany(active) == Cardinality(active) >= MaxActive

SameImage(active, i) == \E j \in active : image[j] = i

Check(c, i) ==
    /\ want[c] = None
    /\ \E active \in Views :
          /\ ~SameImage(active, i) /\ ~TooMany(active)
          /\ want' = [want EXCEPT ![c] = i]
    /\ UNCHANGED <<next_id, image, st, quiet, jobs>>

(* retain, in list order: active jobs stay, and the first MAX_FINISHED_JOBS *)
(* of the others.                                                           *)
Retain(L, active) ==
    {j \in L : j \in active \/ Cardinality({k \in L \ active : k <= j}) <= MaxFinished}

fetch_add == next_id' = next_id + 1

(* The second critical section, and the spawn of the job's task. *)
Create(c) ==
    /\ want[c] # None /\ next_id <= MaxJobs
    /\ want' = [want EXCEPT ![c] = None]
    /\ fetch_add
    /\ image' = [image EXCEPT ![next_id] = want[c]]
    /\ st' = [st EXCEPT ![next_id] = "request"]
    /\ \E active \in Views : jobs' = Retain(jobs \cup {next_id}, active \cup {next_id})
    /\ UNCHANGED quiet

(* Requests that end in an existing job or in an error. *)
Refused(c, i) ==
    /\ want[c] = None
    /\ \E active \in Views : SameImage(active, i) \/ TooMany(active)
    /\ UNCHANGED vars

-----------------------------------------------------------------------------
(* run: one task per job *)

Move(j, from, to) ==
    /\ st[j] = from /\ st' = [st EXCEPT ![j] = to]
    /\ quiet' = [quiet EXCEPT ![j] = FALSE]
    /\ UNCHANGED <<want, next_id, image, jobs>>

(* connect, handshake and send_request up to the response's head: nothing   *)
(* bounds the time the daemon takes.                                        *)
DaemonAccepts(j) == Move(j, "request", "stream")
DaemonRefuses(j) == Move(j, "request", "failed")

(* The progress stream: it ends with a final status line, or without one,   *)
(* or with an error line or a broken frame.                                 *)
AfterPull(j) == IF image[j] \in Retagged THEN "pulled" ELSE "done"
StreamEnds(j) == Move(j, "stream", AfterPull(j)) \/ Move(j, "stream", "failed")

(* The timer of PULL_IDLE_TIMEOUT is started anew for every frame: it runs  *)
(* while none arrives ...                                                   *)
Listen(j, silent) ==
    /\ st[j] = "stream" /\ quiet[j] # silent
    /\ quiet' = [quiet EXCEPT ![j] = silent]
    /\ UNCHANGED <<want, next_id, image, st, jobs>>

Frame(j) == Listen(j, FALSE)
TimerRuns(j) == Listen(j, TRUE)

(* ... and runs out if none has arrived since. *)
NoTimeout(j) == FALSE
IdleTimeout(j) == quiet[j] /\ Move(j, "stream", "failed")

BeginRetag(j) == Move(j, "pulled", "retag")

(* docker_retag: again nothing bounds the daemon's time. *)
RetagEnds(j) == Move(j, "retag", "done") \/ Move(j, "retag", "failed")

Daemon(j) == DaemonAccepts(j) \/ DaemonRefuses(j) \/ RetagEnds(j)
Task(j) == TimerRuns(j) \/ IdleTimeout(j) \/ BeginRetag(j)

(* The bound on the number of jobs is reached: nothing more is started. *)
BoundReached == next_id > MaxJobs /\ UNCHANGED vars

Next ==
    \/ BoundReached
    \/ \E c \in Callers :
          (\E i \in Images : Check(c, i) \/ Refused(c, i)) \/ Create(c)
    \/ \E j \in Ids : Daemon(j) \/ Frame(j) \/ StreamEnds(j) \/ Task(j)

Spec == Init /\ [][Next]_vars

(* A job's own steps are taken and its timer runs; the daemon owes nothing. *)
Fairness == \A j \in Ids : WF_vars(Task(j))
FairSpec == Spec /\ Fairness

-----------------------------------------------------------------------------
(* Properties *)

Pulling == {j \in Ids : st[j] \in {"request", "stream"}}
Creating == {c \in Callers : want[c] # None}

(* Although start unlocks the list between its check and its push, the     *)
(* callers that got past the check are all by which the number of pulls may *)
(* exceed MAX_ACTIVE_PULL_JOBS, and by which an image may be pulled more    *)
(* than once at a time.  Both rest on the trimming of the list: a job that  *)
(* pulls is never dropped from it, so no later check misses it.             *)
OvershootBounded ==
    /\ Cardinality(Pulling) + Cardinality(Creating) <= MaxActive + Cardinality(Callers) - 1
    /\ \A i \in Images :
          Cardinality({j \in Pulling : image[j] = i}) + Cardinality({c \in Creating : want[c] = i})
              <= Cardinality(Callers)
    /\ Pulling \subseteq jobs

(* The idle timeout ends every pull whose stream falls silent, so its image *)
(* can be pulled again.  A job that never ends waits for the daemon's head  *)
(* or for its answer to the retag, for which the code has no timeout, or is *)
(* sent frames for ever.                                                    *)
JobsEnd ==
    \A j \in Ids :
        <>[](st[j] \in Running) =>
            \/ <>[](st[j] \in {"request", "retag"})
            \/ []<>(st[j] = "stream" /\ ~quiet[j])

=============================================================================

--------------------------- MODULE ActiveDownloads ---------------------------
(***************************************************************************)
(* The registry of running downloads that the dashboard shows:             *)
(* ActiveDownloadGuard of src/cache.rs, held by chunks::download.  The     *)
(* guard is dropped at the end of a download, but its entry goes in a task *)
(* of its own, and the next download of the digest may have registered by  *)
(* then.  At most one download of a digest runs at a time (SingleFlight).  *)
(***************************************************************************)
EXTENDS Integers

CONSTANTS
    Digests,
    MaxHandles      \* bound: downloads started

VARIABLES
    task,       \* of each digest: "idle", "register" or "run"
    own,        \* of each digest: the handle of its latest download
    listed,     \* active_downloads: a handle for each digest, 0 for none
    drops,      \* spawned removals that have not run
    made,       \* handles allocated
    viewed      \* TRUE: a request of the dashboard holds the map's mutex

vars == <<task, own, listed, drops, made, viewed>>

Handles == 1 .. MaxHandles

Init ==
    /\ task = [d \in Digests |-> "idle"] /\ own = [d \in Digests |-> 0]
    /\ listed = [d \in Digests |-> 0]
    /\ drops = {} /\ made = 0 /\ viewed = FALSE

Start(d) ==
    /\ task[d] = "idle" /\ made < MaxHandles
    /\ task' = [task EXCEPT ![d] = "register"]
    /\ own' = [own EXCEPT ![d] = made + 1]
    /\ made' = made + 1
    /\ UNCHANGED <<listed, drops, viewed>>

(* ActiveDownloadGuard::new, once the map's mutex is free. *)
Register(d) ==
    /\ task[d] = "register" /\ ~viewed
    /\ task' = [task EXCEPT ![d] = "run"]
    /\ listed' = [listed EXCEPT ![d] = own[d]]
    /\ UNCHANGED <<own, drops, made, viewed>>

(* The download returns, with a result or an error: drop spawns the removal. *)
End(d) ==
    /\ task[d] = "run"
    /\ task' = [task EXCEPT ![d] = "idle"]
    /\ drops' = drops \cup {[digest |-> d, handle |-> own[d]]}
    /\ UNCHANGED <<own, listed, made, viewed>>

(* Arc::ptr_eq. *)
AnyEntry(x) == TRUE
OwnEntry(x) == listed[x.digest] = x.handle

TryRemove(x) ==
    /\ x \in drops
    /\ drops' = drops \ {x}
    /\ listed' = IF ~viewed /\ OwnEntry(x) THEN [listed EXCEPT ![x.digest] = 0] ELSE listed
    /\ UNCHANGED <<task, own, made, viewed>>

(* The spawned task gets the mutex. *)
Remove(x) ==
    /\ x \in drops /\ ~viewed
    /\ drops' = drops \ {x}
    /\ listed' = IF OwnEntry(x) THEN [listed EXCEPT ![x.digest] = 0] ELSE listed
    /\ UNCHANGED <<task, own, made, viewed>>

(* stats, downloads and clear_cache read the map. *)
View == ~viewed /\ viewed' = TRUE /\ UNCHANGED <<task, own, listed, drops, made>>
ViewEnds == viewed /\ viewed' = FALSE /\ UNCHANGED <<task, own, listed, drops, made>>

AllDrops == [digest : Digests, handle : Handles]

Next ==
    \/ \E d \in Digests : Start(d) \/ Register(d) \/ End(d)
    \/ \E x \in AllDrops : Remove(x)
    \/ View \/ ViewEnds

(* Spawned tasks run, nothing is awaited under the mutex, and its queue is  *)
(* fair: removals that wait get their turn between the viewers.             *)
Fairness == WF_vars(ViewEnds) /\ SF_vars(\E x \in AllDrops : Remove(x))

Spec == Init /\ [][Next]_vars
FairSpec == Spec /\ Fairness

-----------------------------------------------------------------------------
(* Properties *)

(* A registered download is in the dashboard's list until it ends, although *)
(* the removal of an earlier one of its digest may come while it runs.      *)
ListedWhileRunning == \A d \in Digests : task[d] = "run" => listed[d] = own[d]

(* The entry of a download that has ended does not stay.                    *)
Zombie(d) == listed[d] # 0 /\ ~(task[d] = "run" /\ own[d] = listed[d])
EntriesGo == \A d \in Digests : []<>(~Zombie(d))

=============================================================================

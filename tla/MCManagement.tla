---------------------------- MODULE MCManagement ----------------------------
(* The jobs behind the management API (pulls, certificates) and the end of  *)
(* the process.  The three components share no state, and none of the steps *)
(* whose fairness is assumed is enabled in an initial state: a behaviour in *)
(* which one of them moves and the others rest shows all there is to see of *)
(* it, and the product is not needed.                                       *)
EXTENDS Integers, FiniteSets

CONSTANTS
    Callers, Images, Retagged, None, MaxActive, MaxFinished, MaxJobs,
    Requests, MaxIssues, MaxRestarts,
    Conns, MaxSignals

VARIABLES
    part,       \* the component that moves
    want, next_id, image, st, quiet, jobs,
    layout, status, pc, container, issued, live, loaded, restarts,
    multi, main, heard, deadline, conn, told, timer, signals

Pulls == INSTANCE PullManager
Cert == INSTANCE CertJob
Serving == INSTANCE Shutdown

ASSUME ManagementAssumption ==
    Pulls!PullAssumption /\ Cert!CertAssumption /\ Serving!ShutdownAssumption

pulls == <<want, next_id, image, st, quiet, jobs>>
cert == <<layout, status, pc, container, issued, live, loaded, restarts>>
serving == <<multi, main, heard, deadline, conn, told, timer, signals>>
vars == <<part, pulls, cert, serving>>

Init ==
    /\ part \in {"pulls", "cert", "serving"}
    /\ Pulls!Init /\ Cert!Init /\ Serving!Init
    /\ part = "serving" \/ ~multi
    /\ part = "cert" \/ layout = "apart"

(* serve_multi may wait for a signal, or for its clients, for ever. *)
Waits == part = "serving" /\ UNCHANGED vars

Next ==
    \/ /\ part = "pulls" /\ Pulls!Next
       /\ UNCHANGED <<part, cert, serving>>
    \/ /\ part = "cert" /\ Cert!Next
       /\ UNCHANGED <<part, pulls, serving>>
    \/ /\ part = "serving" /\ Serving!Next
       /\ UNCHANGED <<part, pulls, cert>>
    \/ Waits

Spec ==
    /\ Init /\ [][Next]_vars
    /\ Pulls!Fairness /\ Cert!Fairness /\ Serving!Fairness

-----------------------------------------------------------------------------
(* Properties, stated and explained in the components' modules *)

(* Callers between check and push exceed the limit of pulls, nobody else. *)
OvershootBounded == Pulls!OvershootBounded
(* A pull ends although its stream falls silent. *)
JobsEnd == Pulls!JobsEnd
(* One certificate job at a time. *)
OneJob == Cert!OneJob
(* No acme.sh writes the files that are copied. *)
DeploysFinished == Cert!DeploysFinished
(* Success means that the pair found is deployed, both files of it. *)
DoneIsDeployed == Cert!DoneIsDeployed
(* A certificate job ends although its container does not. *)
JobEnds == Cert!JobEnds
(* A single listener stops after a signal. *)
StopsInTime == Serving!StopsInTime
=============================================================================

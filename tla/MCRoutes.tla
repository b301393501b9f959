------------------------------ MODULE MCRoutes ------------------------------
(* The routes of clients: two requests for three digests in the blob route, *)
(* with a map that is pruned at every entry; and the functions that take    *)
(* apart what a request says.  They share no state: a behaviour moves one   *)
(* of them and leaves the other at rest.                                    *)
EXTENDS SingleFlight, PureFunctions

VARIABLE part       \* what moves

BothInit ==
    /\ Init /\ InputInit
    /\ part \in {"flight", "functions"}
    /\ part = "flight" => input = CHOOSE i \in RangeInputs : TRUE

BothNext ==
    \/ part = "flight" /\ Next /\ UNCHANGED <<part, input, output>>
    \/ part = "functions" /\ InputNext /\ UNCHANGED <<part, vars>>

BothSpec == BothInit /\ [][BothNext]_<<part, vars, input, output>> /\ Fairness
=============================================================================

--------------------------- MODULE MCConfigFiles ---------------------------
(* Model checking of ConfigFiles with concurrent requests, and of the       *)
(* handler that works from those settings, DnsRecords.  They share no       *)
(* state, since a request loads the settings once; a behaviour moves one of *)
(* them and leaves the other at rest.                                       *)
EXTENDS ConfigFiles, TLC

CONSTANTS DnsCalls, NumNames

VARIABLES part, call, at, records, stray, excused

Dns == INSTANCE DnsRecords

ASSUME DnsAssumption == NumNames \in Nat \ {0}

dns == <<call, at, records, stray, excused>>

BothInit ==
    /\ part \in {"files", "dns"}
    /\ Init /\ Dns!Init
    /\ part = "dns" \/ \A n \in Dns!DnsNames : records[n] = 0

BothNext ==
    \/ part = "files" /\ Next /\ UNCHANGED <<part, dns>>
    \/ part = "dns" /\ Dns!Next /\ UNCHANGED <<part, vars>>

BothSpec == BothInit /\ [][BothNext]_<<part, vars, dns>>

Symmetry == Permutations(Writers) \cup Permutations(DnsCalls)

(* Success means that every name has its record: see module DnsRecords. *)
OkMeansAll == Dns!OkMeansAll
(* Asking again creates no record twice. *)
NoDuplicates == Dns!NoDuplicates
=============================================================================

----------------------------- MODULE DnsRecords -----------------------------
(***************************************************************************)
(* create_dns_records of src/main.rs: one request to the management API    *)
(* looks up the zone, then for each of the names in turn whether it has a  *)
(* record, and creates one if not.  Nothing serialises two requests; every *)
(* call may fail; and the client may leave, which drops the handler at     *)
(* whatever it awaits.                                                     *)
(***************************************************************************)
EXTENDS Integers

CONSTANTS
    DnsCalls,       \* requests
    NumNames        \* the domain, docker., git. and *. below it (4)

VARIABLES
    call,       \* of each request: where it is
    at,         \* of each request: the name it works on
    records,    \* A records of each name at the provider
    stray,      \* dropped requests whose last creation is still on its way
    excused     \* history: names that were looked up in vain, or while another creation was on its way

vars == <<call, at, records, stray, excused>>

DnsNames == 1 .. NumNames

Init ==
    /\ call = [c \in DnsCalls |-> "new"] /\ at = [c \in DnsCalls |-> 1]
    /\ records \in [DnsNames -> 0 .. 1]
    /\ stray = {} /\ excused = {}

Goto(c, l) == call' = [call EXCEPT ![c] = l]

(* Load the settings, ask for the zone: 400 or 502 when there is none. *)
ZoneLookup(c) ==
    /\ call[c] = "new"
    /\ Goto(c, "lookup") \/ Goto(c, "failed")
    /\ UNCHANGED <<at, records, stray, excused>>

NextName(c) ==
    IF at[c] = NumNames THEN Goto(c, "ok") /\ UNCHANGED at
    ELSE Goto(c, "lookup") /\ at' = [at EXCEPT ![c] = @ + 1]

NotAsked(n) == FALSE
Already(n) == records[n] > 0

OnItsWay(n) == \E c \in DnsCalls : at[c] = n /\ (call[c] = "create" \/ c \in stray)

(* The name has a record: skipped. *)
Skip(c) ==
    /\ call[c] = "lookup" /\ Already(at[c])
    /\ NextName(c)
    /\ UNCHANGED <<records, stray, excused>>

(* It has none, or the lookup failed, which is taken for the same.          *)
Miss(c, failed) ==
    /\ call[c] = "lookup" /\ (failed \/ ~Already(at[c]))
    /\ excused' = IF failed \/ OnItsWay(at[c]) THEN excused \cup {at[c]} ELSE excused
    /\ Goto(c, "create")
    /\ UNCHANGED <<at, records, stray>>

(* The provider creates the record; the answer arrives or is lost. *)
Created(c) ==
    /\ call[c] = "create"
    /\ records' = [records EXCEPT ![at[c]] = @ + 1]
    /\ NextName(c) \/ (Goto(c, "failed") /\ UNCHANGED at)
    /\ UNCHANGED <<stray, excused>>

(* Another status, or no connection: 502, the names behind it are left. *)
GoesOn(c) == NextName(c)
GivesUp(c) == Goto(c, "failed") /\ UNCHANGED at

Refused(c) ==
    /\ call[c] = "create" /\ GivesUp(c)
    /\ UNCHANGED <<records, stray, excused>>

(* The client leaves; what was sent may still arrive. *)
Disconnect(c) ==
    /\ call[c] \in {"new", "lookup", "create"}
    /\ Goto(c, "gone")
    /\ \/ UNCHANGED stray
       \/ call[c] = "create" /\ stray' = stray \cup {c}
    /\ UNCHANGED <<at, records, excused>>

StrayArrives(c) ==
    /\ c \in stray
    /\ stray' = stray \ {c}
    /\ records' = [records EXCEPT ![at[c]] = @ + 1]
    /\ UNCHANGED <<call, at, excused>>

Settled == stray = {} /\ (\A c \in DnsCalls : call[c] \in {"ok", "failed", "gone"}) /\ UNCHANGED vars

Next ==
    \/ \E c \in DnsCalls :
          \/ ZoneLookup(c) \/ Skip(c) \/ \E failed \in BOOLEAN : Miss(c, failed)
          \/ Created(c) \/ Refused(c) \/ Disconnect(c) \/ StrayArrives(c)
    \/ Settled

Spec == Init /\ [][Next]_vars

-----------------------------------------------------------------------------
(* Properties *)

(* A request that is answered with success leaves a record for every name,  *)
(* whichever other requests ran, failed or were dropped half way.           *)
OkMeansAll == \A c \in DnsCalls : call[c] = "ok" => \A n \in DnsNames : records[n] > 0

(* Asking again after a failure, a lost answer or a closed connection does  *)
(* not create a record twice, unless a lookup failed or came while another  *)
(* creation of the name was on its way.                                     *)
NoDuplicates == \A n \in DnsNames \ excused : records[n] <= 1

=============================================================================

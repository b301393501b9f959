--------------------------- MODULE PureFunctions ---------------------------
(* The pure functions of ByteRange and ImageNames against their reference   *)
(* definitions: a behaviour picks an input, computes the answer, and ends.  *)
EXTENDS ByteRange, ImageNames

CONSTANTS
    MaxSize,    \* bound: bytes of a blob
    MaxName     \* bound: components of a name

ASSUME InputAssumption == MaxSize \in Nat /\ MaxName \in Nat

VARIABLES input, output

Names == UNION {[1 .. n -> Components] : n \in 1 .. MaxName}

RangeInputs == [header : Headers, size : 0 .. MaxSize]
NameInputs ==
    [name : Names, tag : Tags \cup {NoRef}, digest : ImageDigests \cup {NoRef}, marker : Markers, ref : Tags]

IsRange(i) == "header" \in DOMAIN i

InputInit ==
    /\ output = <<>>
    /\ input \in RangeInputs \/ input \in NameInputs

(* A Range header meets a cached blob. *)
ServeRange ==
    /\ output = <<>> /\ IsRange(input)
    /\ output' = <<cached_blob_response(input.header, input.size)>>
    /\ UNCHANGED input

(* A name is pulled; the daemon asks for it, and it or another client asks  *)
(* for the name as it is.                                                   *)
RequestName ==
    /\ output = <<>> /\ ~IsRange(input)
    /\ output' = <<[home |-> ComesHome(input.name, input.tag, input.digest, input.marker, input.ref),
                    scope |-> ScopeFits(DaemonPath(input.name, input.marker, input.ref))]>>
    /\ UNCHANGED input

Replied == output # <<>> /\ UNCHANGED <<input, output>>

InputNext == ServeRange \/ RequestName \/ Replied

InputSpec == InputInit /\ [][InputNext]_<<input, output>>

-----------------------------------------------------------------------------
(* cached_blob_response sends exactly the bytes the Range header asks for,  *)
(* announces their number, and answers 416 when there are none: suffixes    *)
(* longer than the blob, empty blobs and ends past the last byte included.  *)
(* A header with a number that does not fit 64 bits is ignored (200).       *)
RangeExact ==
    output # <<>> /\ IsRange(input) => Exact(input.header, input.size, output[1])

(* parse_image_ref, plan_pull and route_request agree with each other: a    *)
(* pull of any name comes back to the registry and repository it names.     *)
PullComesHome == output # <<>> /\ ~IsRange(input) => output[1].home

(* rewrite_401_challenge and the token endpoint agree with route_request on *)
(* registry and repository, and only names of no registry are refused.      *)
ScopeMatchesRoute == output # <<>> /\ ~IsRange(input) => output[1].scope
=============================================================================

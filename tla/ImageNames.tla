----------------------------- MODULE ImageNames -----------------------------
(***************************************************************************)
(* The names of an image on their way through the gateway: parse_image_ref *)
(* and plan_pull of src/dockerpull.rs make the reference the daemon pulls; *)
(* the daemon's requests come back through route_request; a 401 is         *)
(* answered with a scope (rewrite_401_challenge) that the daemon brings to *)
(* /token (merged_upstream_scope, rewrite_scope); and chunk downloads ask  *)
(* for tokens of their own (blob_token of src/sources.rs).  A name is the  *)
(* sequence of its components between slashes.                             *)
(***************************************************************************)
EXTENDS Integers, Sequences, FiniteSets, FiniteSetsExt

CONSTANTS
    Components,     \* components of names, strings
    HostLike,       \* those with a dot or a colon, and localhost
    WithPort,       \* those with a colon
    Tags,           \* what may follow a name ...
    ImageDigests,   \* ... or both of them, ...
    NoRef           \* ... or nothing

ASSUME NamesAssumption ==
    /\ HostLike \subseteq Components /\ WithPort \subseteq HostLike
    /\ {"docker.io", "ghcr.io"} \subseteq HostLike /\ "library" \notin HostLike
    /\ WithPort \cap {"docker.io", "ghcr.io"} = {}
    /\ NoRef \notin Components \cup Tags \cup ImageDigests \cup {"latest"}

Markers == {"manifests", "blobs", "tags", "referrers"}

(* "", "." and ".." are refused wherever a name is checked. *)
BadComponent == ".."
WellFormed(name) == name # <<>> /\ \A i \in DOMAIN name : name[i] # BadComponent

(* A colon ends a name: in a reference its last component's begins the tag, *)
(* and any other is refused; in a scope it begins the actions, and what     *)
(* follows is not "pull".                                                   *)
Plain(name) == WellFormed(name) /\ \A i \in DOMAIN name : name[i] \notin WithPort

Refused == [ok |-> FALSE, registry |-> NoRef, path |-> <<>>]

-----------------------------------------------------------------------------
(* A reference as typed: a name, and perhaps a tag and a digest. *)

parse_image_ref(name) ==
    LET hosted == Len(name) > 1 /\ name[1] \in HostLike
        registry == IF hosted THEN name[1] ELSE "docker.io"
        path == IF hosted THEN Tail(name) ELSE name
    IN  IF registry \notin {"docker.io", "ghcr.io"} \/ ~Plain(path)
          THEN Refused
          ELSE [ok |-> TRUE, registry |-> registry, path |-> path]

(* The docker.io namespace is library/ unless there is one. *)
PullPath(p) ==
    IF p.registry = "docker.io" /\ Len(p.path) = 1 THEN <<"library">> \o p.path ELSE p.path
Canonical(p) == IF p.registry = "docker.io" THEN p.path ELSE <<p.registry>> \o p.path

(* What the daemon pulls from the gateway, and what it is renamed to. *)
UnprefixedRepo(p) == PullPath(p)
pull_repo(p) == IF p.registry = "ghcr.io" THEN <<"ghcr.io">> \o PullPath(p) ELSE PullPath(p)

(* An image pulled by digest is not renamed: retag is <<>>. *)
plan_pull(p, tag, digest) ==
    LET t == IF tag = NoRef /\ digest = NoRef THEN "latest" ELSE tag IN
    [repo |-> pull_repo(p), tag |-> t, digest |-> digest,
     retag |-> IF digest # NoRef THEN <<>> ELSE Canonical(p)]

-----------------------------------------------------------------------------
(* Requests under /v2/. *)

Route(r, p) == [registry |-> r, path |-> p]

(* rest.strip_prefix("docker.io/"), ("ghcr.io/"); anything else is a bare   *)
(* path of Docker Hub.                                                      *)
Stripped(name) ==
    IF Len(name) > 1 /\ name[1] \in {"docker.io", "ghcr.io"}
      THEN Route(name[1], Tail(name)) ELSE Route("docker.io", name)

route_request(path) == Stripped(path)

(* The repository is what precedes the last marker. *)
MarkersIn(path) == {i \in 2 .. Len(path) - 1 : path[i] \in Markers}
Last(S) == Max(S)
First(S) == Min(S)
registry_repository(path) ==
    IF MarkersIn(path) = {} THEN <<>> ELSE SubSeq(path, 1, Last(MarkersIn(path)) - 1)

(* The marker decides which handler a request goes to. *)
classify_registry_path(path) ==
    LET S == {i \in 1 .. Len(path) - 1 : path[i] \in Markers} IN
    CASE S # {} /\ path[Max(S)] = "blobs" -> "blob"
      [] S # {} /\ path[Max(S)] = "manifests" -> "manifest"
      [] OTHER -> "other"

(* The scopes of a rewritten challenge, at most one, carry the registry's   *)
(* prefix.                                                                  *)
BareScope(route) == <<registry_repository(route.path)>>
rewrite_401_challenge(route) ==
    IF registry_repository(route.path) = <<>> THEN <<>>
    ELSE <<<<route.registry>> \o registry_repository(route.path)>>

-----------------------------------------------------------------------------
(* The token endpoint: scopes back to an upstream. *)

rewrite_scope(scope) ==
    IF ~Plain(scope) THEN Refused
    ELSE [ok |-> TRUE, registry |-> Stripped(scope).registry, path |-> Stripped(scope).path]

(* The last scope decides the registry; equal scopes are merged. *)
merged_upstream_scope(scopes) ==
    LET rewritten == [i \in DOMAIN scopes |-> rewrite_scope(scopes[i])] IN
    IF \E i \in DOMAIN scopes : ~rewritten[i].ok
      THEN [ok |-> FALSE, registry |-> NoRef, scopes |-> {}]
      ELSE [ok |-> TRUE,
            registry |-> IF scopes = <<>> THEN "docker.io" ELSE rewritten[Len(scopes)].registry,
            scopes |-> {rewritten[i].path : i \in DOMAIN scopes}]

(* blob_token takes what precedes the first "/blobs/". *)
blob_token_scope(path) ==
    LET S == {i \in 2 .. Len(path) - 1 : path[i] = "blobs"} IN
    IF S = {} THEN <<>> ELSE SubSeq(path, 1, First(S) - 1)

-----------------------------------------------------------------------------
(* What the daemon takes a name to mean (external). *)
Normalized(name) ==
    LET hosted == Len(name) > 1 /\ name[1] \in HostLike
        path == IF hosted THEN Tail(name) ELSE name
        host == IF hosted THEN name[1] ELSE "docker.io"
    IN  Route(host, IF host = "docker.io" /\ Len(path) = 1 THEN <<"library">> \o path ELSE path)

(* Its requests for an image of this gateway. *)
DaemonPath(repo, marker, ref) == repo \o <<marker, ref>>

(* A name of Docker Hub whose namespace looks like a host: the gateway and  *)
(* the rename take it for one (Docker Hub has no such namespace).           *)
Ambiguous(name) ==
    Normalized(name).registry = "docker.io" /\ Normalized(name).path[1] \in HostLike

(* The image a user names is the one the daemon's requests reach: the same  *)
(* registry and repository, through the handler for what is asked; and it   *)
(* is renamed to what the daemon takes the user's name for.                 *)
ComesHome(name, tag, digest, marker, ref) ==
    LET p == parse_image_ref(name)
        plan == plan_pull(p, tag, digest)
        route == route_request(DaemonPath(plan.repo, marker, ref))
    IN  p.ok /\ ~Ambiguous(name) =>
            /\ Route(route.registry, registry_repository(route.path)) = Normalized(name)
            /\ classify_registry_path(route.path) =
                  CASE marker = "blobs" -> "blob" [] marker = "manifests" -> "manifest" [] OTHER -> "other"
            /\ plan.retag # <<>> => Normalized(plan.retag) = Normalized(name) /\ plan.tag # NoRef

(* The scope of the challenge that answers a request leads the token        *)
(* request to the registry, and the repository, that the request was routed *)
(* to, also when the daemon adds the bare scope of a mirror; and a chunk's  *)
(* own token is for the same repository.  Only the scope of a name that no  *)
(* registry has is refused.                                                 *)
ScopeFits(path) ==
    LET route == route_request(path)
        repo == registry_repository(route.path)
        scopes == rewrite_401_challenge(route)
        Fits(m) == m.ok /\ m.registry = route.registry /\ m.scopes = {repo}
    IN  repo # <<>> =>
            /\ merged_upstream_scope(scopes).ok = Plain(repo)
            /\ Plain(repo) => Fits(merged_upstream_scope(scopes))
            /\ Plain(repo) /\ route.registry = "docker.io" /\ repo[1] \notin {"docker.io", "ghcr.io"} =>
                  /\ Fits(merged_upstream_scope(<<repo>> \o scopes))
                  /\ Fits(merged_upstream_scope(scopes \o <<repo>>))
            /\ Plain(repo) /\ classify_registry_path(route.path) = "blob" /\ (\A i \in DOMAIN repo : repo[i] # "blobs") =>
                  blob_token_scope(route.path) = repo

=============================================================================

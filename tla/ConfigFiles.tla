----------------------------- MODULE ConfigFiles -----------------------------
(***************************************************************************)
(* The two files an operator edits at run time: settings.json, patched     *)
(* field by field (save_settings of src/main.rs, Settings of               *)
(* src/settings.rs), and sources.json, replaced as a whole together with   *)
(* the live SourcePool (save_sources_config, sources::save).  Both are     *)
(* written to a sibling file and renamed.  Writers run concurrently and    *)
(* the process may die between any two steps; readers (start_pull,         *)
(* issue_cert, ...) load settings.json at any time without the lock.       *)
(***************************************************************************)
EXTENDS Integers

CONSTANTS
    Writers,        \* concurrent management requests
    NoWriter,       \* a lock nobody holds
    Domains,        \* values of a settings field that validate accepts ...
    BadDomain,      \* ... and one that it does not
    None,           \* a field that is missing
    PortBodies,     \* numbers a request gives as accel_port, any u64
    SourceLists,    \* contents of sources.json
    FallbackList,   \* what load_or_default returns without a file
    MaxRestarts     \* bound: crashes and restarts

ASSUME ConfigAssumption ==
    /\ NoWriter \notin Writers
    /\ None \notin Domains /\ BadDomain \notin Domains \cup {None}
    /\ PortBodies \subseteq Nat
    /\ FallbackList \in SourceLists
    /\ MaxRestarts \in Nat

VARIABLES
    file,       \* of each kind: what is under its name
    tmp,        \* of each kind: its sibling
    lock,       \* settings_lock, and the write lock around the pool
    live,       \* the list the live SourcePool was made from
    pc, kind, input, content,   \* of each writer; content is what it will save
    misread,    \* the writers whose read of settings.json has failed
    agreed,     \* history: the settings after every patch that took effect, counted
                \* from the last save that was built on a failed read
    restarts

vars == <<file, tmp, lock, live, pc, kind, input, content, misread, agreed, restarts>>

Kinds == {"settings", "sources"}

(* accel_port is a u16; a missing one is written as -1 here. *)
NoPort == -1
DefaultSettings == [domain |-> None, port |-> NoPort]
Default(k) == IF k = "settings" THEN DefaultSettings ELSE FallbackList

Absent(k) == [st |-> "absent", v |-> Default(k)]
Torn(k) == [st |-> "torn", v |-> Default(k)]
Whole(v) == [st |-> "whole", v |-> v]

(* Settings::load: a file that is missing or does not parse is the default, *)
(* and so is one that cannot be read, whatever the error.                   *)
load(f, readable) == IF readable /\ f.st = "whole" THEN f.v ELSE DefaultSettings

-----------------------------------------------------------------------------
(* patch_from_body, apply, validate *)

as_u16(n) == IF n = NoPort THEN NoPort ELSE n % 65536

Patches == [domain : Domains \cup {BadDomain, None}, port : PortBodies \cup {NoPort}]
patch_from_body(b) == [domain |-> b.domain, port |-> as_u16(b.port)]

merge(s, p) ==
    [domain |-> IF p.domain = None THEN s.domain ELSE p.domain,
     port |-> IF p.port = NoPort THEN s.port ELSE p.port]

validate_domain(s) == s.domain # BadDomain
validate(s) == s.domain # BadDomain /\ s.port # 0

-----------------------------------------------------------------------------
Init ==
    /\ file = [k \in Kinds |-> IF k = "settings" THEN Absent(k) ELSE Whole(FallbackList)]
    /\ tmp = [k \in Kinds |-> Absent(k)]
    /\ lock = [k \in Kinds |-> NoWriter]
    /\ live = FallbackList
    /\ pc = [w \in Writers |-> "idle"] /\ kind = [w \in Writers |-> "sources"]
    /\ input = [w \in Writers |-> FallbackList] /\ content = [w \in Writers |-> FallbackList]
    /\ misread = {}
    /\ agreed = DefaultSettings
    /\ restarts = 0

Goto(w, l) == pc' = [pc EXCEPT ![w] = l]

(* A handler returns: its guard, if it has one, is dropped. *)
Return(w) ==
    /\ pc' = [pc EXCEPT ![w] = "idle"] /\ kind' = [kind EXCEPT ![w] = "sources"]
    /\ input' = [input EXCEPT ![w] = FallbackList]
    /\ content' = [content EXCEPT ![w] = FallbackList]
    /\ misread' = misread \ {w}
    /\ lock' = [k \in Kinds |-> IF lock[k] = w THEN NoWriter ELSE lock[k]]

(* A request with a body that parses. *)
Ask(w, k, b) ==
    /\ pc[w] = "idle"
    /\ kind' = [kind EXCEPT ![w] = k] /\ input' = [input EXCEPT ![w] = b]
    /\ Goto(w, "lock")
    /\ UNCHANGED <<file, tmp, lock, live, content, misread, agreed, restarts>>

Unlocked(k) == TRUE
Free(k) == lock[k] = NoWriter

Lock(w) ==
    /\ pc[w] = "lock" /\ Free(kind[w])
    /\ lock' = [lock EXCEPT ![kind[w]] = w]
    /\ Goto(w, IF kind[w] = "settings" THEN "load" ELSE "save")
    /\ content' = [content EXCEPT ![w] = IF kind[w] = "sources" THEN input[w] ELSE @]
    /\ UNCHANGED <<file, tmp, live, kind, input, misread, agreed, restarts>>

(* The client disconnects while the handler waits for the lock. *)
Disconnect(w) ==
    /\ pc[w] = "lock" /\ Return(w)
    /\ UNCHANGED <<file, tmp, live, agreed, restarts>>

(* load().apply(): merge, then validate the result. *)
LoadAndMerge(w) ==
    /\ pc[w] = "load"
    /\ \E readable \in BOOLEAN :
       LET merged == merge(load(file["settings"], readable), patch_from_body(input[w])) IN
       \/ /\ validate(merged)
          /\ content' = [content EXCEPT ![w] = merged]
          /\ misread' = IF readable THEN misread ELSE misread \cup {w}
          /\ Goto(w, "save")
          /\ UNCHANGED <<kind, input, lock>>
       \/ ~validate(merged) /\ Return(w)
    /\ UNCHANGED <<file, tmp, live, agreed, restarts>>

(* std::fs::write(&tmp): create or truncate, then write; either may fail. *)
WriteTruncates(w) ==
    /\ pc[w] = "save"
    /\ tmp' = [tmp EXCEPT ![kind[w]] = Torn(kind[w])]
    /\ Goto(w, "write")
    /\ UNCHANGED <<file, lock, live, kind, input, content, misread, agreed, restarts>>

WriteEnds(w) ==
    /\ pc[w] = "write"
    /\ tmp' = [tmp EXCEPT ![kind[w]] = Whole(content[w])]
    /\ Goto(w, "rename")
    /\ UNCHANGED <<file, lock, live, kind, input, content, misread, agreed, restarts>>

WriteFailsQuietly(w) ==
    /\ pc[w] \in {"save", "write"} /\ Goto(w, "rename")
    /\ UNCHANGED <<file, tmp, lock, live, kind, input, content, misread, agreed, restarts>>
WriteFails(w) ==
    /\ pc[w] \in {"save", "write"} /\ Return(w)
    /\ UNCHANGED <<file, tmp, live, agreed, restarts>>

(* rename replaces the file in one step.  A patch has taken effect now; a   *)
(* new list of sources has still to go live.                                *)
Rename(w) ==
    /\ pc[w] = "rename" /\ tmp[kind[w]].st # "absent"
    /\ file' = [file EXCEPT ![kind[w]] = tmp[kind[w]]]
    /\ tmp' = [tmp EXCEPT ![kind[w]] = Absent(kind[w])]
    /\ \/ /\ kind[w] = "settings"
          /\ agreed' = merge(IF w \in misread THEN DefaultSettings ELSE agreed, patch_from_body(input[w]))
          /\ Return(w)
       \/ /\ kind[w] = "sources"
          /\ Goto(w, "swap")
          /\ UNCHANGED <<kind, input, content, misread, lock, agreed>>
    /\ UNCHANGED <<live, restarts>>

(* A rename that fails; sources::save removes its sibling file. *)
RenameFails(w) ==
    /\ pc[w] = "rename"
    /\ tmp' = IF kind[w] = "sources" THEN [tmp EXCEPT !["sources"] = Absent("sources")] ELSE tmp
    /\ Return(w)
    /\ UNCHANGED <<file, live, agreed, restarts>>

(* The new pool replaces the old one. *)
Swap(w) ==
    /\ pc[w] = "swap"
    /\ live' = content[w]
    /\ Return(w)
    /\ UNCHANGED <<file, tmp, agreed, restarts>>

(* The process ends and starts again: main loads sources.json, or writes    *)
(* the fallback list if there is no file.                                   *)
Restart ==
    /\ restarts < MaxRestarts /\ restarts' = restarts + 1
    /\ file["sources"].st # "torn"
    /\ live' = file["sources"].v
    /\ file' = [file EXCEPT !["sources"] = Whole(file["sources"].v)]
    /\ lock' = [k \in Kinds |-> NoWriter]
    /\ pc' = [w \in Writers |-> "idle"] /\ kind' = [w \in Writers |-> "sources"]
    /\ input' = [w \in Writers |-> FallbackList] /\ content' = [w \in Writers |-> FallbackList]
    /\ misread' = {}
    /\ UNCHANGED <<tmp, agreed>>

Next ==
    \/ \E w \in Writers :
          \/ \E p \in Patches : Ask(w, "settings", p)
          \/ \E s \in SourceLists : Ask(w, "sources", s)
          \/ Lock(w) \/ Disconnect(w) \/ LoadAndMerge(w)
          \/ WriteTruncates(w) \/ WriteEnds(w) \/ WriteFails(w)
          \/ Rename(w) \/ RenameFails(w) \/ Swap(w)
    \/ Restart

Spec == Init /\ [][Next]_vars

-----------------------------------------------------------------------------
(* Properties *)

(* What a reader loads at any moment is the result of all patches that took *)
(* effect, one after the other: concurrent patches do not lose each other's *)
(* fields, and no crash or failed write shows a half-written file.  The one *)
(* way to lose a patch is a later one whose read of the file fails: it is   *)
(* merged into the default settings, and agreed starts from there.          *)
NoPatchLost == load(file["settings"], TRUE) = agreed

(* accel_port never becomes 0, although a request may give a number that is *)
(* 0 only after it was cut down to 16 bits.                                 *)
PortUsable == load(file["settings"], TRUE).port # 0

(* When no request is replacing it, the live pool is the one a restart      *)
(* would load.                                                              *)
PoolIsSaved == lock["sources"] = NoWriter => file["sources"] = Whole(live)

=============================================================================

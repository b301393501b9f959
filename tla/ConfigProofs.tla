---------------------------- MODULE ConfigProofs ----------------------------
(***************************************************************************)
(* Proofs about ConfigFiles and DnsRecords, for any number of concurrent   *)
(* requests, settings, source lists, restarts and names.                   *)
(***************************************************************************)
EXTENDS MCConfigFiles, TLAPS

-----------------------------------------------------------------------------
(* settings.json and sources.json: the inductive invariant *)

AllSettings == [domain : Domains \cup {BadDomain, None}, port : Int]
Contents == AllSettings \cup SourceLists
FileStates == [st : {"absent", "torn", "whole"}, v : Contents]

Inside == {"load", "save", "write", "rename", "swap"}
Points == {"idle", "lock"} \cup Inside

ConfigTypes ==
    /\ file \in [Kinds -> FileStates] /\ tmp \in [Kinds -> FileStates]
    /\ lock \in [Kinds -> Writers \cup {NoWriter}]
    /\ live \in SourceLists
    /\ pc \in [Writers -> Points] /\ kind \in [Writers -> Kinds]
    /\ input \in [Writers -> Patches \cup SourceLists]
    /\ content \in [Writers -> Contents]
    /\ misread \subseteq Writers
    /\ agreed \in AllSettings

(* A request with a body of its kind; only one of settings loads, only one  *)
(* of sources swaps.                                                        *)
KindsFit ==
    \A w \in Writers :
        /\ pc[w] # "idle" /\ kind[w] = "settings" => input[w] \in Patches
        /\ pc[w] # "idle" /\ kind[w] = "sources" => input[w] \in SourceLists
        /\ pc[w] = "load" => kind[w] = "settings"
        /\ pc[w] = "swap" => kind[w] = "sources"

(* The lock of a file belongs to the one request that works on it. *)
LockHeld == \A w \in Writers : pc[w] \in Inside => lock[kind[w]] = w

(* What a request will save was merged into the file that is still there,   *)
(* unless the read failed, and accepted.                                    *)
Base(w) == IF w \in misread THEN DefaultSettings ELSE load(file["settings"], TRUE)

MergedFresh ==
    \A w \in Writers : pc[w] \in {"save", "write", "rename"} =>
        /\ kind[w] = "settings" =>
              /\ content[w] = merge(Base(w), patch_from_body(input[w]))
              /\ validate(content[w])
        /\ kind[w] = "sources" => content[w] \in SourceLists

(* Only a request that is past its read can have misread. *)
ReadFirst == \A w \in Writers : pc[w] \in {"idle", "lock", "load"} => w \notin misread

(* The sibling file is complete before it is renamed. *)
WrittenBeforeRename ==
    \A w \in Writers : pc[w] = "rename" => tmp[kind[w]] = Whole(content[w])

(* The saved list is live, or its swap is all that is left to do. *)
SwapPending ==
    \/ file["sources"] = Whole(live)
    \/ \E w \in Writers : pc[w] = "swap" /\ file["sources"] = Whole(content[w])

SwapsSaved ==
    \A w \in Writers : pc[w] = "swap" =>
        content[w] \in SourceLists /\ file["sources"] = Whole(content[w])

ConfigInv ==
    /\ ConfigTypes /\ KindsFit /\ LockHeld /\ MergedFresh /\ ReadFirst
    /\ WrittenBeforeRename /\ SwapPending /\ SwapsSaved
    /\ NoPatchLost /\ agreed.port # 0

(* Truncation to 16 bits and merging stay within settings. *)
LEMMA MergeType ==
    ASSUME ConfigAssumption, NEW s \in AllSettings, NEW b \in Patches
    PROVE  merge(s, patch_from_body(b)) \in AllSettings
  <1>1. as_u16(b.port) \in Int
    <2>1. b.port \in PortBodies \cup {NoPort} /\ PortBodies \subseteq Nat
      BY DEF ConfigAssumption, Patches
    <2>2. CASE b.port = NoPort
      BY <2>2 DEF as_u16, NoPort
    <2>3. CASE b.port # NoPort
      <3>. DEFINE n == b.port
      <3>1. n \in Nat
        BY <2>1, <2>3
      <3>. HIDE DEF n
      <3>2. n % 65536 \in Int
        BY <3>1
      <3>. QED  BY <2>3, <3>2 DEF as_u16, n
    <2>. QED  BY <2>2, <2>3
  <1>2. b.domain \in Domains \cup {BadDomain, None}
    BY DEF Patches
  <1>. QED  BY <1>1, <1>2 DEF merge, patch_from_body, AllSettings

(* What load returns has the type of the settings. *)
LEMMA LoadType ==
    ASSUME ConfigAssumption, ConfigTypes, NoPatchLost
    PROVE  load(file["settings"], TRUE) \in AllSettings
  BY DEF ConfigTypes, NoPatchLost

(* What stays when a handler returns: the others keep everything, their     *)
(* locks included.                                                          *)
LEMMA ReturnKeeps ==
    ASSUME ConfigAssumption, ConfigInv, NEW w \in Writers, Return(w)
    PROVE  /\ pc' \in [Writers -> Points] /\ kind' \in [Writers -> Kinds]
           /\ input' \in [Writers -> Patches \cup SourceLists]
           /\ content' \in [Writers -> Contents]
           /\ lock' \in [Kinds -> Writers \cup {NoWriter}]
           /\ pc'[w] = "idle" /\ misread' \subseteq Writers /\ w \notin misread'
           /\ \A v \in Writers : v # w =>
                 /\ pc'[v] = pc[v] /\ kind'[v] = kind[v]
                 /\ input'[v] = input[v] /\ content'[v] = content[v]
                 /\ \A k \in Kinds : lock[k] = v => lock'[k] = v
                 /\ v \in misread' <=> v \in misread
  BY DEF Return, ConfigInv, ConfigTypes, Contents, Points, ConfigAssumption, Kinds

(* A handler that returns without having touched a file. *)
LEMMA ReturnInv ==
    ASSUME ConfigAssumption, ConfigInv, NEW w \in Writers, Return(w),
           pc[w] # "swap", UNCHANGED <<file, live, agreed>>,
           tmp' \in [Kinds -> FileStates],
           \A k \in Kinds : (\E v \in Writers : v # w /\ pc[v] \in Inside /\ kind[v] = k) => tmp'[k] = tmp[k]
    PROVE  ConfigInv'
  <1>. USE DEF ConfigInv
  <1>1. ConfigTypes'
    BY ReturnKeeps DEF ConfigTypes
  <1>2. KindsFit' /\ ReadFirst'
    BY ReturnKeeps DEF KindsFit, ReadFirst
  <1>3. LockHeld'
    BY ReturnKeeps DEF LockHeld, ConfigTypes, Inside
  <1>4. MergedFresh'
    BY ReturnKeeps DEF MergedFresh, Base, load
  <1>5. WrittenBeforeRename'
    BY ReturnKeeps DEF WrittenBeforeRename, Whole, Inside, ConfigTypes
  <1>6. SwapsSaved'
    BY ReturnKeeps DEF SwapsSaved
  <1>8. SwapPending'
    <2>1. CASE file["sources"] = Whole(live)
      BY <2>1 DEF SwapPending
    <2>2. CASE \E v \in Writers : pc[v] = "swap" /\ file["sources"] = Whole(content[v])
      BY <2>2, ReturnKeeps DEF SwapPending
    <2>. QED  BY <2>1, <2>2 DEF SwapPending
  <1>7. NoPatchLost' /\ agreed'.port # 0
    BY DEF NoPatchLost, load
  <1>. QED  BY <1>1, <1>2, <1>3, <1>4, <1>5, <1>6, <1>7, <1>8

(* A request works on its file alone: nobody else is inside with its kind. *)
LEMMA Alone ==
    ASSUME ConfigInv, NEW w \in Writers, pc[w] \in Inside
    PROVE  \A v \in Writers : pc[v] \in Inside /\ kind[v] = kind[w] => v = w
  BY DEF ConfigInv, LockHeld

(* A request that arrives touches neither file nor lock. *)
LEMMA AskInv ==
    ASSUME ConfigAssumption, ConfigInv, NEW w \in Writers, NEW k \in Kinds,
           NEW b \in IF k = "settings" THEN Patches ELSE SourceLists, Ask(w, k, b)
    PROVE  ConfigInv'
  <1>1. /\ pc[w] = "idle" /\ pc'[w] = "lock" /\ kind'[w] = k /\ input'[w] = b
        /\ \A v \in Writers : v # w =>
              pc'[v] = pc[v] /\ kind'[v] = kind[v] /\ input'[v] = input[v]
        /\ UNCHANGED <<file, tmp, lock, live, content, misread, agreed>>
    BY DEF Ask, Goto, ConfigInv, ConfigTypes
  <1>2. ConfigTypes'
    BY DEF Ask, Goto, ConfigInv, ConfigTypes, Points
  <1>3. KindsFit' /\ LockHeld' /\ ReadFirst'
    BY <1>1 DEF ConfigInv, KindsFit, LockHeld, ReadFirst, Inside, Kinds
  <1>4. MergedFresh' /\ WrittenBeforeRename'
    BY <1>1 DEF ConfigInv, MergedFresh, Base, WrittenBeforeRename
  <1>5. SwapsSaved'
    BY <1>1 DEF ConfigInv, SwapsSaved
  <1>6. SwapPending'
    BY <1>1 DEF ConfigInv, SwapPending
  <1>7. NoPatchLost' /\ agreed'.port # 0
    BY <1>1 DEF ConfigInv, NoPatchLost
  <1>. QED  BY <1>2, <1>3, <1>4, <1>5, <1>6, <1>7 DEF ConfigInv

(* A lock is taken from nobody, so its holder is the only one inside. *)
LEMMA LockInv ==
    ASSUME ConfigAssumption, ConfigInv, NEW w \in Writers, Lock(w)
    PROVE  ConfigInv'
  <1>1. /\ pc[w] = "lock" /\ lock[kind[w]] = NoWriter /\ kind[w] \in Kinds
        /\ pc'[w] = (IF kind[w] = "settings" THEN "load" ELSE "save")
        /\ content'[w] = (IF kind[w] = "sources" THEN input[w] ELSE content[w])
        /\ lock'[kind[w]] = w
        /\ \A k \in Kinds : k # kind[w] => lock'[k] = lock[k]
        /\ \A v \in Writers : v # w => pc'[v] = pc[v] /\ content'[v] = content[v]
        /\ UNCHANGED <<file, tmp, live, kind, input, misread, agreed>>
    BY DEF Lock, Free, Goto, ConfigInv, ConfigTypes
  <1>2. kind[w] = "sources" => input[w] \in SourceLists
    BY <1>1 DEF ConfigInv, KindsFit
  <1>3. \A v \in Writers : pc[v] \in Inside => kind[v] # kind[w]
    BY <1>1 DEF ConfigInv, LockHeld, ConfigAssumption
  <1>4. ConfigTypes'
    BY <1>2 DEF Lock, Goto, ConfigInv, ConfigTypes, Contents, Points, Inside
  <1>5. KindsFit' /\ ReadFirst'
    BY <1>1 DEF ConfigInv, KindsFit, ReadFirst
  <1>6. LockHeld'
    BY <1>1, <1>3 DEF ConfigInv, LockHeld, ConfigTypes
  <1>7. MergedFresh' /\ WrittenBeforeRename'
    BY <1>1, <1>2 DEF ConfigInv, MergedFresh, Base, WrittenBeforeRename, Kinds
  <1>8. SwapsSaved'
    BY <1>1 DEF ConfigInv, SwapsSaved
  <1>9. SwapPending'
    BY <1>1 DEF ConfigInv, SwapPending
  <1>10. NoPatchLost' /\ agreed'.port # 0
    BY <1>1 DEF ConfigInv, NoPatchLost
  <1>. QED  BY <1>4, <1>5, <1>6, <1>7, <1>8, <1>9, <1>10 DEF ConfigInv

(* load().apply() under the lock: the result is merged into the file as it  *)
(* will still be when it is renamed over.                                   *)
LEMMA LoadAndMergeInv ==
    ASSUME ConfigAssumption, ConfigInv, NEW w \in Writers, LoadAndMerge(w)
    PROVE  ConfigInv'
  <1>0. pc[w] = "load" /\ kind[w] = "settings" /\ input[w] \in Patches
    BY DEF LoadAndMerge, ConfigInv, KindsFit
  <1>1. PICK readable \in BOOLEAN :
          LET merged == merge(load(file["settings"], readable), patch_from_body(input[w])) IN
          \/ /\ validate(merged)
             /\ content' = [content EXCEPT ![w] = merged]
             /\ misread' = IF readable THEN misread ELSE misread \cup {w}
             /\ Goto(w, "save")
             /\ UNCHANGED <<kind, input, lock>>
          \/ ~validate(merged) /\ Return(w)
    BY DEF LoadAndMerge
  <1>. DEFINE merged == merge(load(file["settings"], readable), patch_from_body(input[w]))
  <1>2. UNCHANGED <<file, tmp, live, agreed>>
    BY DEF LoadAndMerge
  <1>3. merged \in AllSettings
    <2>1. load(file["settings"], readable) \in AllSettings
      <3>1. load(file["settings"], TRUE) \in AllSettings
        BY LoadType DEF ConfigInv
      <3>2. DefaultSettings \in AllSettings
        BY DEF DefaultSettings, AllSettings, NoPort
      <3>. QED  BY <3>1, <3>2 DEF load
    <2>. QED  BY <1>0, <2>1, MergeType
  <1>. HIDE DEF merged
  <1>4. CASE ~validate(merged)
    <2>1. Return(w)
      BY <1>1, <1>4 DEF merged
    <2>. QED  BY <1>0, <1>2, <2>1, ReturnInv DEF ConfigInv, ConfigTypes
  <1>5. CASE validate(merged)
    <2>0. /\ content' = [content EXCEPT ![w] = merged] /\ Goto(w, "save")
          /\ misread' = (IF readable THEN misread ELSE misread \cup {w})
          /\ UNCHANGED <<kind, input, lock>>
      BY <1>1, <1>5 DEF merged
    <2>1. /\ pc'[w] = "save" /\ content'[w] = merged
          /\ \A v \in Writers : v # w =>
                pc'[v] = pc[v] /\ content'[v] = content[v] /\ (v \in misread' <=> v \in misread)
          /\ UNCHANGED <<file, tmp, lock, live, kind, input, agreed>>
      BY <1>2, <2>0 DEF Goto, ConfigInv, ConfigTypes
    <2>2. ConfigTypes'
      BY <1>2, <1>3, <2>0 DEF Goto, ConfigInv, ConfigTypes, Contents, Points, Inside
    <2>3. KindsFit' /\ LockHeld'
      BY <1>0, <2>1 DEF ConfigInv, KindsFit, LockHeld, Inside
    <2>8. w \notin misread
      BY <1>0 DEF ConfigInv, ReadFirst
    <2>9. Base(w)' = load(file["settings"], readable)
      BY <1>2, <2>0, <2>8 DEF Base, load
    <2>4. MergedFresh'
      <3>1. \A v \in Writers : v # w => Base(v)' = Base(v)
        BY <2>1 DEF Base
      <3>. QED  BY <1>0, <1>5, <2>1, <2>9, <3>1 DEF ConfigInv, MergedFresh, merged
    <2>10. ReadFirst'
      BY <2>1 DEF ConfigInv, ReadFirst
    <2>5. WrittenBeforeRename' /\ SwapsSaved'
      BY <2>1 DEF ConfigInv, WrittenBeforeRename, SwapsSaved
    <2>6. SwapPending'
      BY <1>0, <2>1 DEF ConfigInv, SwapPending
    <2>7. NoPatchLost' /\ agreed'.port # 0
      BY <2>1 DEF ConfigInv, NoPatchLost
    <2>. QED  BY <2>2, <2>3, <2>4, <2>5, <2>6, <2>7, <2>10 DEF ConfigInv
  <1>. QED  BY <1>4, <1>5

(* The two steps of writing the sibling file. *)
LEMMA WriteInv ==
    ASSUME ConfigAssumption, ConfigInv, NEW w \in Writers, WriteTruncates(w) \/ WriteEnds(w)
    PROVE  ConfigInv'
  <1>1. /\ pc[w] \in {"save", "write"} /\ pc'[w] \in {"write", "rename"}
        /\ pc'[w] = "rename" => tmp'[kind[w]] = Whole(content[w])
        /\ \A k \in Kinds : k # kind[w] => tmp'[k] = tmp[k]
        /\ \A v \in Writers : v # w => pc'[v] = pc[v]
        /\ kind[w] \in Kinds
        /\ UNCHANGED <<file, lock, live, kind, input, content, misread, agreed>>
    BY DEF WriteTruncates, WriteEnds, Goto, ConfigInv, ConfigTypes
  <1>2. DefaultSettings \in AllSettings /\ FallbackList \in SourceLists
    BY DEF DefaultSettings, AllSettings, NoPort, ConfigAssumption
  <1>3. Torn(kind[w]) \in FileStates /\ Whole(content[w]) \in FileStates
    BY <1>2 DEF Torn, Whole, Default, FileStates, ConfigInv, ConfigTypes, Contents
  <1>4. ConfigTypes'
    BY <1>3 DEF WriteTruncates, WriteEnds, Goto, ConfigInv, ConfigTypes, Points, Inside
  <1>5. KindsFit' /\ LockHeld' /\ ReadFirst'
    BY <1>1 DEF ConfigInv, KindsFit, LockHeld, ReadFirst, Inside
  <1>6. MergedFresh'
    BY <1>1 DEF ConfigInv, MergedFresh, Base
  <1>7. WrittenBeforeRename'
    BY <1>1, Alone DEF ConfigInv, WrittenBeforeRename, Inside, ConfigTypes
  <1>8. SwapsSaved'
    BY <1>1 DEF ConfigInv, SwapsSaved
  <1>9. SwapPending'
    BY <1>1 DEF ConfigInv, SwapPending
  <1>10. NoPatchLost' /\ agreed'.port # 0
    BY <1>1 DEF ConfigInv, NoPatchLost
  <1>. QED  BY <1>4, <1>5, <1>6, <1>7, <1>8, <1>9, <1>10 DEF ConfigInv

(* The rename makes a patch the file's content in the step in which it      *)
(* takes effect, and leaves a list of sources to be swapped in.             *)
LEMMA RenameInv ==
    ASSUME ConfigAssumption, ConfigInv, NEW w \in Writers, Rename(w)
    PROVE  ConfigInv'
  <1>0. /\ pc[w] = "rename" /\ pc[w] \in Inside /\ kind[w] \in Kinds
        /\ tmp[kind[w]] = Whole(content[w]) /\ Whole(content[w]) \in FileStates
    BY DEF Rename, Inside, ConfigInv, ConfigTypes, WrittenBeforeRename, FileStates, Whole
  <1>1. /\ file'[kind[w]] = Whole(content[w])
        /\ \A k \in Kinds : k # kind[w] => file'[k] = file[k] /\ tmp'[k] = tmp[k]
        /\ UNCHANGED live
    BY <1>0 DEF Rename, ConfigInv, ConfigTypes
  <1>2. DefaultSettings \in AllSettings /\ FallbackList \in SourceLists
    BY DEF DefaultSettings, AllSettings, NoPort, ConfigAssumption
  <1>3. Absent(kind[w]) \in FileStates
    BY <1>2 DEF Absent, Default, FileStates, Contents
  <1>4. file' \in [Kinds -> FileStates] /\ tmp' \in [Kinds -> FileStates]
    BY <1>0, <1>3 DEF Rename, ConfigInv, ConfigTypes
  <1>5. CASE kind[w] = "settings"
    <2>1. /\ Return(w)
          /\ agreed' = merge(IF w \in misread THEN DefaultSettings ELSE agreed, patch_from_body(input[w]))
          /\ file'["settings"] = Whole(content[w]) /\ file'["sources"] = file["sources"]
      BY <1>1, <1>5 DEF Rename, Kinds
    <2>2. /\ content[w] = merge(Base(w), patch_from_body(input[w]))
          /\ validate(content[w]) /\ input[w] \in Patches
      BY <1>0, <1>5 DEF ConfigInv, MergedFresh, KindsFit
    <2>3. content[w] = agreed' /\ agreed' \in AllSettings
      <3>1. Base(w) = IF w \in misread THEN DefaultSettings ELSE agreed
        BY DEF ConfigInv, NoPatchLost, Base
      <3>2. Base(w) \in AllSettings
        BY <1>2, <3>1 DEF ConfigInv, ConfigTypes
      <3>. QED  BY <2>1, <2>2, <3>1, <3>2, MergeType
    <2>4. NoPatchLost' /\ agreed'.port # 0
      BY <2>1, <2>2, <2>3 DEF NoPatchLost, load, Whole, validate
    <2>5. ConfigTypes'
      BY <1>1, <1>4, <2>1, <2>3, ReturnKeeps DEF ConfigInv, ConfigTypes
    <2>6. KindsFit' /\ LockHeld' /\ ReadFirst'
      BY <2>1, ReturnKeeps DEF ConfigInv, KindsFit, LockHeld, ReadFirst, Inside, ConfigTypes
    <2>7. \A v \in Writers : v # w /\ pc[v] \in Inside => kind[v] = "sources"
      BY <1>0, <1>5, Alone DEF ConfigInv, ConfigTypes, Kinds
    <2>8. MergedFresh' /\ WrittenBeforeRename'
      <3>1. \A v \in Writers : v # w /\ pc[v] \in Inside => kind'[v] = "sources"
        BY <2>1, <2>7, ReturnKeeps
      <3>2. MergedFresh'
        BY <2>1, <3>1, ReturnKeeps DEF ConfigInv, MergedFresh, Inside
      <3>3. WrittenBeforeRename'
        BY <1>1, <1>5, <2>1, <2>7, ReturnKeeps DEF ConfigInv, WrittenBeforeRename, Inside, Kinds
      <3>. QED  BY <3>2, <3>3
    <2>9. SwapsSaved'
      BY <2>1, ReturnKeeps DEF ConfigInv, SwapsSaved
    <2>10. SwapPending'
      BY <1>0, <1>1, <2>1, ReturnKeeps DEF ConfigInv, SwapPending
    <2>. QED  BY <2>4, <2>5, <2>6, <2>8, <2>9, <2>10 DEF ConfigInv
  <1>6. CASE kind[w] = "sources"
    <2>1. /\ pc'[w] = "swap" /\ \A v \in Writers : v # w => pc'[v] = pc[v]
          /\ UNCHANGED <<kind, input, content, misread, lock, agreed>>
          /\ file'["sources"] = Whole(content[w]) /\ file'["settings"] = file["settings"]
      BY <1>1, <1>6 DEF Rename, Goto, Kinds, ConfigInv, ConfigTypes
    <2>2. content[w] \in SourceLists
      BY <1>0, <1>6 DEF ConfigInv, MergedFresh
    <2>3. ConfigTypes'
      BY <1>1, <1>4, <1>6, <2>1 DEF Rename, Goto, ConfigInv, ConfigTypes, Points, Inside
    <2>4. KindsFit' /\ LockHeld' /\ ReadFirst'
      BY <1>0, <1>6, <2>1 DEF ConfigInv, KindsFit, LockHeld, ReadFirst, Inside
    <2>5. MergedFresh'
      BY <2>1 DEF ConfigInv, MergedFresh, Base
    <2>6. WrittenBeforeRename'
      BY <1>0, <1>1, <2>1, Alone DEF ConfigInv, WrittenBeforeRename, Inside, ConfigTypes
    <2>7. SwapsSaved'
      BY <1>0, <1>6, <2>1, <2>2, Alone DEF ConfigInv, SwapsSaved, Inside, KindsFit
    <2>8. SwapPending'
      BY <2>1 DEF SwapPending
    <2>9. NoPatchLost' /\ agreed'.port # 0
      BY <2>1 DEF ConfigInv, NoPatchLost
    <2>. QED  BY <2>3, <2>4, <2>5, <2>6, <2>7, <2>8, <2>9 DEF ConfigInv
  <1>. QED  BY <1>0, <1>5, <1>6 DEF Kinds

(* The swap makes live what was renamed before. *)
LEMMA SwapInv ==
    ASSUME ConfigAssumption, ConfigInv, NEW w \in Writers, Swap(w)
    PROVE  ConfigInv'
  <1>1. /\ pc[w] = "swap" /\ pc[w] \in Inside /\ kind[w] = "sources"
        /\ Return(w) /\ live' = content[w] /\ UNCHANGED <<file, tmp, agreed>>
        /\ content[w] \in SourceLists /\ file["sources"] = Whole(content[w])
    BY DEF Swap, Inside, ConfigInv, KindsFit, SwapsSaved
  <1>2. ConfigTypes'
    BY <1>1, ReturnKeeps DEF ConfigInv, ConfigTypes
  <1>3. KindsFit' /\ LockHeld' /\ ReadFirst'
    BY <1>1, ReturnKeeps DEF ConfigInv, KindsFit, LockHeld, ReadFirst, Inside, ConfigTypes
  <1>4. MergedFresh'
    <2>1. \A v \in Writers : v # w => Base(v)' = Base(v)
      BY <1>1, ReturnKeeps DEF Base
    <2>. QED  BY <1>1, <2>1, ReturnKeeps DEF ConfigInv, MergedFresh
  <1>7. WrittenBeforeRename'
    BY <1>1, ReturnKeeps DEF ConfigInv, WrittenBeforeRename
  <1>5. SwapsSaved' /\ SwapPending'
    BY <1>1, ReturnKeeps DEF ConfigInv, SwapsSaved, SwapPending
  <1>6. NoPatchLost' /\ agreed'.port # 0
    BY <1>1 DEF ConfigInv, NoPatchLost
  <1>. QED  BY <1>2, <1>3, <1>4, <1>5, <1>6, <1>7 DEF ConfigInv

(* The end of the process frees every lock and leaves the files as they are. *)
LEMMA RestartInv ==
    ASSUME ConfigAssumption, ConfigInv, Restart
    PROVE  ConfigInv'
  <1>1. \E l \in SourceLists : file["sources"] = Whole(l)
    BY DEF ConfigInv, SwapPending, SwapsSaved, ConfigTypes
  <1>2. /\ file["sources"].v \in SourceLists /\ file["sources"] = Whole(file["sources"].v)
        /\ file["sources"] \in FileStates
    BY <1>1 DEF Whole, ConfigInv, ConfigTypes, Kinds
  <1>3. /\ file'["sources"] = Whole(live') /\ file'["settings"] = file["settings"]
        /\ live' \in SourceLists /\ UNCHANGED <<tmp, agreed>> /\ misread' = {}
        /\ \A w \in Writers : pc'[w] = "idle"
    BY <1>2 DEF Restart, ConfigInv, ConfigTypes, Kinds
  <1>4. ConfigTypes'
    BY <1>2, <1>3 DEF Restart, ConfigInv, ConfigTypes, ConfigAssumption, Contents, Points, Kinds
  <1>5. KindsFit' /\ LockHeld' /\ ReadFirst' /\ MergedFresh' /\ WrittenBeforeRename' /\ SwapsSaved'
    BY <1>3 DEF KindsFit, LockHeld, ReadFirst, MergedFresh, WrittenBeforeRename, SwapsSaved, Inside
  <1>6. SwapPending' /\ NoPatchLost' /\ agreed'.port # 0
    BY <1>3 DEF ConfigInv, SwapPending, NoPatchLost
  <1>. QED  BY <1>4, <1>5, <1>6 DEF ConfigInv

(* Without a file the settings are the default, and the list is live. *)
LEMMA ConfigInit == Init => ConfigInv
  <1>. SUFFICES ASSUME Init  PROVE ConfigInv
    OBVIOUS
  <1>1. DefaultSettings \in AllSettings /\ FallbackList \in SourceLists /\ DefaultSettings.port # 0
    BY ConfigAssumption DEF DefaultSettings, AllSettings, NoPort, ConfigAssumption
  <1>2. /\ \A k \in Kinds : Absent(k) \in FileStates
        /\ Whole(FallbackList) \in FileStates
    BY <1>1 DEF Absent, Whole, Default, FileStates, Contents
  <1>3. ConfigTypes
    <2>1. file \in [Kinds -> FileStates] /\ tmp \in [Kinds -> FileStates]
      BY <1>2 DEF Init
    <2>2. lock \in [Kinds -> Writers \cup {NoWriter}] /\ kind \in [Writers -> Kinds]
      BY DEF Init, Kinds
    <2>3. input \in [Writers -> Patches \cup SourceLists] /\ content \in [Writers -> Contents]
      BY <1>1 DEF Init, Contents
    <2>4. /\ pc \in [Writers -> Points] /\ live \in SourceLists /\ agreed \in AllSettings
          /\ misread \subseteq Writers
      BY <1>1 DEF Init, Points
    <2>. QED  BY <2>1, <2>2, <2>3, <2>4 DEF ConfigTypes
  <1>4. KindsFit /\ LockHeld /\ ReadFirst /\ MergedFresh /\ WrittenBeforeRename /\ SwapsSaved
    BY DEF Init, KindsFit, LockHeld, ReadFirst, MergedFresh, WrittenBeforeRename, SwapsSaved, Inside
  <1>5. SwapPending /\ NoPatchLost /\ agreed.port # 0
    BY <1>1 DEF Init, SwapPending, NoPatchLost, load, Absent, Default, Kinds
  <1>. QED  BY <1>3, <1>4, <1>5 DEF ConfigInv

(* Every step keeps the invariant. *)
LEMMA ConfigNext == ConfigInv /\ [Next]_vars => ConfigInv'
  <1>. SUFFICES ASSUME ConfigInv, [Next]_vars  PROVE ConfigInv'
    OBVIOUS
  <1>. USE ConfigAssumption
  <1>1. ASSUME NEW w \in Writers, NEW p \in Patches, Ask(w, "settings", p)  PROVE ConfigInv'
    BY <1>1, AskInv DEF Kinds
  <1>2. ASSUME NEW w \in Writers, NEW l \in SourceLists, Ask(w, "sources", l)  PROVE ConfigInv'
    BY <1>2, AskInv DEF Kinds
  <1>3. ASSUME NEW w \in Writers, Lock(w)  PROVE ConfigInv'
    BY <1>3, LockInv
  <1>4. ASSUME NEW w \in Writers, Disconnect(w)  PROVE ConfigInv'
    BY <1>4, ReturnInv DEF Disconnect, ConfigInv, ConfigTypes
  <1>5. ASSUME NEW w \in Writers, LoadAndMerge(w)  PROVE ConfigInv'
    BY <1>5, LoadAndMergeInv
  <1>6. ASSUME NEW w \in Writers, WriteTruncates(w) \/ WriteEnds(w)  PROVE ConfigInv'
    BY <1>6, WriteInv
  <1>7. ASSUME NEW w \in Writers, WriteFails(w)  PROVE ConfigInv'
    BY <1>7, ReturnInv DEF WriteFails, ConfigInv, ConfigTypes
  <1>8. ASSUME NEW w \in Writers, Rename(w)  PROVE ConfigInv'
    BY <1>8, RenameInv
  <1>9. ASSUME NEW w \in Writers, RenameFails(w)  PROVE ConfigInv'
    <2>1. pc[w] = "rename" /\ pc[w] \in Inside /\ Return(w) /\ UNCHANGED <<file, live, agreed>>
      BY <1>9 DEF RenameFails, Inside
    <2>2. Absent("sources") \in FileStates
      BY DEF Absent, Default, FileStates, Contents, ConfigAssumption
    <2>3. tmp' \in [Kinds -> FileStates]
      BY <1>9, <2>2 DEF RenameFails, ConfigInv, ConfigTypes
    <2>4. \A k \in Kinds : k # kind[w] => tmp'[k] = tmp[k]
      BY <1>9 DEF RenameFails, ConfigInv, ConfigTypes
    <2>5. \A k \in Kinds : (\E v \in Writers : v # w /\ pc[v] \in Inside /\ kind[v] = k) => tmp'[k] = tmp[k]
      BY <2>1, <2>4, Alone
    <2>. QED  BY <2>1, <2>3, <2>5, ReturnInv
  <1>10. ASSUME NEW w \in Writers, Swap(w)  PROVE ConfigInv'
    BY <1>10, SwapInv
  <1>11. CASE Restart
    BY <1>11, RestartInv
  <1>12. CASE UNCHANGED vars
    BY <1>12 DEF vars, ConfigInv, ConfigTypes, KindsFit, LockHeld, ReadFirst, MergedFresh, Base,
                 WrittenBeforeRename, SwapPending, SwapsSaved, NoPatchLost
  <1>. QED  BY <1>1, <1>2, <1>3, <1>4, <1>5, <1>6, <1>7, <1>8, <1>9, <1>10, <1>11, <1>12 DEF Next

(* Requests of any number, crashes and failed writes keep the invariant. *)
THEOREM ConfigInvariant == Spec => []ConfigInv
  BY ConfigInit, ConfigNext, PTL DEF Spec

(* However many requests patch the settings at once, and wherever their     *)
(* writes fail or the process dies: what a reader loads is the result of    *)
(* all patches that took effect, counted from the last save whose read of   *)
(* the file failed.                                                         *)
THEOREM PatchesSurvive == Spec => []NoPatchLost
  <1>1. ConfigInv => NoPatchLost
    BY DEF ConfigInv
  <1>. QED  BY <1>1, ConfigInvariant, PTL

(* The port a reader loads is never 0. *)
THEOREM PortStaysUsable == Spec => []PortUsable
  <1>1. ConfigInv => PortUsable
    BY DEF ConfigInv, NoPatchLost, PortUsable
  <1>. QED  BY <1>1, ConfigInvariant, PTL

(* When no request replaces the pool, the live one is the one that was saved. *)
THEOREM PoolStaysSaved == Spec => []PoolIsSaved
  <1>1. ConfigInv => PoolIsSaved
    BY ConfigAssumption
       DEF ConfigInv, PoolIsSaved, SwapPending, LockHeld, KindsFit, Inside, ConfigAssumption
  <1>. QED  BY <1>1, ConfigInvariant, PTL

-----------------------------------------------------------------------------
(* create_dns_records *)

(* A creation that was sent and has not reached the provider. *)
Pending(c) == call[c] = "create" \/ c \in stray

DnsTypes ==
    /\ call \in [DnsCalls -> {"new", "lookup", "create", "ok", "failed", "gone"}]
    /\ at \in [DnsCalls -> Dns!DnsNames]
    /\ records \in [Dns!DnsNames -> Nat]
    /\ \A c \in stray : c \in DnsCalls /\ call[c] = "gone"

(* The names behind a request all have their record. *)
NamesBehind ==
    \A c \in DnsCalls :
        /\ call[c] = "new" => at[c] = 1
        /\ call[c] \in {"lookup", "create"} => \A n \in Dns!DnsNames : n < at[c] => records[n] > 0

(* A name that is not excused has at most one creation on its way, and no   *)
(* record while it has one.                                                 *)
OneCreation ==
    \A c \in DnsCalls : Pending(c) /\ at[c] \notin excused =>
        /\ records[at[c]] = 0
        /\ \A d \in DnsCalls : Pending(d) /\ at[d] = at[c] => d = c

DnsInv == DnsTypes /\ NamesBehind /\ OneCreation /\ OkMeansAll /\ NoDuplicates

(* Every step of a request, and a creation that arrives after its request   *)
(* was dropped, keep the invariant.                                         *)
LEMMA DnsNext == DnsInv /\ [Dns!Next]_(Dns!vars) => DnsInv'
  <1>. SUFFICES ASSUME DnsInv, [Dns!Next]_(Dns!vars)  PROVE DnsInv'
    OBVIOUS
  <1>. USE DnsAssumption DEF DnsAssumption
  <1>1. ASSUME NEW c \in DnsCalls, Dns!ZoneLookup(c)  PROVE DnsInv'
    <2>1. DnsTypes'
      BY <1>1 DEF Dns!ZoneLookup, Dns!Goto, DnsInv, DnsTypes
    <2>2. NamesBehind' /\ OkMeansAll' /\ NoDuplicates'
      BY <1>1 DEF Dns!ZoneLookup, Dns!Goto, DnsInv, DnsTypes, NamesBehind, OkMeansAll,
                  NoDuplicates, Dns!OkMeansAll, Dns!NoDuplicates, Dns!DnsNames
    <2>3. OneCreation'
      BY <1>1 DEF Dns!ZoneLookup, Dns!Goto, DnsInv, DnsTypes, OneCreation, Pending
    <2>. QED  BY <2>1, <2>2, <2>3 DEF DnsInv
  <1>2. ASSUME NEW c \in DnsCalls, Dns!Skip(c)  PROVE DnsInv'
    <2>1. /\ at[c] = NumNames => call' = [call EXCEPT ![c] = "ok"] /\ UNCHANGED at
          /\ at[c] # NumNames => /\ call' = [call EXCEPT ![c] = "lookup"]
                                 /\ at' = [at EXCEPT ![c] = at[c] + 1]
          /\ call[c] = "lookup" /\ records[at[c]] > 0 /\ UNCHANGED <<records, stray, excused>>
      BY <1>2 DEF Dns!Skip, Dns!NextName, Dns!Goto, Dns!Already
    <2>2. DnsTypes'
      BY <2>1 DEF DnsInv, DnsTypes, Dns!DnsNames
    <2>3. OkMeansAll'
      <3>1. at[c] = NumNames => \A n \in Dns!DnsNames : n = at[c] \/ n < at[c]
        BY DEF Dns!DnsNames
      <3>2. at[c] = NumNames => \A n \in Dns!DnsNames : records[n] > 0
        BY <2>1, <3>1 DEF DnsInv, NamesBehind
      <3>3. \A d \in DnsCalls : call'[d] = "ok" => call[d] = "ok" \/ (d = c /\ at[c] = NumNames)
        BY <2>1 DEF DnsInv, DnsTypes
      <3>. QED  BY <2>1, <3>2, <3>3 DEF DnsInv, OkMeansAll, Dns!OkMeansAll
    <2>4. NoDuplicates'
      BY <2>1 DEF DnsInv, NoDuplicates, Dns!NoDuplicates
    <2>5. NamesBehind'
      BY <2>1 DEF DnsInv, DnsTypes, NamesBehind, Dns!DnsNames
    <2>6. OneCreation'
      BY <2>1 DEF DnsInv, DnsTypes, OneCreation, Pending
    <2>. QED  BY <2>2, <2>3, <2>4, <2>5, <2>6 DEF DnsInv
  <1>3. ASSUME NEW c \in DnsCalls, NEW failed \in BOOLEAN, Dns!Miss(c, failed)  PROVE DnsInv'
    <2>1. /\ call[c] = "lookup" /\ call' = [call EXCEPT ![c] = "create"]
          /\ UNCHANGED <<at, records, stray>>
      BY <1>3 DEF Dns!Miss, Dns!Goto
    <2>2. excused' = excused \cup {at[c]} \/
          (excused' = excused /\ records[at[c]] = 0 /\ \A d \in DnsCalls : at[d] = at[c] => ~Pending(d))
      BY <1>3 DEF Dns!Miss, Dns!Already, Dns!OnItsWay, Pending, DnsInv, DnsTypes
    <2>3. DnsTypes'
      BY <2>1 DEF DnsInv, DnsTypes
    <2>4. NamesBehind' /\ OkMeansAll' /\ NoDuplicates'
      BY <2>1, <2>2 DEF DnsInv, DnsTypes, NamesBehind, OkMeansAll,
                  NoDuplicates, Dns!OkMeansAll, Dns!NoDuplicates, Dns!DnsNames
    <2>5. OneCreation'
      BY <2>1, <2>2 DEF DnsInv, DnsTypes, OneCreation, Pending
    <2>. QED  BY <2>3, <2>4, <2>5 DEF DnsInv
  <1>4. ASSUME NEW c \in DnsCalls, Dns!Created(c)  PROVE DnsInv'
    <2>1. /\ \/ at[c] = NumNames /\ call' = [call EXCEPT ![c] = "ok"] /\ UNCHANGED at
             \/ /\ at[c] # NumNames /\ call' = [call EXCEPT ![c] = "lookup"]
                /\ at' = [at EXCEPT ![c] = at[c] + 1]
             \/ call' = [call EXCEPT ![c] = "failed"] /\ UNCHANGED at
          /\ call[c] = "create" /\ UNCHANGED <<stray, excused>>
          /\ records' = [records EXCEPT ![at[c]] = records[at[c]] + 1]
      BY <1>4 DEF Dns!Created, Dns!NextName, Dns!Goto
    <2>2. DnsTypes'
      <3>1. at' \in [DnsCalls -> Dns!DnsNames]
        BY <2>1 DEF DnsInv, DnsTypes, Dns!DnsNames
      <3>2. records' \in [Dns!DnsNames -> Nat]
        BY <2>1 DEF DnsInv, DnsTypes
      <3>3. /\ call' \in [DnsCalls -> {"new", "lookup", "create", "ok", "failed", "gone"}]
            /\ \A d \in stray' : d \in DnsCalls /\ call'[d] = "gone"
        BY <2>1 DEF DnsInv, DnsTypes
      <3>. QED  BY <3>1, <3>2, <3>3 DEF DnsTypes
    <2>3. \A n \in Dns!DnsNames : records'[n] >= records[n] /\ records'[at[c]] > 0
      BY <2>1 DEF DnsInv, DnsTypes
    <2>4. NamesBehind' /\ OkMeansAll'
      <3>1. \A d \in DnsCalls, n \in Dns!DnsNames :
               /\ call'[d] \in {"lookup", "create"} /\ n < at'[d] => records'[n] > 0
               /\ call'[d] = "ok" => records'[n] > 0
        <4>. SUFFICES ASSUME NEW d \in DnsCalls, NEW n \in Dns!DnsNames
                      PROVE  /\ call'[d] \in {"lookup", "create"} /\ n < at'[d] => records'[n] > 0
                             /\ call'[d] = "ok" => records'[n] > 0
          OBVIOUS
        <4>1. records'[n] >= records[n] /\ records[n] \in Nat /\ records'[n] \in Nat
          BY <2>2, <2>3 DEF DnsInv, DnsTypes
        <4>2. CASE d # c
          BY <2>1, <4>1, <4>2 DEF DnsInv, DnsTypes, NamesBehind, OkMeansAll, Dns!OkMeansAll
        <4>3. CASE d = c
          <5>1. n < at[c] => records'[n] > 0
            BY <2>1, <4>1 DEF DnsInv, NamesBehind
          <5>2. n <= at[c] => records'[n] > 0
            BY <2>3, <5>1 DEF DnsInv, DnsTypes, Dns!DnsNames
          <5>. QED  BY <2>1, <4>3, <5>2 DEF DnsInv, DnsTypes, Dns!DnsNames
        <4>. QED  BY <4>2, <4>3
      <3>2. \A d \in DnsCalls : call'[d] = "new" => at'[d] = 1
        BY <2>1 DEF DnsInv, DnsTypes, NamesBehind
      <3>. QED  BY <3>1, <3>2 DEF NamesBehind, OkMeansAll, Dns!OkMeansAll
    <2>5. NoDuplicates'
      BY <2>1 DEF DnsInv, DnsTypes, OneCreation, Pending, NoDuplicates, Dns!NoDuplicates
    <2>6. OneCreation'
      <3>1. ~Pending(c)' /\ \A d \in DnsCalls : d # c => Pending(d)' = Pending(d) /\ at'[d] = at[d]
        BY <2>1 DEF DnsInv, DnsTypes, Pending
      <3>2. Pending(c)
        BY <2>1 DEF Pending
      <3>. QED  BY <2>1, <3>1, <3>2 DEF DnsInv, DnsTypes, OneCreation
    <2>. QED  BY <2>2, <2>4, <2>5, <2>6 DEF DnsInv
  <1>5. ASSUME NEW c \in DnsCalls, Dns!Refused(c) \/ Dns!Disconnect(c)  PROVE DnsInv'
    <2>1. /\ \/ call' = [call EXCEPT ![c] = "failed"] /\ UNCHANGED stray
             \/ call' = [call EXCEPT ![c] = "gone"] /\ UNCHANGED stray
             \/ call' = [call EXCEPT ![c] = "gone"] /\ call[c] = "create" /\ stray' = stray \cup {c}
          /\ call[c] \in {"new", "lookup", "create"}
          /\ UNCHANGED <<at, records, excused>>
      BY <1>5 DEF Dns!Refused, Dns!Disconnect, Dns!GivesUp, Dns!Goto
    <2>2. DnsTypes'
      BY <2>1 DEF DnsInv, DnsTypes
    <2>3. NamesBehind' /\ OkMeansAll' /\ NoDuplicates'
      BY <2>1 DEF DnsInv, DnsTypes, NamesBehind, OkMeansAll,
                  NoDuplicates, Dns!OkMeansAll, Dns!NoDuplicates, Dns!DnsNames
    <2>4. \A d \in DnsCalls : Pending(d)' => Pending(d)
      BY <2>1 DEF DnsInv, DnsTypes, Pending
    <2>5. OneCreation'
      BY <2>1, <2>4 DEF DnsInv, OneCreation
    <2>. QED  BY <2>2, <2>3, <2>5 DEF DnsInv
  <1>6. ASSUME NEW c \in DnsCalls, Dns!StrayArrives(c)  PROVE DnsInv'
    <2>1. /\ c \in stray /\ stray' = stray \ {c} /\ UNCHANGED <<call, at, excused>>
          /\ records' = [records EXCEPT ![at[c]] = records[at[c]] + 1] /\ call[c] = "gone"
      BY <1>6 DEF Dns!StrayArrives, DnsInv, DnsTypes
    <2>2. DnsTypes'
      BY <2>1 DEF DnsInv, DnsTypes
    <2>3. \A n \in Dns!DnsNames : records'[n] >= records[n]
      BY <2>1 DEF DnsInv, DnsTypes
    <2>4. NamesBehind' /\ OkMeansAll'
      BY <2>1, <2>2, <2>3 DEF DnsInv, DnsTypes, NamesBehind, OkMeansAll, Dns!OkMeansAll, Dns!DnsNames
    <2>5. NoDuplicates'
      BY <2>1 DEF DnsInv, DnsTypes, OneCreation, Pending, NoDuplicates, Dns!NoDuplicates
    <2>6. ~Pending(c)' /\ Pending(c) /\ \A d \in DnsCalls : d # c => Pending(d)' = Pending(d)
      BY <2>1 DEF DnsInv, DnsTypes, Pending
    <2>7. OneCreation'
      BY <2>1, <2>6 DEF DnsInv, DnsTypes, OneCreation
    <2>. QED  BY <2>2, <2>4, <2>5, <2>7 DEF DnsInv
  <1>7. CASE UNCHANGED Dns!vars
    BY <1>7 DEF Dns!vars, DnsInv, DnsTypes, NamesBehind, OneCreation, Pending, OkMeansAll,
                NoDuplicates, Dns!OkMeansAll, Dns!NoDuplicates
  <1>. QED  BY <1>1, <1>2, <1>3, <1>4, <1>5, <1>6, <1>7 DEF Dns!Next, Dns!Settled

(* The names have no record or one to begin with. *)
LEMMA DnsInit == Dns!Init => DnsInv
  BY DnsAssumption
     DEF DnsAssumption, Dns!Init, DnsInv, DnsTypes, NamesBehind, OneCreation, Pending,
         OkMeansAll, NoDuplicates, Dns!OkMeansAll, Dns!NoDuplicates, Dns!DnsNames

(* A request answered with success leaves a record for every name, however  *)
(* many requests run at once, fail, or are dropped by their clients.        *)
THEOREM SuccessMeansAll == Dns!Spec => []OkMeansAll
  <1>1. DnsInv => OkMeansAll
    BY DEF DnsInv
  <1>. QED  BY <1>1, DnsInit, DnsNext, PTL DEF Dns!Spec

(* A name gets a second record only when a lookup of it failed or came      *)
(* while a creation of it was on its way.                                   *)
THEOREM NoSecondRecord == Dns!Spec => []NoDuplicates
  <1>1. DnsInv => NoDuplicates
    BY DEF DnsInv
  <1>. QED  BY <1>1, DnsInit, DnsNext, PTL DEF Dns!Spec
-----------------------------------------------------------------------------
(* What the run checks is a behaviour of the files and one of the requests  *)
(* for records: the theorems about each hold for the two side by side.      *)
THEOREM ConfigApart == BothSpec => Spec /\ Dns!Spec
  <1>1. BothInit => Init /\ Dns!Init
    BY DEF BothInit
  <1>2. [BothNext]_<<part, vars, dns>> => [Next]_vars /\ [Dns!Next]_(Dns!vars)
    BY DEF BothNext, dns, Dns!vars
  <1>. QED  BY <1>1, <1>2, PTL DEF BothSpec, Spec, Dns!Spec
=============================================================================

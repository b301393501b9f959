------------------------- MODULE BlobDownloadProofs -------------------------
(***************************************************************************)
(* Proofs about BlobDownload for every blob length, every set of chunk      *)
(* sizes, every concurrency, retry and channel bound and every number of    *)
(* faults.                                                                  *)
(***************************************************************************)
EXTENDS BlobDownload, TLAPS

-----------------------------------------------------------------------------
(* Arithmetic of split_with *)

(* Chunk sizes are positive: PlanSizes is, and so is the 1 of an idle state. *)
LEMMA SizesPositive == Sizes \subseteq Nat \ {0}
BY BlobAssumption DEF Sizes

(* Offsets grow with the index. *)
LEMMA OffsetMonotone ==
    ASSUME NEW i \in Nat, NEW j \in Nat, NEW s \in Nat, i <= j
    PROVE  Offset(i, s) \in Nat /\ Offset(i, s) <= Offset(j, s)
BY SMT DEF Offset

(* A chunk lies within the blob and its end is behind its offset. *)
LEMMA ChunkBounds ==
    ASSUME NEW s \in Nat \ {0}, NEW i \in Chunks(s)
    PROVE  /\ i \in 0 .. Total - 1
           /\ Offset(i, s) \in 0 .. Total - 1
           /\ End(i, s) \in Nat /\ End(i, s) <= Total /\ Offset(i, s) < End(i, s)
<1>1. i \in 0 .. Total - 1 /\ i * s < Total /\ i \in Nat /\ i * s \in Nat
  BY BlobAssumption, SMT DEF Chunks
<1>2. (i + 1) * s = i * s + s
  BY <1>1, SMT
<1> QED
  BY <1>1, <1>2, BlobAssumption, SMT DEF Offset, End

(* The first index that is no chunk is behind the whole blob. *)
LEMMA PastTheEnd ==
    ASSUME NEW s \in Nat \ {0}, NEW e \in 0 .. Total, e \notin Chunks(s)
    PROVE  e * s \in Nat /\ e * s >= Total
<1>1. CASE e = Total
  <2>1. Total * s >= Total * 1
    BY BlobAssumption, SMT
  <2> QED BY <1>1, <2>1, BlobAssumption, SMT
<1>2. CASE e # Total
  BY <1>2, BlobAssumption, SMT DEF Chunks
<1> QED BY <1>1, <1>2

-----------------------------------------------------------------------------
(* Type correctness *)

(* What the disk and the tasks are reset to is well typed. *)
LEMMA ConstantTypes ==
    /\ Empty \in Data
    /\ NoBitmap \in Bitmaps
    /\ NoLate \in Lates
    /\ NoTasks \in Tasks
BY BlobAssumption DEF Empty, Data, Cells, NoBitmap, Sizes, NoLate, NoTasks, NoTask,
   Bitmaps, Lates, Tasks

(* Nothing happens to a group of variables that a step leaves alone. *)
LEMMA FilesSame == FilesOK /\ UNCHANGED disk => FilesOK'
BY DEF FilesOK, disk

(* The same for the attempt's variables. *)
LEMMA AttemptSame == AttemptOK /\ UNCHANGED attempt => AttemptOK'
BY DEF AttemptOK, attempt, errors

(* An attempt that is forgotten leaves its variables well typed. *)
LEMMA ForgetType == Forget => AttemptOK'
BY BlobAssumption, ConstantTypes DEF Forget, AttemptOK, Sizes

(* So does an error return of download(). *)
LEMMA AbortType ==
    ASSUME TypeOK, Abort, UNCHANGED <<client, chan, faults>>
    PROVE  TypeOK'
<1>1. late' \in Lates
  <2>1. CASE late' = late
    BY <2>1 DEF TypeOK, FilesOK
  <2>2. ASSUME NEW i \in Fetching, task[i].cur <= Total,
               NEW v \in Frames(task[i].cur),
               late' = [at |-> "part", cell |-> task[i].cur,
                        val |-> IF v = "good" THEN "good" ELSE "stray"]
        PROVE  late' \in Lates
    <3>1. task[i].cur \in Cells
      BY <2>2 DEF TypeOK, AttemptOK, Tasks, Fetching, Chunks, Cells
    <3> QED BY <2>2, <3>1 DEF Lates
  <2> QED BY <2>1, <2>2 DEF Abort, QueueLate
<1>2. FilesOK'
  BY <1>1, ConstantTypes DEF Abort, TypeOK, FilesOK
<1> QED
  BY <1>2, ForgetType DEF Abort, TypeOK, PCs

(* Moving one task to another state or cursor keeps the tasks well typed. *)
LEMMA TaskStType ==
    ASSUME TypeOK, NEW i \in Chunks(cs), NEW st \in {"fetch", "done", "joined"}
    PROVE  [task EXCEPT ![i].st = st] \in Tasks
<1>1. task \in Tasks /\ i \in 0 .. Total - 1
  BY DEF TypeOK, AttemptOK, Chunks
<1> QED BY <1>1 DEF Tasks

(* Advancing a cursor that is still within the file keeps the tasks typed. *)
LEMMA TaskCurType ==
    ASSUME TypeOK, NEW i \in Chunks(cs), task[i].cur <= Total
    PROVE  [task EXCEPT ![i].cur = @ + 1] \in Tasks
<1>1. task \in Tasks /\ i \in 0 .. Total - 1
  BY DEF TypeOK, AttemptOK, Chunks
<1>2. task[i].cur + 1 \in 0 .. Total + 1
  BY <1>1, BlobAssumption DEF Tasks
<1> QED BY <1>1, <1>2 DEF Tasks

(* Retrying or failing a chunk keeps the tasks well typed. *)
LEMMA RetryType ==
    ASSUME TypeOK, NEW i \in Chunks(cs), Retry(i)
    PROVE  task' \in Tasks
<1>0. cs \in Nat \ {0}
  BY SizesPositive DEF TypeOK, AttemptOK
<1>1. Offset(i, cs) \in 0 .. Total + 1 /\ i \in 0 .. Total - 1
  BY <1>0, ChunkBounds, BlobAssumption
<1>2. task \in Tasks
  BY DEF TypeOK, AttemptOK
<1> QED BY <1>1, <1>2, BlobAssumption DEF Retry, Exhausted, Tasks

(* One step of any action keeps the state well typed. *)
LEMMA TypeStep == TypeOK /\ [Next]_vars => TypeOK'
<1> SUFFICES ASSUME TypeOK, [Next]_vars PROVE TypeOK'
  OBVIOUS
<1> USE BlobAssumption, ConstantTypes, FilesSame, AttemptSame, ForgetType DEF TypeOK, PCs, errors
<1>1. CASE UNCHANGED vars \/ Hit
  BY <1>1 DEF vars, Hit
<1>2. CASE StartChunked
  BY <1>2 DEF StartChunked, Recheck
<1>3. CASE StartTee
  BY <1>3 DEF StartTee, FilesOK
<1>4. CASE Begin
  <2>1. FilesOK'
    BY <1>4 DEF Begin, FilesOK
  <2>2. AttemptOK'
    BY <1>4 DEF Begin, AttemptOK, Sizes
  <2> QED BY <1>4, <2>1, <2>2 DEF Begin
<1>5. CASE LoadBitmap
  <2>1. bitmap.cs \in Sizes /\ bitmap.done \in SUBSET (0 .. Total - 1)
    BY DEF FilesOK, Bitmaps
  <2>2. AttemptOK'
    BY <1>5, <2>1 DEF LoadBitmap, AttemptOK
  <2> QED BY <1>5, <2>2 DEF LoadBitmap
<1>6. CASE OpenAndSpawn
  <2>1. CASE Abort
    BY <1>6, <2>1, AbortType DEF OpenAndSpawn
  <2>2. CASE ~Abort
    <3>1. \A i \in Chunks(cs) : Offset(i, cs) \in 0 .. Total + 1
      BY ChunkBounds, SizesPositive DEF AttemptOK
    <3>2. task' \in Tasks
      BY <1>6, <2>2, <3>1 DEF OpenAndSpawn, Tasks, NoTask
    <3>3. AttemptOK'
      BY <1>6, <2>2, <3>2 DEF OpenAndSpawn, AttemptOK
    <3>4. FilesOK'
      BY <1>6, <2>2 DEF OpenAndSpawn, FilesOK
    <3> QED BY <1>6, <2>2, <3>3, <3>4 DEF OpenAndSpawn
  <2> QED BY <2>1, <2>2
<1>7. ASSUME NEW i \in Chunks(cs), Join(i) PROVE TypeOK'
  <2>1. CASE Abort
    BY <1>7, <2>1, AbortType DEF Join
  <2>2. CASE ~Abort
    <3>1. task' \in Tasks
      BY <1>7, <2>2, TaskStType DEF Join
    <3>2. AttemptOK'
      BY <1>7, <2>2, <3>1 DEF Join, AttemptOK, Chunks
    <3> QED BY <1>7, <2>2, <3>2 DEF Join
  <2> QED BY <2>1, <2>2
<1>8. CASE SaveTruncate
  <2>1. bitmap' \in Bitmaps
    BY <1>8 DEF SaveTruncate, FilesOK, Bitmaps, NoBitmap
  <2> QED BY <1>8, <2>1 DEF SaveTruncate, FilesOK
<1>9. CASE SaveWrite
  <2>1. bitmap' \in Bitmaps
    BY <1>9 DEF SaveWrite, FilesOK, AttemptOK, Bitmaps
  <2> QED BY <1>9, <2>1 DEF SaveWrite, FilesOK
<1>10. CASE Emit
  <2>1. CASE Abort
    BY <1>10, <2>1, AbortType DEF Emit
  <2>2. CASE ~Abort
    <3>1. CASE Contiguous
      <4>1. /\ emitted' = emitted + 1 /\ pc' = "send"
            /\ hashOK' \in BOOLEAN
            /\ UNCHANGED <<disk, cs, plen, resumed, task, done, errors, tcur, client, chan, faults>>
        BY <1>10, <2>2, <3>1 DEF Emit
      <4>2. emitted' \in 0 .. Total
        BY <3>1, <4>1 DEF Contiguous, Chunks
      <4>3. AttemptOK'
        BY <4>1, <4>2 DEF AttemptOK
      <4> QED BY <4>1, <4>3
    <3>2. CASE ~Contiguous
      BY <1>10, <2>2, <3>2 DEF Emit
    <3> QED BY <3>1, <3>2
  <2> QED BY <2>1, <2>2
<1>11. CASE Send
  BY <1>11 DEF Send, Sent, SentToReader
<1>12. CASE Finish
  BY <1>12 DEF Finish, DigestMatches
<1>13. CASE DropPart
  BY <1>13 DEF DropPart, UnlinkPart, FilesOK
<1>14. CASE DropBitmap
  BY <1>14 DEF DropBitmap, FilesOK
<1>15. CASE Commit
  <2>1. late' \in Lates
    BY <1>15 DEF Commit, FilesOK, Lates
  <2>2. FilesOK'
    BY <1>15, <2>1 DEF Commit, FilesOK
  <2> QED BY <1>15, <2>2 DEF Commit
<1>16. CASE Cleanup
  BY <1>16 DEF Cleanup, Leave, FilesOK
<1>17. CASE ReportError
  BY <1>17 DEF ReportError, Leave
<1>18. CASE TeeOpen
  <2>1. FilesOK'
    BY <1>18 DEF TeeOpen, FilesOK
  <2> QED BY <1>18, <2>1 DEF TeeOpen
<1>18a. CASE PlainFrame
  <2>1. AttemptOK'
    BY <1>18a DEF PlainFrame, AttemptOK
  <2> QED BY <1>18a, <2>1 DEF PlainFrame
<1>18b. CASE PlainSend \/ PlainEnds
  BY <1>18b DEF PlainSend, PlainEnds, SentToReader, Leave
<1>19. ASSUME NEW v \in {"good", "bad"}, TeeFrame(v) PROVE TypeOK'
  <2>1. FilesOK'
    BY <1>19 DEF TeeFrame, FilesOK, Data
  <2>2. AttemptOK'
    BY <1>19 DEF TeeFrame, AttemptOK
  <2> QED BY <1>19, <2>1, <2>2 DEF TeeFrame, Fault
<1>20. CASE TeeSend
  BY <1>20 DEF TeeSend, Sent, SentToReader
<1>21. CASE TeeEnds
  BY <1>21 DEF TeeEnds, UnlinkPart, FilesOK
<1>22. CASE TeeCommit
  <2>1. late' \in Lates
    BY <1>22 DEF TeeCommit, FilesOK, Lates
  <2>2. FilesOK'
    BY <1>22, <2>1 DEF TeeCommit, FilesOK
  <2> QED BY <1>22, <2>2 DEF TeeCommit, Leave
<1>23. ASSUME NEW i \in Chunks(cs), Acquire(i) PROVE TypeOK'
  <2>1. task' \in Tasks
    BY <1>23, TaskStType DEF Acquire
  <2> QED BY <1>23, <2>1 DEF Acquire, AttemptOK
<1>24. ASSUME NEW i \in Chunks(cs), NEW v \in {"good", "bad"}, WriteFrame(i, v) PROVE TypeOK'
  <2>1. task' \in Tasks
    BY <1>24, TaskCurType DEF WriteFrame
  <2>2. AttemptOK'
    BY <1>24, <2>1 DEF WriteFrame, AttemptOK
  <2>3. FilesOK'
    BY <1>24 DEF WriteFrame, FilesOK, Data
  <2> QED BY <1>24, <2>2, <2>3 DEF WriteFrame, Fault
<1>25. ASSUME NEW i \in Chunks(cs), BodyEnds(i) PROVE TypeOK'
  <2>1. task' \in Tasks
    <3>1. CASE task[i].cur = End(i, cs)
      BY <1>25, <3>1, TaskStType DEF BodyEnds
    <3>2. CASE task[i].cur # End(i, cs)
      BY <1>25, <3>2, RetryType DEF BodyEnds
    <3> QED BY <3>1, <3>2
  <2> QED BY <1>25, <2>1 DEF BodyEnds, AttemptOK
<1>25a. ASSUME NEW i \in Chunks(cs), WriteRefused(i) PROVE TypeOK'
  <2>1. task' \in Tasks /\ i \in 0 .. Total - 1
    BY <1>25a, TaskCurType DEF WriteRefused, Chunks
  <2>2. AttemptOK'
    BY <1>25a, <2>1 DEF WriteRefused, AttemptOK
  <2> QED BY <1>25a, <2>2 DEF WriteRefused, Fault
<1>25b. ASSUME NEW i \in Chunks(cs), TakesError(i) PROVE TypeOK'
  <2>1. task' \in Tasks
    BY <1>25b, RetryType DEF TakesError
  <2>2. werr \in 0 .. Total - 1 /\ lost' \in SUBSET (0 .. Total - 1)
    BY <1>25b DEF TakesError, AttemptOK
  <2>3. AttemptOK'
    BY <1>25b, <2>1, <2>2 DEF TakesError, AttemptOK
  <2> QED BY <1>25b, <2>3 DEF TakesError
<1>26. ASSUME NEW i \in Chunks(cs), FetchFails(i) PROVE TypeOK'
  <2>1. task' \in Tasks
    BY <1>26, RetryType DEF FetchFails
  <2>2. AttemptOK'
    BY <1>26, <2>1 DEF FetchFails, AttemptOK
  <2> QED BY <1>26, <2>2 DEF FetchFails, Fault
<1>27. CASE TeeFails
  <2>1. FilesOK'
    BY <1>27 DEF TeeFails, UnlinkPart, FilesOK
  <2> QED BY <1>27, <2>1 DEF TeeFails, Fault
<1>28. CASE ClientReads
  BY <1>28 DEF ClientReads
<1>29. CASE ClientLeaves
  BY <1>29 DEF ClientLeaves
<1>30. CASE RemovePart
  <2>1. FilesOK'
    BY <1>30 DEF RemovePart, FilesOK
  <2> QED BY <1>30, <2>1 DEF RemovePart, Fault
<1>31. CASE RemoveBitmap
  <2>1. FilesOK'
    BY <1>31 DEF RemoveBitmap, FilesOK
  <2> QED BY <1>31, <2>1 DEF RemoveBitmap, Fault
<1>32. CASE RemoveBlob
  <2>1. FilesOK'
    BY <1>32 DEF RemoveBlob, FilesOK
  <2> QED BY <1>32, <2>1 DEF RemoveBlob, Fault
<1>33. CASE RemoveDir \/ OtherDigest
  <2>1. FilesOK'
    BY <1>33 DEF RemoveDir, OtherDigest, FilesOK
  <2> QED BY <1>33, <2>1 DEF RemoveDir, OtherDigest, Fault
<1>34. CASE Crash
  <2>1. FilesOK'
    BY <1>34 DEF Crash, FilesOK
  <2> QED BY <1>34, <2>1 DEF Crash, Leave, Fault
<1>35. CASE LateLands
  <2>1. late.cell \in Cells /\ late.val \in {"none", "good", "stray"}
    BY DEF FilesOK, Lates
  <2>2. file' \in Data /\ blob' \in Data
    BY <1>35, <2>1 DEF LateLands, FilesOK, Data
  <2> QED BY <1>35, <2>2 DEF LateLands, FilesOK
<1> QED
  BY <1>1, <1>2, <1>3, <1>4, <1>5, <1>6, <1>7, <1>8, <1>9, <1>10, <1>11, <1>12, <1>13, <1>14,
     <1>15, <1>16, <1>17, <1>18, <1>18a, <1>18b, <1>19, <1>20, <1>21, <1>22, <1>23, <1>24, <1>25,
     <1>25a, <1>25b, <1>26, <1>27, <1>28, <1>29, <1>30, <1>31, <1>32, <1>33, <1>34, <1>35
  DEF Next, Collector, Tee, ChunkTask, Environment

(* The state stays well formed: every step of every action preserves the    *)
(* type invariant.                                                          *)
THEOREM TypeCorrect == Spec => []TypeOK
<1>1. Init => TypeOK
  <2> SUFFICES ASSUME Init PROVE TypeOK
    OBVIOUS
  <2>1. FilesOK
    BY ConstantTypes DEF Init, FilesOK
  <2>2. AttemptOK
    BY BlobAssumption, ConstantTypes DEF Init, AttemptOK, Sizes
  <2> QED BY <2>1, <2>2, BlobAssumption DEF Init, TypeOK, PCs
<1> QED BY <1>1, TypeStep, PTL DEF Spec

-----------------------------------------------------------------------------
(* Integrity of what is committed *)

Structure == AtRest /\ WritersBehind

(* A forgotten attempt has no tasks. *)
LEMMA ForgetStructure ==
    ASSUME Forget, pc' \in PCs \ (Collecting \cup {"final"})
    PROVE  Structure'
BY DEF Forget, Structure, AtRest, WritersBehind, NoTasks, NoTask, Chunks, PCs

(* A task whose state or cursor moves on stays behind the emitted prefix. *)
LEMMA TaskStructure ==
    ASSUME TypeOK, Structure, NEW i \in Chunks(cs), task[i].st = "fetch",
           UNCHANGED <<pc, cs, done, emitted, hashOK, tcur>>,
           NEW r, task' = [task EXCEPT ![i] = r],
           r.st = "fetch" => r.cur >= Offset(i, cs), r.st # "wait"
    PROVE  Structure'
<1>1. task \in Tasks /\ i \in 0 .. Total - 1
  BY DEF TypeOK, AttemptOK, Chunks
<1>2. pc \in Collecting /\ i \notin done
  BY DEF Structure, WritersBehind
<1>3. task'[i] = r /\ \A j \in Chunks(cs) : j # i => task'[j] = task[j]
  BY <1>1 DEF Tasks, Chunks
<1>4. AtRest'
  BY <1>2 DEF AtRest, Collecting, PCs
<1>5. WritersBehind'
  BY <1>2, <1>3 DEF Structure, WritersBehind, Chunks, Offset
<1> QED BY <1>4, <1>5 DEF Structure

(* Every step keeps the tasks behind the emitted prefix. *)
LEMMA StructureStep ==
    ASSUME TypeOK, Structure, [Next]_vars
    PROVE  Structure'
<1> USE DEF Collecting, PCs
<1>0. cs \in Nat \ {0} /\ task \in Tasks
  BY SizesPositive DEF TypeOK, AttemptOK
<1>1. CASE UNCHANGED vars \/ Hit
  BY <1>1 DEF vars, attempt, Hit, Structure, AtRest, WritersBehind
<1>2. CASE StartChunked \/ StartTee
  BY <1>2 DEF StartChunked, Recheck, StartTee, attempt, Structure, AtRest, WritersBehind
<1>4. CASE Begin
  BY <1>4 DEF Begin, Structure, AtRest, WritersBehind, NoTasks, NoTask, Chunks
<1>5. CASE LoadBitmap
  BY <1>5 DEF LoadBitmap, Structure, AtRest, WritersBehind, NoTasks, NoTask, Chunks
<1>6. CASE OpenAndSpawn
  <2>1. CASE Abort
    BY <2>1, ForgetStructure DEF Abort
  <2>2. CASE ~Abort
    <3>1. \A i \in Chunks(cs) : i \in 0 .. Total - 1 /\ Offset(i, cs) \in Nat
      BY <1>0, ChunkBounds
    <3>2. /\ pc' = "join" /\ cs' = cs /\ emitted' = emitted /\ done' = resumed
          /\ task' = [i \in 0 .. Total - 1 |->
                         IF i \notin Chunks(cs) THEN NoTask
                         ELSE [st |-> IF i \in resumed THEN "done" ELSE "wait",
                               cur |-> Offset(i, cs), att |-> 0]]
      BY <1>6, <2>2 DEF OpenAndSpawn
    <3>3. emitted = 0
      BY <1>6 DEF OpenAndSpawn, Structure, AtRest
    <3>4. WritersBehind'
      <4>1. \A j \in 0 .. Total - 1 : ~(j < emitted')
        BY <3>2, <3>3
      <4>2. ASSUME NEW i \in Chunks(cs)
            PROVE  /\ task'[i].st \in {"wait", "fetch"} => i \notin done'
                   /\ task'[i].cur >= Offset(i, cs)
        <5>1. task'[i] = [st |-> IF i \in resumed THEN "done" ELSE "wait",
                          cur |-> Offset(i, cs), att |-> 0]
          BY <3>1, <3>2
        <5>2. CASE i \in resumed
          BY <3>1, <3>2, <5>1, <5>2
        <5>3. CASE i \notin resumed
          BY <3>1, <3>2, <5>1, <5>3
        <5> QED BY <5>2, <5>3
      <4> QED BY <3>2, <4>1, <4>2 DEF WritersBehind
    <3> QED BY <3>2, <3>4 DEF Structure, AtRest
  <2> QED BY <2>1, <2>2
<1>7. ASSUME NEW i \in Chunks(cs), Join(i) PROVE Structure'
  BY <1>0, <1>7, ForgetStructure DEF Join, Abort, Structure, AtRest, WritersBehind, Tasks, Chunks
<1>8. CASE SaveTruncate \/ SaveWrite
  BY <1>8 DEF SaveTruncate, SaveWrite, attempt, Structure, AtRest, WritersBehind
<1>10. CASE Emit
  BY <1>0, <1>10, ForgetStructure DEF Emit, Contiguous, Unjoined, Abort, attempt, Structure, AtRest,
     WritersBehind, TypeOK, AttemptOK
<1>11. CASE Send
  BY <1>11 DEF Send, Sent, SentToReader, attempt, Structure, AtRest, WritersBehind
<1>12. CASE Finish \/ DropPart
  BY <1>12 DEF Finish, DigestMatches, DropPart, attempt, Structure, AtRest, WritersBehind
<1>14. CASE DropBitmap \/ Cleanup
  BY <1>14, ForgetStructure DEF DropBitmap, Cleanup, Leave
<1>15. CASE Commit
  BY <1>15, ForgetStructure DEF Commit, attempt, Structure, AtRest, WritersBehind
<1>17. CASE ReportError \/ TeeOpen \/ PlainSend
  BY <1>17 DEF ReportError, TeeOpen, PlainSend, Leave, attempt, Structure, AtRest, WritersBehind
<1>18. CASE PlainFrame
  BY <1>18 DEF PlainFrame, Structure, AtRest, WritersBehind
<1>19. ASSUME NEW v \in {"good", "bad"}, TeeFrame(v) PROVE Structure'
  BY <1>19 DEF TeeFrame, Structure, AtRest, WritersBehind
<1>20. CASE TeeSend
  BY <1>20 DEF TeeSend, Sent, SentToReader, attempt, Structure, AtRest, WritersBehind
<1>21. CASE TeeEnds
  BY <1>21, ForgetStructure DEF TeeEnds, attempt, Structure, AtRest, WritersBehind
<1>22. CASE TeeCommit \/ TeeFails \/ PlainEnds \/ Crash
  BY <1>22, ForgetStructure DEF TeeCommit, TeeFails, PlainEnds, Crash, Leave
<1>23. ASSUME NEW i \in Chunks(cs), Acquire(i) PROVE Structure'
  BY <1>0, <1>23 DEF Acquire, Structure, AtRest, WritersBehind, Tasks, Chunks
<1>24. ASSUME NEW i \in Chunks(cs),
               WriteRefused(i) \/ \E v \in {"good", "bad"} : WriteFrame(i, v)
        PROVE  Structure'
  <2>1. task' = [task EXCEPT ![i] = [task[i] EXCEPT !.cur = task[i].cur + 1]]
    BY <1>24 DEF WriteFrame, WriteRefused
  <2>2. task[i].cur \in Nat /\ task[i].cur >= Offset(i, cs) /\ Offset(i, cs) \in Nat
    BY <1>0, <1>24, ChunkBounds DEF WriteFrame, WriteRefused, Structure, WritersBehind, Tasks
  <2>3. task[i] \in [st : {"none", "wait", "fetch", "done", "failed", "joined"},
                     cur : 0 .. Total + 1, att : 0 .. MaxRetries]
    BY <1>0 DEF Tasks, Chunks
  <2>4. [task[i] EXCEPT !.cur = task[i].cur + 1].cur >= Offset(i, cs)
    BY <2>2, <2>3
  <2>5. [task[i] EXCEPT !.cur = task[i].cur + 1].st = "fetch"
    BY <1>24, <2>3 DEF WriteFrame, WriteRefused
  <2> QED BY <1>24, <2>1, <2>4, <2>5, TaskStructure DEF WriteFrame, WriteRefused
<1>24a. ASSUME NEW i \in Chunks(cs), task[i].st = "fetch", Retry(i),
               UNCHANGED <<pc, cs, done, emitted, hashOK, tcur>>
        PROVE  Structure'
  <2>1. Offset(i, cs) \in Nat
    BY <1>0, ChunkBounds
  <2> DEFINE f == [st |-> "failed", cur |-> Offset(i, cs), att |-> task[i].att]
             g == [st |-> "fetch", cur |-> Offset(i, cs), att |-> task[i].att + 1]
  <2>2. g.cur >= Offset(i, cs) /\ g.st = "fetch" /\ f.st = "failed"
    BY <2>1
  <2>3. task' = [task EXCEPT ![i] = f] \/ task' = [task EXCEPT ![i] = g]
    BY <1>24a DEF Retry, Exhausted
  <2> HIDE DEF f, g
  <2>4. CASE task' = [task EXCEPT ![i] = f]
    BY <1>24a, <2>2, <2>4, TaskStructure
  <2>5. CASE task' = [task EXCEPT ![i] = g]
    BY <1>24a, <2>2, <2>5, TaskStructure
  <2> QED BY <2>3, <2>4, <2>5
<1>25. ASSUME NEW i \in Chunks(cs), BodyEnds(i) PROVE Structure'
  <2>1. CASE task[i].cur = End(i, cs)
    BY <1>0, <1>25, <2>1 DEF BodyEnds, Structure, AtRest, WritersBehind, Tasks, Chunks
  <2>2. CASE task[i].cur # End(i, cs)
    BY <1>24a, <1>25, <2>2 DEF BodyEnds
  <2> QED BY <2>1, <2>2
<1>26. ASSUME NEW i \in Chunks(cs), FetchFails(i) \/ TakesError(i) PROVE Structure'
  BY <1>24a, <1>26 DEF FetchFails, TakesError
<1>28. CASE ClientReads \/ ClientLeaves \/ RemovePart \/ RemoveBitmap \/ RemoveBlob
  BY <1>28 DEF ClientReads, ClientLeaves, RemovePart, RemoveBitmap, RemoveBlob, attempt,
               Structure, AtRest, WritersBehind
<1>33. CASE RemoveDir \/ OtherDigest \/ LateLands
  BY <1>33 DEF RemoveDir, OtherDigest, LateLands, attempt, Structure, AtRest, WritersBehind
<1> QED
  BY <1>1, <1>2, <1>4, <1>5, <1>6, <1>7, <1>8, <1>10, <1>11, <1>12, <1>14,
     <1>15, <1>17, <1>18, <1>19, <1>20, <1>21, <1>22, <1>23, <1>24, <1>25, <1>26,
     <1>28, <1>33
  DEF Next, Collector, Tee, ChunkTask, Environment

Content ==
    HashedPrefixIntact /\ TeePrefixIntact /\ ReadyToCommit /\ LateFrames /\ BlobIntegrity

(* Content depends on nothing but the files and the position of the hash. *)
LEMMA ContentSame ==
    ASSUME Content, UNCHANGED <<file, linked, blob, committed, late, cs, emitted, hashOK, tcur>>,
           pc' = pc \/ pc' \notin {"final", "commit", "teecommit"} \cup Collecting \cup Streaming
    PROVE  Content'
BY DEF Content, HashedPrefixIntact, TeePrefixIntact, ReadyToCommit, LateFrames, BlobIntegrity,
       NextOffset, Good

(* Leaving the attempt, with or without an error: only what is committed    *)
(* and what is queued matters.                                              *)
LEMMA ContentEnds ==
    ASSUME Content, UNCHANGED <<blob, committed>>,
           pc' \in {"idle", "fail"},
           late' = late \/ late'.at = "none" \/ late'.val \in Hashed
    PROVE  Content'
BY DEF Content, HashedPrefixIntact, TeePrefixIntact, ReadyToCommit, LateFrames, BlobIntegrity,
       Collecting, Streaming, Good

(* An error return publishes nothing. *)
LEMMA AbortContent == ASSUME Content, Abort PROVE Content'
<1>1. late' = late \/ late'.val \in Hashed
  BY DEF Abort, QueueLate, Hashed
<1> QED BY <1>1, ContentEnds DEF Abort

(* The emitted prefix never reaches behind the blob. *)
LEMMA NextOffsetBound ==
    ASSUME TypeOK PROVE NextOffset \in Nat /\ NextOffset <= Total
<1>1. cs \in Nat /\ emitted \in Nat /\ emitted * cs \in Nat
  BY SizesPositive, BlobAssumption DEF TypeOK, AttemptOK
<1> QED BY <1>1, BlobAssumption DEF NextOffset

(* Every step keeps the hashed prefix, the stream and the blob intact. *)
LEMMA ContentStep ==
    ASSUME TypeOK, Structure, Content, [Next]_vars
    PROVE  Content'
<1> USE DEF Collecting, Streaming
<1>0. cs \in Nat \ {0} /\ task \in Tasks /\ file \in Data
  BY SizesPositive DEF TypeOK, AttemptOK, FilesOK
<1>1. CASE UNCHANGED vars \/ Hit
  BY <1>1, ContentSame DEF vars, disk, attempt, Hit
<1>2. CASE StartChunked \/ StartTee
  BY <1>2, ContentSame DEF StartChunked, Recheck, StartTee, disk, attempt
<1>3. CASE Begin \/ LoadBitmap
  BY <1>3 DEF Begin, LoadBitmap, disk, Content, HashedPrefixIntact, TeePrefixIntact,
              ReadyToCommit, LateFrames, BlobIntegrity, Good
<1>4. CASE OpenAndSpawn
  <2>1. CASE Abort
    BY <2>1, AbortContent
  <2>2. CASE ~Abort
    <3>1. emitted' = 0 /\ cs' = cs /\ pc' = "join"
          /\ UNCHANGED <<file, blob, committed, late>>
      BY <1>4, <2>2 DEF OpenAndSpawn, Structure, AtRest, PCs
    <3>2. NextOffset' = 0
      BY <1>0, <3>1, BlobAssumption DEF NextOffset
    <3>3. \A c \in Cells : ~(c < 0)
      BY DEF Cells
    <3> QED BY <3>1, <3>2, <3>3 DEF Content, HashedPrefixIntact, TeePrefixIntact, ReadyToCommit,
                               LateFrames, BlobIntegrity, Good
  <2> QED BY <2>1, <2>2
<1>5. ASSUME NEW i \in Chunks(cs), Join(i) PROVE Content'
  <2>1. CASE Abort
    BY <2>1, AbortContent
  <2>2. CASE ~Abort
    BY <1>5, <2>2 DEF Join, disk, Content, HashedPrefixIntact, TeePrefixIntact, ReadyToCommit,
                   LateFrames, BlobIntegrity, NextOffset, Good
  <2> QED BY <2>1, <2>2
<1>6. CASE SaveTruncate \/ SaveWrite \/ Send
  BY <1>6 DEF SaveTruncate, SaveWrite, Send, Sent, SentToReader, disk, attempt, Content, HashedPrefixIntact,
              TeePrefixIntact, ReadyToCommit, LateFrames, BlobIntegrity, NextOffset, Good
<1>7. CASE Emit
  <2>1. CASE Abort
    BY <2>1, AbortContent
  <2>2. CASE Contiguous /\ ~Abort
    <3>1. /\ hashOK' = (hashOK /\ \A c \in Region(emitted, cs) : file[c] = "good")
          /\ emitted' = emitted + 1 /\ cs' = cs /\ pc' = "send" /\ UNCHANGED disk
      BY <1>7, <2>2 DEF Emit
    <3>2. NextOffset = Offset(emitted, cs) /\ NextOffset' = End(emitted, cs)
      <4>1. emitted * cs < Total /\ emitted * cs \in Nat
        BY <1>0, <2>2, BlobAssumption DEF Contiguous, Chunks
      <4>2. NextOffset = Offset(emitted, cs)
        BY <4>1, BlobAssumption DEF NextOffset, Offset
      <4>3. NextOffset' = End(emitted, cs)
        BY <3>1 DEF NextOffset, End
      <4> QED BY <4>2, <4>3
    <3>3. HashedPrefixIntact'
      <4> SUFFICES ASSUME hashOK', NEW c \in Cells, c < End(emitted, cs)
                   PROVE  file[c] \in Hashed
        BY <3>1, <3>2 DEF HashedPrefixIntact, disk
      <4>1. hashOK /\ \A d \in Region(emitted, cs) : file[d] = "good"
        BY <3>1
      <4>2. CASE c < Offset(emitted, cs)
        BY <1>7, <3>2, <4>1, <4>2 DEF Emit, Content, HashedPrefixIntact
      <4>3. CASE ~(c < Offset(emitted, cs))
        <5>1. Offset(emitted, cs) \in Nat /\ c \in Nat
          BY <1>0, <2>2, ChunkBounds DEF Contiguous, Cells
        <5>2. c \in Region(emitted, cs)
          BY <4>3, <5>1 DEF Region
        <5> QED BY <4>1, <5>2 DEF Hashed
      <4> QED BY <4>2, <4>3
    <3> QED BY <3>1, <3>3 DEF disk, Content, TeePrefixIntact, ReadyToCommit, LateFrames,
                               BlobIntegrity, Good
  <2>3. CASE ~Contiguous
    BY <1>7, <2>3 DEF Emit, disk, attempt, Content, HashedPrefixIntact, TeePrefixIntact,
                   ReadyToCommit, LateFrames, BlobIntegrity, NextOffset, Good
  <2> QED BY <2>1, <2>2, <2>3
<1>8. CASE Finish
  <2>1. ASSUME hashOK, emitted \notin Chunks(cs) PROVE Good(file)
    <3>1. NextOffset = Total
      <4>1. emitted \in 0 .. Total
        BY DEF TypeOK, AttemptOK
      <4>2. emitted * cs \in Nat /\ emitted * cs >= Total
        BY <1>0, <2>1, <4>1, PastTheEnd
      <4> QED BY <4>2, BlobAssumption DEF NextOffset
    <3> QED BY <1>8, <2>1, <3>1 DEF Finish, DigestMatches, Content, HashedPrefixIntact, Good
  <2> QED BY <1>8, <2>1 DEF Finish, DigestMatches, disk, Content, HashedPrefixIntact, TeePrefixIntact,
                   ReadyToCommit, LateFrames, BlobIntegrity, Good
<1>9. CASE DropPart \/ DropBitmap
  BY <1>9 DEF DropPart, DropBitmap, UnlinkPart, NoLate, Content, HashedPrefixIntact,
              TeePrefixIntact, ReadyToCommit, LateFrames, BlobIntegrity, Good
<1>10. CASE Commit \/ TeeCommit
  <2>1. LateFrames'
    BY <1>10 DEF Commit, TeeCommit, Content, LateFrames, TypeOK, FilesOK, Lates
  <2>2. BlobIntegrity'
    BY <1>10 DEF Commit, TeeCommit, Content, ReadyToCommit, BlobIntegrity, Good
  <2> QED BY <1>10, <2>1, <2>2 DEF Commit, TeeCommit, Leave, Content, HashedPrefixIntact,
                   TeePrefixIntact, ReadyToCommit
<1>11. CASE Cleanup \/ ReportError \/ TeeFails \/ PlainEnds \/ Crash
  BY <1>11, ContentEnds DEF Cleanup, ReportError, TeeFails, PlainEnds, Crash, Leave, UnlinkPart, NoLate, disk
<1>12. CASE TeeOpen
  <2>1. CASE pc' = "tee"
    <3>1. UNCHANGED <<tcur, blob, committed, late>> /\ tcur = 0
      BY <1>12 DEF TeeOpen, attempt, Structure, AtRest
    <3>2. TeePrefixIntact'
      BY <3>1, BlobAssumption DEF TeePrefixIntact, Cells
    <3> QED BY <2>1, <3>1, <3>2 DEF Content, HashedPrefixIntact, ReadyToCommit, LateFrames,
                   BlobIntegrity, Good
  <2>2. CASE pc' # "tee"
    BY <1>12, <2>2, ContentSame DEF TeeOpen, attempt
  <2> QED BY <2>1, <2>2
<1>12a. CASE PlainFrame \/ PlainSend
  BY <1>12a DEF PlainFrame, PlainSend, disk, attempt, Content, HashedPrefixIntact, TeePrefixIntact,
                ReadyToCommit, LateFrames, BlobIntegrity, Good
<1>13. ASSUME NEW v \in {"good", "bad"}, TeeFrame(v) PROVE Content'
  <2>1. TeePrefixIntact'
    <3> SUFFICES ASSUME hashOK'
                 PROVE  tcur' <= Total /\ \A c \in Cells : c < tcur' => file'[c] \in Hashed
      BY DEF TeePrefixIntact
    <3>1. /\ hashOK /\ v = "good" /\ tcur' = tcur + 1 /\ file' = [file EXCEPT ![tcur] = v]
          /\ pc = "tee" /\ tcur <= Total /\ v \in Frames(tcur)
      BY <1>13 DEF TeeFrame
    <3>2. tcur \in Nat /\ tcur < Total
      BY <3>1, BlobAssumption DEF Frames, TypeOK, AttemptOK
    <3>3. \A c \in Cells : c < tcur => file[c] \in Hashed
      BY <3>1 DEF Content, TeePrefixIntact
    <3>4. \A c \in Cells : c < tcur + 1 => c < tcur \/ c = tcur
      BY <3>2 DEF Cells
    <3> QED BY <1>0, <3>1, <3>2, <3>3, <3>4, BlobAssumption DEF Data, Hashed
  <2> QED BY <1>13, <2>1 DEF TeeFrame, Content, HashedPrefixIntact, ReadyToCommit, LateFrames,
                   BlobIntegrity, Good
<1>14. CASE TeeSend
  BY <1>14 DEF TeeSend, Sent, SentToReader, disk, attempt, Content, HashedPrefixIntact, TeePrefixIntact,
               ReadyToCommit, LateFrames, BlobIntegrity, Good
<1>15. CASE TeeEnds
  <2>1. CASE hashOK /\ tcur = Total
    BY <1>15, <2>1 DEF TeeEnds, attempt, Content, HashedPrefixIntact, TeePrefixIntact,
                   ReadyToCommit, LateFrames, BlobIntegrity, Good
  <2>2. CASE ~(hashOK /\ tcur = Total)
    BY <1>15, <2>2, ContentEnds DEF TeeEnds, UnlinkPart, NoLate
  <2> QED BY <2>1, <2>2
<1>16. ASSUME NEW i \in Chunks(cs),
              Acquire(i) \/ BodyEnds(i) \/ FetchFails(i) \/ WriteRefused(i) \/ TakesError(i)
       PROVE  Content'
  BY <1>16, ContentSame DEF Acquire, BodyEnds, FetchFails, WriteRefused, TakesError, disk
<1>17. ASSUME NEW i \in Chunks(cs), NEW v \in {"good", "bad"}, WriteFrame(i, v) PROVE Content'
  <2>1. pc \in Collecting /\ i \notin done /\ task[i].cur >= Offset(i, cs)
    BY <1>17 DEF WriteFrame, Structure, WritersBehind
  <2>2. emitted \in Nat /\ i \in Nat /\ emitted <= i
    <3>1. i \in 0 .. Total - 1 /\ emitted \in 0 .. Total
      BY DEF Chunks, TypeOK, AttemptOK
    <3>2. ~(i < emitted)
      BY <2>1, <3>1 DEF Structure, WritersBehind
    <3> QED BY <3>1, <3>2, BlobAssumption
  <2>3. NextOffset <= Offset(i, cs) /\ Offset(i, cs) \in Nat /\ NextOffset \in Nat
    <3>1. Offset(emitted, cs) <= Offset(i, cs) /\ Offset(emitted, cs) \in Nat
      BY <1>0, <2>2, OffsetMonotone
    <3>2. Offset(i, cs) \in 0 .. Total - 1
      BY <1>0, ChunkBounds
    <3> QED BY <3>1, <3>2, BlobAssumption DEF NextOffset, Offset
  <2>4. task[i].cur \in Nat /\ \A c \in Cells : c < NextOffset => c # task[i].cur
    BY <1>0, <2>1, <2>3 DEF Tasks, Chunks, Cells
  <2>5. HashedPrefixIntact'
    BY <1>0, <1>17, <2>4 DEF WriteFrame, Content, HashedPrefixIntact, NextOffset, Data
  <2> QED BY <1>17, <2>1, <2>5 DEF WriteFrame, Content, TeePrefixIntact, ReadyToCommit, LateFrames,
                   BlobIntegrity, Good
<1>18. CASE ClientReads \/ ClientLeaves \/ RemoveBitmap \/ RemoveDir \/ OtherDigest
  BY <1>18, ContentSame DEF ClientReads, ClientLeaves, RemoveBitmap, RemoveDir, OtherDigest, disk, attempt
<1>19. CASE RemovePart
  BY <1>19 DEF RemovePart, attempt, NoLate, Content, HashedPrefixIntact, TeePrefixIntact,
               ReadyToCommit, LateFrames, BlobIntegrity, NextOffset, Good
<1>20. CASE RemoveBlob
  BY <1>20 DEF RemoveBlob, attempt, NoLate, Content, HashedPrefixIntact, TeePrefixIntact,
               ReadyToCommit, LateFrames, BlobIntegrity, NextOffset, Good
<1>21. CASE LateLands
  <2>1. late.cell \in Cells /\ late.val \in Hashed
    BY <1>21 DEF LateLands, Content, LateFrames, TypeOK, FilesOK, Lates
  <2>2. \A c \in Cells : c < Total /\ file[c] \in Hashed => file'[c] \in Hashed
    BY <1>0, <1>21, <2>1 DEF LateLands, Data
  <2>3. \A c \in Cells : c < Total /\ blob[c] \in Hashed => blob'[c] \in Hashed
    BY <1>21, <2>1 DEF LateLands, Data, TypeOK, FilesOK
  <2>4. NextOffset <= Total /\ NextOffset \in Nat
    BY NextOffsetBound
  <2>5. HashedPrefixIntact'
    <3>1. \A c \in Cells : c < NextOffset => c < Total
      BY <2>4, BlobAssumption DEF Cells
    <3>2. NextOffset' = NextOffset /\ pc' = pc /\ hashOK' = hashOK
      BY <1>21 DEF LateLands, attempt, NextOffset
    <3> QED BY <2>2, <3>1, <3>2 DEF Content, HashedPrefixIntact
  <2>6. TeePrefixIntact'
    <3>1. tcur <= Total => \A c \in Cells : c < tcur => c < Total
      BY BlobAssumption DEF Cells, TypeOK, AttemptOK
    <3>2. UNCHANGED <<tcur, pc, hashOK>>
      BY <1>21 DEF LateLands, attempt
    <3> QED BY <2>2, <3>1, <3>2 DEF Content, TeePrefixIntact
  <2> QED BY <1>21, <2>2, <2>3, <2>5, <2>6 DEF LateLands, NoLate, Content, ReadyToCommit,
        LateFrames, BlobIntegrity, Good
<1> QED
  BY <1>1, <1>2, <1>3, <1>4, <1>5, <1>6, <1>7, <1>8, <1>9, <1>10, <1>11, <1>12, <1>13, <1>14,
     <1>12a, <1>15, <1>16, <1>17, <1>18, <1>19, <1>20, <1>21
  DEF Next, Collector, Tee, ChunkTask, Environment

(* The inductive invariant, part by part: the tasks stay behind the emitted *)
(* prefix, and the hashed prefix stays what it was when it was hashed.      *)
THEOREM IntegrityInvariant == Spec => []IntegrityInv
<1>1. Init => Structure /\ Content
  BY BlobAssumption DEF Init, Structure, AtRest, WritersBehind, NoTasks, NoTask, Chunks, PCs,
     Content, HashedPrefixIntact, TeePrefixIntact, ReadyToCommit, LateFrames, NoLate, BlobIntegrity,
     Collecting, Streaming
<1>2. TypeOK /\ Structure /\ Content /\ [Next]_vars => Structure' /\ Content'
  BY StructureStep, ContentStep
<1>3. Structure /\ Content => IntegrityInv
  BY DEF Structure, Content, IntegrityInv
<1> QED BY <1>1, <1>2, <1>3, TypeCorrect, PTL DEF Spec

(* Whatever the upstreams send, in whatever order the chunk tasks, the      *)
(* collector, the client, eviction, clear and crashes interleave, and       *)
(* however often an attempt is resumed: each cell of the blob that is       *)
(* committed was hashed as part of its digest, unless a queued write of an  *)
(* aborted task has overwritten it since.                                   *)
THEOREM BlobIsVerified == Spec => []BlobIntegrity
<1>1. IntegrityInv => BlobIntegrity
  BY DEF IntegrityInv
<1> QED BY <1>1, IntegrityInvariant, PTL

-----------------------------------------------------------------------------
(* What a step may never do *)

(* Only a task behind the prefix writes while the collector runs. *)
LEMMA NeverRewrittenStep ==
    ASSUME TypeOK, IntegrityInv, Next, pc \in Collecting, pc' \in Collecting,
           NEW c \in Cells, c < NextOffset
    PROVE  file'[c] = file[c] \/ (late.at = "part" /\ c = late.cell /\ late' = NoLate)
<1> USE DEF Collecting
<1>1. ASSUME NEW i \in Chunks(cs), NEW v \in {"good", "bad"}, WriteFrame(i, v)
      PROVE  file'[c] = file[c]
  <2>1. cs \in Nat \ {0} /\ task \in Tasks /\ file \in Data
    BY SizesPositive DEF TypeOK, AttemptOK, FilesOK
  <2>2. i \notin done /\ task[i].cur >= Offset(i, cs) /\ i \in 0 .. Total - 1
    BY <1>1 DEF WriteFrame, IntegrityInv, WritersBehind, Chunks
  <2>3. emitted \in 0 .. Total /\ ~(i < emitted)
    BY <2>2 DEF TypeOK, AttemptOK, IntegrityInv, WritersBehind
  <2>4. Offset(emitted, cs) <= Offset(i, cs) /\ Offset(emitted, cs) \in Nat
        /\ Offset(i, cs) \in 0 .. Total - 1
    <3>1. emitted \in Nat /\ i \in Nat /\ emitted <= i
      BY <2>2, <2>3, BlobAssumption
    <3> QED BY <2>1, <3>1, OffsetMonotone, ChunkBounds
  <2>5. NextOffset <= Offset(i, cs) /\ NextOffset \in Nat
    BY <2>4, BlobAssumption DEF NextOffset, Offset
  <2>6. c # task[i].cur
    BY <2>1, <2>2, <2>4, <2>5, BlobAssumption DEF Tasks, Cells
  <2> QED BY <1>1, <2>1, <2>6 DEF WriteFrame, Data
<1>2. CASE LateLands
  <2>1. file \in Data
    BY DEF TypeOK, FilesOK
  <2> QED BY <1>2, <2>1 DEF LateLands, Data
<1>3. ASSUME UNCHANGED file PROVE file'[c] = file[c]
  BY <1>3
<1>4. CASE Collector
  BY <1>4 DEF Collector, Begin, LoadBitmap, OpenAndSpawn, Join, Abort, SaveTruncate, SaveWrite, Emit,
     Send, Sent, SentToReader, Finish, DropPart, DropBitmap, Commit, Cleanup, ReportError, Leave, disk
<1>5. CASE StartChunked \/ StartTee \/ Tee
  BY <1>5 DEF StartChunked, Recheck, StartTee, Tee, TeeOpen, TeeFrame, TeeSend, TeeEnds, TeeCommit,
     PlainFrame, PlainSend, PlainEnds, Leave
<1>6. CASE Environment
  BY <1>2, <1>6 DEF Environment, ClientReads, ClientLeaves, WriteRefused, FetchFails, TeeFails, RemovePart,
     RemoveBitmap, RemoveBlob, RemoveDir, OtherDigest, Crash, Leave, Hit, vars, disk
<1>7. ASSUME NEW i \in Chunks(cs), Acquire(i) \/ BodyEnds(i) \/ TakesError(i) PROVE file'[c] = file[c]
  BY <1>7 DEF Acquire, BodyEnds, TakesError, disk
<1> QED BY <1>1, <1>4, <1>5, <1>6, <1>7 DEF Next, ChunkTask

(* Once a chunk was handed to the client and to the hash no step of any     *)
(* task, resumed, retried or over-long, changes its bytes on disk: only a   *)
(* write that an earlier attempt's aborted task had queued can.             *)
THEOREM NeverRewritten == Spec => EmittedNeverRewritten
<1>1. TypeOK /\ IntegrityInv /\ [Next]_vars =>
        [(pc \in Collecting /\ pc' \in Collecting) =>
           (\A c \in Cells : c < NextOffset =>
              file'[c] = file[c] \/ (late.at = "part" /\ c = late.cell /\ late' = NoLate))]_vars
  BY NeverRewrittenStep
<1> QED BY <1>1, TypeCorrect, IntegrityInvariant, PTL DEF Spec, EmittedNeverRewritten

-----------------------------------------------------------------------------
(* Refinement of the cache slot *)

(* A flight only runs while nothing is committed: it re-checked the cache   *)
(* under the lock, and only its own rename can commit.                      *)
FlightOnlyWhenAbsent ==
    /\ pc \notin {"idle", "cleanup"} => ~committed
    /\ ~committed => blob = Empty /\ late.at # "blob"

(* No step commits twice. *)
LEMMA FlightStep == TypeOK /\ FlightOnlyWhenAbsent /\ [Next]_vars => FlightOnlyWhenAbsent'
<1> SUFFICES ASSUME TypeOK, FlightOnlyWhenAbsent, [Next]_vars PROVE FlightOnlyWhenAbsent'
  OBVIOUS
<1> USE DEF FlightOnlyWhenAbsent
<1>1. CASE UNCHANGED vars
  BY <1>1 DEF vars, disk
<1>2. CASE Collector
  BY <1>2 DEF Collector, Begin, LoadBitmap, OpenAndSpawn, Join, Abort, SaveTruncate, SaveWrite, Emit,
     Send, Sent, SentToReader, Finish, DropPart, DropBitmap, Commit, Cleanup, ReportError, Leave, disk, QueueLate,
     UnlinkPart, NoLate
<1>3. CASE StartChunked \/ StartTee \/ Tee
  BY <1>3 DEF StartChunked, Recheck, StartTee, Tee, TeeOpen, TeeFrame, TeeSend, TeeEnds, TeeCommit,
     PlainFrame, PlainSend, PlainEnds, SentToReader, Leave, disk, UnlinkPart, NoLate
<1>4. CASE Environment
  <2>1. CASE LateLands
    <3>1. late.at \in {"none", "part", "blob"}
      BY DEF TypeOK, FilesOK, Lates
    <3> QED BY <2>1, <3>1 DEF LateLands, NoLate
  <2>2. CASE ~LateLands
    BY <1>4, <2>2 DEF Environment, ClientReads, ClientLeaves, WriteRefused, FetchFails, TeeFails, RemovePart,
       RemoveBitmap, RemoveBlob, RemoveDir, OtherDigest, Crash, Leave, Hit, vars, disk, UnlinkPart, NoLate
  <2> QED BY <2>1, <2>2
<1>5. ASSUME NEW i \in Chunks(cs), ChunkTask(i) PROVE FlightOnlyWhenAbsent'
  BY <1>5 DEF ChunkTask, Acquire, WriteFrame, BodyEnds, TakesError, disk
<1> QED BY <1>1, <1>2, <1>3, <1>4, <1>5 DEF Next

(* Every behaviour of the downloads is one of the cache slot: the initial   *)
(* state is the empty slot, the two renames publish, the removals withdraw, *)
(* a queued write that lands in the blob is a late write, and every other   *)
(* step leaves the slot alone.                                              *)
THEOREM RefinesSlot == Spec => ImplementsSlot
<1>1. Init => Slot!Init /\ FlightOnlyWhenAbsent
  BY DEF Init, Slot!Init, FlightOnlyWhenAbsent, NoLate
<1>2. ASSUME TypeOK, TypeOK', IntegrityInv, IntegrityInv', FlightOnlyWhenAbsent, [Next]_vars
      PROVE  [Slot!Next]_(IF committed THEN blob ELSE Empty)
  <2>1. CASE ~committed /\ committed'
    <3>1. blob' \in {f \in Data : Good(f)}
      BY <1>2, <2>1 DEF TypeOK, FilesOK, IntegrityInv, BlobIntegrity, Good
    <3> QED BY <2>1, <3>1 DEF Slot!Next, Slot!Publish
  <2>2. CASE committed /\ ~committed'
    <3>1. blob \in {f \in Data : Good(f)}
      BY <1>2, <2>2 DEF TypeOK, FilesOK, IntegrityInv, BlobIntegrity
    <3> QED BY <2>2, <3>1 DEF Slot!Next, Slot!Withdraw
  <2>3. CASE ~committed /\ ~committed'
    BY <2>3
  <2>4. CASE committed /\ committed'
    <3>1. CASE ~LateLands
      <4>1. pc \in {"idle", "cleanup"}
        BY <1>2, <2>4 DEF FlightOnlyWhenAbsent
      <4>2. ASSUME Collector \/ StartChunked \/ StartTee \/ Tee PROVE UNCHANGED blob
        BY <4>1, <4>2 DEF Collector, Begin, LoadBitmap, OpenAndSpawn, Join, Abort, SaveTruncate, SaveWrite,
           Emit, Send, Sent, SentToReader, Finish, DropPart, DropBitmap, Commit, Cleanup, ReportError, StartChunked, Recheck,
           StartTee, Tee, TeeOpen, TeeFrame, TeeSend, TeeEnds, TeeCommit, PlainFrame, PlainSend, PlainEnds, disk
      <4>3. ASSUME Environment PROVE UNCHANGED blob
        BY <2>4, <3>1, <4>3 DEF Environment, ClientReads, ClientLeaves, WriteRefused, FetchFails, TeeFails,
           RemovePart, RemoveBitmap, RemoveBlob, RemoveDir, OtherDigest, Crash, Hit, vars, disk
      <4>4. ASSUME NEW i \in Chunks(cs), ChunkTask(i) PROVE UNCHANGED blob
        BY <4>4 DEF ChunkTask, Acquire, WriteFrame, BodyEnds, TakesError, disk
      <4>5. UNCHANGED blob
        BY <1>2, <4>2, <4>3, <4>4 DEF Next, vars, disk
      <4> QED BY <2>4, <4>5
    <3>2. CASE LateLands
      <4>1. blob \in {f \in Data : Good(f)} /\ blob' \in {f \in Data : Good(f)}
        BY <1>2, <2>4 DEF TypeOK, FilesOK, IntegrityInv, BlobIntegrity, Good
      <4>2. late.cell \in Cells
        BY <1>2 DEF TypeOK, FilesOK, Lates
      <4>3. DOMAIN blob = Cells /\ \A d \in Cells \ {late.cell} : blob'[d] = blob[d]
        BY <1>2, <3>2 DEF LateLands, TypeOK, FilesOK, Data
      <4> QED BY <2>4, <4>1, <4>2, <4>3 DEF Slot!Next, Slot!LateWrite
    <3> QED BY <3>1, <3>2
  <2> QED BY <2>1, <2>2, <2>3, <2>4
<1> QED
  BY <1>1, <1>2, FlightStep, TypeCorrect, IntegrityInvariant, PTL DEF Spec, ImplementsSlot, Slot!Spec

-----------------------------------------------------------------------------
(* Chunks without holes *)

(* Of a chunk that is being fetched, what lies before the cursor is written *)
(* (a retry starts over), unless the handle still keeps the error of one of *)
(* its writes; of one that is done, all of it.  The chunks whose errors     *)
(* went astray are excepted.  Whatever lands late only writes.              *)
Written ==
    /\ pc \in Collecting =>
          \A i \in Chunks(cs) \ (resumed \cup lost) : \A c \in Region(i, cs) :
              /\ task[i].st \in {"wait", "fetch"} =>
                    (c < task[i].cur => file[c] # "none" \/ werr = i)
              /\ task[i].st \in {"done", "joined"} => file[c] # "none"
    /\ late.at # "none" => late.val # "none"

(* Written is not touched by steps that leave the tasks and the file alone, *)
(* nor by the end of the attempt.                                           *)
LEMMA WrittenSame ==
    ASSUME Written, UNCHANGED <<file, task, cs, resumed, werr, lost>>, pc' \in Collecting => pc \in Collecting,
           late'.at = "none" \/ (late'.val = late.val /\ late.at # "none")
    PROVE  Written'
BY DEF Written

(* The end of an attempt. *)
LEMMA WrittenEnds ==
    ASSUME Written, pc' \notin Collecting,
           late'.at = "none" \/ late'.val # "none"
    PROVE  Written'
BY DEF Written

(* An error return queues at most a frame. *)
LEMMA WrittenAbort ==
    ASSUME Written, Abort
    PROVE  Written'
<1>1. late' = late \/ late'.val # "none"
  BY DEF Abort, QueueLate, Frames
<1>2. late'.at = "none" \/ late'.val # "none"
  BY <1>1 DEF Written
<1> QED BY <1>2, WrittenEnds DEF Abort, Collecting

(* A failed try forgets its progress, whoever's error ended it. *)
LEMMA WrittenRetry ==
    ASSUME TypeOK, Written, NEW i \in Chunks(cs), Retry(i), UNCHANGED <<disk, pc, cs, resumed>>,
           lost \ {i} \subseteq lost', \A j \in Chunks(cs) : werr = j => werr' = j \/ j \in lost' \cup {i}
    PROVE  Written'
<1>1. task \in Tasks /\ i \in 0 .. Total - 1 /\ UNCHANGED <<file, late>>
  BY DEF TypeOK, AttemptOK, Chunks, disk
<1>2. /\ task'[i].st \in {"failed", "fetch"} /\ task'[i].cur = Offset(i, cs)
      /\ \A j \in Chunks(cs) : j # i => task'[j] = task[j]
  BY <1>1 DEF Retry, Tasks, Chunks
<1>3. \A c \in Region(i, cs) : ~(c < Offset(i, cs))
  <2>1. cs \in Nat \ {0}
    BY SizesPositive DEF TypeOK, AttemptOK
  <2>2. Offset(i, cs) \in Nat
    BY <2>1, ChunkBounds, BlobAssumption
  <2> QED BY <2>2, BlobAssumption DEF Region, Cells
<1>4. ASSUME pc' \in Collecting, NEW j \in Chunks(cs) \ (resumed \cup lost'), NEW c \in Region(j, cs)
      PROVE  /\ task'[j].st \in {"wait", "fetch"} =>
                    (c < task'[j].cur => file[c] # "none" \/ werr' = j)
             /\ task'[j].st \in {"done", "joined"} => file[c] # "none"
  <2>1. CASE j = i
    BY <1>2, <1>3, <2>1
  <2>2. CASE j # i
    <3>1. j \notin lost /\ task'[j] = task[j] /\ pc \in Collecting
      BY <1>2, <1>4, <2>2
    <3>2. werr = j => werr' = j
      BY <1>4, <2>2
    <3> QED BY <1>4, <3>1, <3>2 DEF Written
  <2> QED BY <2>1, <2>2
<1> QED BY <1>1, <1>4 DEF Written

(* Every step keeps what Written says. *)
LEMMA WrittenStep ==
    ASSUME TypeOK, Written, [Next]_vars
    PROVE  Written'
<1> USE DEF errors
<1>0. cs \in Nat \ {0} /\ task \in Tasks /\ file \in Data
  BY SizesPositive DEF TypeOK, AttemptOK, FilesOK
<1>1. CASE UNCHANGED vars \/ Hit \/ StartChunked \/ StartTee
  <2>1. UNCHANGED <<file, task, cs, resumed, werr, lost, late>> /\ (pc' = pc \/ pc' \notin Collecting)
    BY <1>1 DEF Hit, StartChunked, StartTee, vars, disk, attempt, Collecting
  <2> QED BY <2>1, WrittenSame DEF Written
<1>2. CASE Begin \/ LoadBitmap
  <2>1. UNCHANGED late /\ pc' \notin Collecting
    BY <1>2 DEF Begin, LoadBitmap, disk, Collecting
  <2> QED BY <2>1, WrittenEnds DEF Written
<1>3. CASE OpenAndSpawn
  <2>1. CASE Abort
    BY <2>1, WrittenAbort
  <2>2. CASE ~Abort
    <3>1. /\ UNCHANGED <<file, cs, resumed, werr, lost, late>>
          /\ \A i \in Chunks(cs) \ resumed : task'[i].st = "wait" /\ task'[i].cur = Offset(i, cs)
      <4>1. /\ UNCHANGED <<file, cs, resumed, werr, lost, late>>
            /\ task' = [i \in 0 .. Total - 1 |->
                          IF i \notin Chunks(cs) THEN NoTask
                          ELSE [st |-> IF i \in resumed THEN "done" ELSE "wait",
                                cur |-> Offset(i, cs), att |-> 0]]
        BY <1>3, <2>2 DEF OpenAndSpawn
      <4>2. \A i \in Chunks(cs) : i \in 0 .. Total - 1
        BY DEF Chunks
      <4> QED BY <4>1, <4>2
    <3>2. \A i \in Chunks(cs) : \A c \in Region(i, cs) : ~(c < Offset(i, cs))
      <4>1. \A i \in Chunks(cs) : Offset(i, cs) \in Nat
        BY <1>0, ChunkBounds, BlobAssumption
      <4> QED BY <4>1, BlobAssumption DEF Region, Cells
    <3> QED BY <3>1, <3>2 DEF Written
  <2> QED BY <2>1, <2>2
<1>4. ASSUME NEW i \in Chunks(cs), Join(i) PROVE Written'
  <2>1. CASE Abort
    BY <2>1, WrittenAbort
  <2>2. CASE ~Abort
    <3>1. /\ UNCHANGED <<file, cs, resumed, werr, lost, late>> /\ pc \in Collecting
          /\ task[i].st = "done" /\ task' = [task EXCEPT ![i].st = "joined"]
      BY <1>4, <2>2 DEF Join, disk, Collecting
    <3>2. task'[i].st = "joined" /\ \A j \in Chunks(cs) : j # i => task'[j] = task[j]
      BY <1>0, <3>1 DEF Tasks, Chunks
    <3> QED BY <3>1, <3>2 DEF Written
  <2> QED BY <2>1, <2>2
<1>5. CASE SaveTruncate \/ SaveWrite \/ Send \/ Finish
  <2>1. UNCHANGED <<file, task, cs, resumed, werr, lost, late>> /\ (pc' \in Collecting => pc \in Collecting)
    BY <1>5 DEF SaveTruncate, SaveWrite, Send, Sent, Finish, DigestMatches, disk, attempt, Collecting
  <2> QED BY <2>1, WrittenSame DEF Written
<1>6. CASE Emit
  <2>1. CASE Abort
    BY <2>1, WrittenAbort
  <2>2. CASE ~Abort
    <3>1. UNCHANGED <<file, task, cs, resumed, werr, lost, late>> /\ pc \in Collecting
      BY <1>6, <2>2 DEF Emit, disk, attempt, Collecting
    <3> QED BY <3>1, WrittenSame DEF Written
  <2> QED BY <2>1, <2>2
<1>7. CASE DropPart \/ DropBitmap \/ Commit \/ Cleanup \/ ReportError
  <2>1. /\ pc' \notin Collecting
        /\ \/ late' = late \/ late' = NoLate
           \/ late' = [late EXCEPT !.at = "blob"] /\ late.at = "part"
    BY <1>7 DEF DropPart, UnlinkPart, DropBitmap, Commit, Cleanup, ReportError, Leave, disk, Collecting
  <2>2. late'.at = "none" \/ late'.val # "none"
    BY <2>1 DEF Written, NoLate, TypeOK, FilesOK, Lates
  <2> QED BY <2>1, <2>2, WrittenEnds
<1>8. CASE Tee \/ TeeFails \/ Crash
  <2>1. pc' \notin Collecting
    BY <1>8 DEF Tee, TeeOpen, TeeFrame, TeeSend, TeeEnds, TeeCommit, PlainFrame, PlainSend, PlainEnds,
       TeeFails, Crash, Leave, Collecting
  <2>2. \/ late' = late \/ late' = NoLate
        \/ late' = [late EXCEPT !.at = "blob"] /\ late.at = "part"
    BY <1>8 DEF Tee, TeeOpen, TeeFrame, TeeSend, TeeEnds, TeeCommit, PlainFrame, PlainSend, PlainEnds,
       TeeFails, Crash, UnlinkPart, disk
  <2>3. late'.at = "none" \/ late'.val # "none"
    BY <2>2 DEF Written, NoLate, TypeOK, FilesOK, Lates
  <2> QED BY <2>1, <2>3, WrittenEnds
<1>9. CASE ClientReads \/ ClientLeaves \/ RemoveBitmap \/ RemoveBlob \/ RemoveDir \/ OtherDigest
  <2>1. UNCHANGED <<file, task, cs, resumed, werr, lost, pc>> /\ (late' = late \/ late' = NoLate)
    BY <1>9 DEF ClientReads, ClientLeaves, RemoveBitmap, RemoveBlob, RemoveDir, OtherDigest, disk, attempt
  <2> QED BY <2>1, WrittenSame DEF Written, NoLate
<1>10. CASE RemovePart
  <2>1. UNCHANGED <<task, cs, resumed, werr, lost, pc>> /\ (pc \in Collecting => file' = file)
        /\ (late' = late \/ late' = NoLate)
    BY <1>10 DEF RemovePart, attempt
  <2> QED BY <2>1, WrittenSame, WrittenEnds DEF Written, NoLate
<1>11. CASE LateLands
  <2>1. UNCHANGED <<task, cs, resumed, werr, lost, pc>> /\ late' = NoLate /\ late.val # "none"
        /\ (file' = file \/ file' = [file EXCEPT ![late.cell] = late.val])
    BY <1>11 DEF LateLands, attempt, Written
  <2>2. \A c \in Cells : file[c] # "none" => file'[c] # "none"
    BY <1>0, <2>1 DEF Data
  <2> QED BY <2>1, <2>2 DEF Written, NoLate, Region
<1>12. ASSUME NEW i \in Chunks(cs), Acquire(i) PROVE Written'
  <2>1. /\ UNCHANGED <<file, cs, resumed, werr, lost, late, pc>>
        /\ task[i].st = "wait" /\ task' = [task EXCEPT ![i].st = "fetch"]
    BY <1>12 DEF Acquire, disk
  <2>2. /\ task'[i].st = "fetch" /\ task'[i].cur = task[i].cur
        /\ \A j \in Chunks(cs) : j # i => task'[j] = task[j]
    BY <1>0, <2>1 DEF Tasks, Chunks
  <2> QED BY <2>1, <2>2 DEF Written
<1>13. ASSUME NEW i \in Chunks(cs), NEW v \in {"good", "bad"}, WriteFrame(i, v) PROVE Written'
  <2>1. /\ UNCHANGED <<cs, resumed, werr, lost, late, pc>> /\ task[i].st = "fetch"
        /\ file' = [file EXCEPT ![task[i].cur] = v]
        /\ task' = [task EXCEPT ![i].cur = @ + 1]
    BY <1>13 DEF WriteFrame
  <2>2. /\ task'[i].st = "fetch" /\ task'[i].cur = task[i].cur + 1 /\ task[i].cur \in 0 .. Total + 1
        /\ \A j \in Chunks(cs) : j # i => task'[j] = task[j]
    BY <1>0, <2>1 DEF Tasks, Chunks
  <2>3. \A c \in Cells : (file[c] # "none" \/ c = task[i].cur) => file'[c] # "none"
    BY <1>0, <2>1 DEF Data
  <2>4. \A c \in Cells : c < task[i].cur + 1 => c < task[i].cur \/ c = task[i].cur
    BY <2>2, BlobAssumption DEF Cells
  <2> QED BY <2>1, <2>2, <2>3, <2>4 DEF Written, Region
<1>14. ASSUME NEW i \in Chunks(cs), BodyEnds(i) PROVE Written'
  <2>1. /\ UNCHANGED <<disk, cs, resumed, pc, file, late, werr>> /\ task[i].st = "fetch"
        /\ werr = Nobody /\ i # Nobody
    BY <1>14 DEF BodyEnds, disk, Nobody, Chunks
  <2>2. CASE Retry(i) /\ lost' = lost \ {i}
    BY <2>1, <2>2, WrittenRetry
  <2>3. CASE ~(Retry(i) /\ lost' = lost \ {i})
    <3>1. task[i].cur = End(i, cs) /\ task' = [task EXCEPT ![i].st = "done"] /\ UNCHANGED lost
      BY <1>14, <2>3 DEF BodyEnds
    <3>2. task'[i].st = "done" /\ \A j \in Chunks(cs) : j # i => task'[j] = task[j]
      BY <1>0, <3>1 DEF Tasks, Chunks
    <3>3. \A c \in Region(i, cs) : c < task[i].cur
      BY <3>1 DEF Region
    <3> QED BY <2>1, <3>1, <3>2, <3>3 DEF Written
  <2> QED BY <2>2, <2>3
<1>15. ASSUME NEW i \in Chunks(cs), FetchFails(i) \/ TakesError(i) PROVE Written'
  <2>1. /\ Retry(i) /\ UNCHANGED <<disk, pc, cs, resumed>> /\ lost \ {i} \subseteq lost'
        /\ \A j \in Chunks(cs) : werr = j => werr' = j \/ j \in lost' \cup {i}
    BY <1>15 DEF FetchFails, TakesError
  <2> QED BY <2>1, WrittenRetry
<1>16. ASSUME NEW i \in Chunks(cs), WriteRefused(i) PROVE Written'
  <2>1. /\ UNCHANGED <<cs, resumed, lost, late, pc, file>> /\ werr = Nobody /\ werr' = i
        /\ task[i].st = "fetch" /\ task' = [task EXCEPT ![i].cur = @ + 1]
    BY <1>16 DEF WriteRefused, disk
  <2>2. /\ task'[i].st = "fetch"
        /\ \A j \in Chunks(cs) : j # i => task'[j] = task[j] /\ werr # j
    BY <1>0, <2>1 DEF Tasks, Chunks, Nobody
  <2> QED BY <2>1, <2>2 DEF Written
<1> QED
  BY <1>1, <1>2, <1>3, <1>4, <1>5, <1>6, <1>7, <1>8, <1>9, <1>10, <1>11, <1>12, <1>13, <1>14, <1>15, <1>16
  DEF Next, Collector, ChunkTask, Environment

(* A chunk that this attempt fetched and counts as done is all on disk,     *)
(* whatever was retried, cut short, over-long, removed or written late, and *)
(* whatever writes the disk refused, unless one of them was reported to     *)
(* another task.                                                            *)
THEOREM FetchedIsWritten == Spec => []FreshChunksWritten
<1>1. Init => Written
  BY DEF Init, Written, NoLate, Collecting
<1>2. TypeOK /\ Written /\ [Next]_vars => Written'
  BY WrittenStep
<1>3. Written => FreshChunksWritten
  BY DEF Written, FreshChunksWritten
<1> QED BY <1>1, <1>2, <1>3, TypeCorrect, PTL DEF Spec

=============================================================================

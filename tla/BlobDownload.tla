---------------------------- MODULE BlobDownload ----------------------------
(***************************************************************************)
(* One digest of the blob cache: the chunked downloader of src/chunks.rs   *)
(* (download, fetch_chunk, load_bitmap, save_bitmap), the single-source    *)
(* streamer tee_blob_to_cache of src/main.rs, and the three files they     *)
(* share on disk: the part file, its bitmap sidecar and the committed      *)
(* blob.  At most one attempt runs at a time (module SingleFlight); its    *)
(* chunk tasks run concurrently with its collector, with the client, with  *)
(* eviction and clearing of the cache and with crashes of the process.     *)
(*                                                                         *)
(* A blob is Total cells; a cell is what one body frame carries.  A file   *)
(* is the contents of cells 0 .. Total, cell Total standing for whatever   *)
(* lies behind the end of the blob, so a file is as long as its last       *)
(* written cell and a cell before that one that was never written is a     *)
(* hole of a sparse file (it reads as zeros).  A cell that an aborted task *)
(* overwrote with other bytes after the attempt had ended is "stray": only *)
(* its value tells where it came from, to the hash it is like a bad one.   *)
(***************************************************************************)
EXTENDS Integers, FiniteSets

CONSTANTS
    Total,          \* content length of the blob, in cells
    PlanSizes,      \* chunk sizes pool.chunk_plan() may propose
    MaxConcurrent,  \* permits of the download's semaphore
    MaxRetries,     \* MAX_CHUNK_RETRIES
    Depth,          \* BLOB_CHANNEL_DEPTH
    MaxFaults       \* bound: crashes, removals, write and upstream faults together

ASSUME BlobAssumption ==
    /\ Total \in Nat \ {0}
    /\ PlanSizes \subseteq Nat \ {0} /\ PlanSizes # {}
    /\ MaxConcurrent \in Nat \ {0}
    /\ MaxRetries \in Nat
    /\ Depth \in Nat \ {0}
    /\ MaxFaults \in Nat

VARIABLES
    file,       \* contents of the part file (of the open inode while one is open)
    linked,     \* TRUE: the part path names that inode
    dir,        \* TRUE: the bucket directory exists
    bitmap,     \* the sidecar on disk
    blob,       \* contents of the committed blob
    committed,  \* TRUE: the committed blob exists
    late,       \* a write of an aborted task that is still queued
    pc,         \* where the attempt is
    cs,         \* chunk_bytes of the attempt
    plen,       \* part_len, read before the sidecar is
    resumed,    \* chunks the sidecar claimed when the attempt began
    task,       \* the chunk tasks
    done,       \* the collector's done (= current_bitmap)
    emitted,    \* chunks read back, hashed and offered to the client
    hashOK,     \* TRUE: every byte hashed so far was the blob's
    werr,       \* the task whose failed write the shared handle has yet to report
    lost,       \* chunks one of whose failed writes was reported to another task
    tcur,       \* bytes the streamer has received
    client,     \* "on" or "off": the receiving end of tx
    chan,       \* messages in the client's channel
    faults      \* faults so far

disk == <<file, linked, dir, bitmap, blob, committed, late>>
errors == <<werr, lost>>
attempt == <<cs, plen, resumed, task, done, emitted, hashOK, errors, tcur>>
vars == <<disk, pc, attempt, client, chan, faults>>

-----------------------------------------------------------------------------
(* Files *)

Cells == 0 .. Total
Data == [Cells -> {"none", "good", "bad", "stray"}]
Empty == [c \in Cells |-> "none"]

\* n is the length of f: metadata().len().
IsLen(f, n) == /\ \A c \in Cells : f[c] # "none" => c < n
               /\ n > 0 => f[n - 1] # "none"

NoBitmap == [st |-> "none", cs |-> 1, done |-> {}]
NoLate == [at |-> "none", cell |-> 0, val |-> "none"]

(* What an upstream may put into cell c: behind the blob's end only junk.   *)
Frames(c) == IF c = Total THEN {"bad"} ELSE {"good", "bad"}

-----------------------------------------------------------------------------
(* split_with: the chunks of size s and their regions *)

Chunks(s) == {i \in 0 .. Total - 1 : i * s < Total}
Offset(i, s) == i * s
End(i, s) == IF (i + 1) * s <= Total THEN (i + 1) * s ELSE Total
Region(i, s) == {c \in Cells : Offset(i, s) <= c /\ c < End(i, s)}

NoTask == [st |-> "none", cur |-> 0, att |-> 0]
NoTasks == [i \in 0 .. Total - 1 |-> NoTask]
Nobody == -1

Fetching == {i \in Chunks(cs) : task[i].st = "fetch"}

(* Where the emission loop stands: next_offset. *)
NextOffset == IF emitted * cs <= Total THEN emitted * cs ELSE Total

(* The part file is open, so unlinking it does not free the inode. *)
Collecting == {"join", "save", "saving", "emit", "send"}
Streaming == {"tee", "teesend"}

-----------------------------------------------------------------------------
Init ==
    /\ file = Empty /\ linked = FALSE /\ dir = FALSE
    /\ bitmap = NoBitmap
    /\ blob = Empty /\ committed = FALSE
    /\ late = NoLate
    /\ pc = "idle"
    /\ cs = 1 /\ plen = 0 /\ resumed = {}
    /\ task = NoTasks /\ done = {} /\ emitted = 0 /\ hashOK = TRUE /\ tcur = 0
    /\ werr = Nobody /\ lost = {}
    /\ client = "off" /\ chan = 0
    /\ faults = 0

Fault == faults < MaxFaults /\ faults' = faults + 1

(* Leaving an attempt: everything it held in memory is dropped. *)
Forget ==
    /\ cs' = 1 /\ plen' = 0 /\ resumed' = {}
    /\ task' = NoTasks /\ done' = {} /\ emitted' = 0 /\ hashOK' = TRUE /\ tcur' = 0
    /\ werr' = Nobody /\ lost' = {}

(* The flight ends; what the client still reads from the channel is no      *)
(* longer this attempt's concern.                                           *)
Leave == pc' = "idle" /\ client' = "off" /\ chan' = 0

(* An error return of download(): the JoinSet is dropped, which aborts the  *)
(* chunk tasks; a write one of them has already queued on the blocking pool *)
(* is not cancelled.  An unlinked inode goes away with the last handle.     *)
QueueLate ==
    \/ late' = late
    \/ /\ late.at = "none" /\ linked
       /\ \E i \in Fetching :
             /\ task[i].cur <= Total
             /\ \E v \in Frames(task[i].cur) :
                   late' = [at |-> "part", cell |-> task[i].cur,
                            val |-> IF v = "good" THEN "good" ELSE "stray"]

Abort ==
    /\ QueueLate
    /\ pc' = "fail" /\ Forget
    /\ file' = IF linked THEN file ELSE Empty
    /\ UNCHANGED <<linked, dir, bitmap, blob, committed>>

-----------------------------------------------------------------------------
(* Starting an attempt.  The caller holds the flight lock and has found no  *)
(* committed blob under it.                                                 *)

NoRecheck == TRUE
Recheck == ~committed

StartChunked ==
    /\ pc = "idle" /\ Recheck
    /\ pc' = "begin" /\ client' = "on" /\ chan' = 0
    /\ UNCHANGED <<disk, attempt, faults>>

(* create_dir_all, the plan, and the length of the part file *)
Begin ==
    /\ pc = "begin"
    /\ dir' = TRUE
    /\ cs' \in PlanSizes
    /\ \E n \in 0 .. Total + 1 :
          plen' = n /\ IF linked THEN IsLen(file, n) ELSE n = 0
    /\ pc' = "load"
    /\ UNCHANGED <<file, linked, bitmap, blob, committed, late, resumed, task, done,
                   emitted, hashOK, errors, tcur, client, chan, faults>>

(* load_bitmap accepts a sidecar whose every flagged chunk ends within n.   *)
UsableAnyLength(b, n) == b.st = "ok"
Usable(b, n) == b.st = "ok" /\ \A i \in b.done : End(i, b.cs) <= n

LoadBitmap ==
    /\ pc = "load"
    /\ IF Usable(bitmap, plen)
         THEN cs' = bitmap.cs /\ resumed' = bitmap.done
         ELSE cs' = cs /\ resumed' = {}
    /\ pc' = "open"
    /\ UNCHANGED <<disk, plen, task, done, emitted, hashOK, errors, tcur, client, chan, faults>>

(* Open the part file without truncating it and spawn one task per chunk; a *)
(* task whose chunk is flagged returns at once.                             *)
OpenAndSpawn ==
    /\ pc = "open"
    /\ \/ /\ dir
          /\ linked' = TRUE
          /\ done' = resumed
          /\ task' = [i \in 0 .. Total - 1 |->
                         IF i \notin Chunks(cs) THEN NoTask
                         ELSE [st |-> IF i \in resumed THEN "done" ELSE "wait",
                               cur |-> Offset(i, cs), att |-> 0]]
          /\ pc' = "join"
          /\ UNCHANGED <<file, dir, bitmap, blob, committed, late, cs, plen, resumed,
                         emitted, hashOK, errors, tcur>>
       \/ ~dir /\ Abort
    /\ UNCHANGED <<client, chan, faults>>

-----------------------------------------------------------------------------
(* The chunk tasks *)

Acquire(i) ==
    /\ task[i].st = "wait" /\ Cardinality(Fetching) < MaxConcurrent
    /\ task' = [task EXCEPT ![i].st = "fetch"]
    /\ UNCHANGED <<disk, pc, cs, plen, resumed, done, emitted, hashOK, errors, tcur, client, chan,
                   faults>>

(* One frame of the body is written at the task's cursor.  Nothing compares *)
(* the cursor with the end of the chunk before the body has ended.          *)
WriteFrame(i, v) ==
    /\ task[i].st = "fetch" /\ task[i].cur <= Total /\ werr = Nobody
    /\ v \in Frames(task[i].cur)
    /\ IF v = "bad" \/ task[i].cur >= End(i, cs) THEN Fault ELSE UNCHANGED faults
    /\ file' = [file EXCEPT ![task[i].cur] = v]
    /\ task' = [task EXCEPT ![i].cur = @ + 1]
    /\ UNCHANGED <<linked, dir, bitmap, blob, committed, late, pc, cs, plen, resumed, done,
                   emitted, hashOK, errors, tcur, client, chan>>

(* write_all only hands the frame to the blocking pool: when the disk       *)
(* refuses it the task goes on, and tokio's File keeps the error for the    *)
(* next write or flush of any task that shares the handle.                  *)
WriteRefused(i) ==
    /\ task[i].st = "fetch" /\ task[i].cur <= Total /\ werr = Nobody
    /\ Fault
    /\ werr' = i
    /\ task' = [task EXCEPT ![i].cur = @ + 1]
    /\ UNCHANGED <<disk, pc, cs, plen, resumed, done, emitted, hashOK, lost, tcur, client, chan>>

ExhaustedLate(i) == task[i].att > MaxRetries
Exhausted(i) == task[i].att + 1 > MaxRetries

(* A failed try: the loop tries again until the retries are used up. *)
RetryAsSuccess(i) == task' = [task EXCEPT ![i].st = "done"]
Retry(i) ==
    task' = [task EXCEPT ![i] =
                IF Exhausted(i)
                  THEN [st |-> "failed", cur |-> Offset(i, cs), att |-> task[i].att]
                  ELSE [st |-> "fetch", cur |-> Offset(i, cs), att |-> task[i].att + 1]]

(* The body ends: flush, then the byte count is compared with the length. *)
BodyEnds(i) ==
    /\ task[i].st = "fetch" /\ task[i].cur >= End(i, cs) /\ werr = Nobody
    /\ IF task[i].cur = End(i, cs)
         THEN task' = [task EXCEPT ![i].st = "done"] /\ UNCHANGED lost
         ELSE Retry(i) /\ lost' = lost \ {i}
    /\ UNCHANGED <<disk, pc, cs, plen, resumed, done, emitted, hashOK, werr, tcur, client, chan,
                   faults>>

(* The next frame or the flush of task i meets an error the handle kept,    *)
(* its own or another task's; i tries again, and only i.                    *)
TakesError(i) ==
    /\ task[i].st = "fetch" /\ werr # Nobody
    /\ Retry(i)
    /\ werr' = Nobody
    /\ lost' = (lost \cup {werr}) \ {i}
    /\ UNCHANGED <<disk, pc, cs, plen, resumed, done, emitted, hashOK, tcur, client, chan, faults>>

(* Timeout, refused redirect, 416, 200, other status, drifting              *)
(* Content-Range, a read error, or a body that ends early.                  *)
FetchFails(i) ==
    /\ task[i].st = "fetch"
    /\ Fault /\ Retry(i) /\ lost' = lost \ {i}
    /\ UNCHANGED <<disk, pc, cs, plen, resumed, done, emitted, hashOK, werr, tcur, client, chan>>

-----------------------------------------------------------------------------
(* The collector *)

Unjoined == {i \in Chunks(cs) : task[i].st # "joined"}

(* join_next() yields a finished task.  A chunk from the sidecar is not     *)
(* saved again; an error ends the attempt.                                  *)
Join(i) ==
    /\ pc = "join"
    /\ \/ /\ task[i].st = "done"
          /\ task' = [task EXCEPT ![i].st = "joined"]
          /\ done' = done \cup {i}
          /\ pc' = IF i \in resumed THEN "emit" ELSE "save"
          /\ UNCHANGED <<disk, cs, plen, resumed, emitted, hashOK, errors, tcur>>
       \/ task[i].st = "failed" /\ Abort
    /\ UNCHANGED <<client, chan, faults>>

(* save_bitmap is tokio::fs::write: truncate, then write.  Its error is     *)
(* ignored, so without a directory nothing happens.                         *)
SaveTruncate ==
    /\ pc = "save"
    /\ bitmap' = IF dir THEN [NoBitmap EXCEPT !.st = "torn"] ELSE bitmap
    /\ pc' = IF dir THEN "saving" ELSE "emit"
    /\ UNCHANGED <<file, linked, dir, blob, committed, late, attempt, client, chan, faults>>

(* The second half writes through the handle: an unlinked sidecar stays gone. *)
SaveWrite ==
    /\ pc = "saving"
    /\ bitmap' = IF bitmap.st = "none" THEN bitmap ELSE [st |-> "ok", cs |-> cs, done |-> done]
    /\ pc' = "emit"
    /\ UNCHANGED <<file, linked, dir, blob, committed, late, attempt, client, chan, faults>>

(* The next chunk in offset order is done. *)
ContiguousUnchecked == emitted \in Chunks(cs)
Contiguous == emitted \in Chunks(cs) \cap done

(* The emission loop: read the next contiguous chunk back from the part     *)
(* file, hash it, count it, offer it to the client.  read_exact fails on a  *)
(* file that ends too early.                                                *)
Emit ==
    /\ pc = "emit"
    /\ \/ /\ Contiguous
          /\ \E n \in 0 .. Total + 1 :
                /\ IsLen(file, n)
                /\ IF End(emitted, cs) <= n
                     THEN /\ hashOK' = (hashOK /\ \A c \in Region(emitted, cs) : file[c] = "good")
                          /\ emitted' = emitted + 1
                          /\ pc' = "send"
                          /\ UNCHANGED <<disk, cs, plen, resumed, task, done, errors, tcur>>
                     ELSE Abort
       \/ /\ ~Contiguous
          /\ pc' = IF Unjoined = {} THEN "final" ELSE "join"
          /\ UNCHANGED <<disk, attempt>>
    /\ UNCHANGED <<client, chan, faults>>

(* tx.send waits for room in the channel; a closed channel is not an error. *)
SentToReader == client = "on" /\ chan < Depth /\ chan' = chan + 1
Sent == SentToReader \/ (client = "off" /\ UNCHANGED chan)

Send ==
    /\ pc = "send" /\ Sent
    /\ pc' = "emit"
    /\ UNCHANGED <<disk, attempt, client, faults>>

(* The hash covers the whole blob and nothing but its bytes. *)
DigestUnchecked == TRUE
DigestMatches == hashOK /\ emitted \notin Chunks(cs)

(* All chunks joined: compare the digest. *)
Finish ==
    /\ pc = "final"
    /\ pc' = IF DigestMatches THEN "commit" ELSE "drop"
    /\ UNCHANGED <<disk, attempt, client, chan, faults>>

(* remove_file(part_path) once the handle is closed, or about to be. *)
UnlinkPart ==
    /\ linked' = FALSE /\ file' = Empty
    /\ late' = IF late.at = "part" THEN NoLate ELSE late

(* Digest mismatch: remove the part file, then the sidecar. *)
DropPart ==
    /\ pc = "drop"
    /\ UnlinkPart
    /\ pc' = "dropmap"
    /\ UNCHANGED <<dir, bitmap, blob, committed, attempt, client, chan, faults>>

DropBitmap ==
    /\ pc = "dropmap"
    /\ bitmap' = NoBitmap
    /\ pc' = "fail" /\ Forget
    /\ UNCHANGED <<file, linked, dir, blob, committed, late, client, chan, faults>>

(* Digest match: rename the part file to the cache key.  If the part path   *)
(* was unlinked meanwhile the rename fails.                                 *)
Commit ==
    /\ pc = "commit"
    /\ dir' = TRUE
    /\ \/ /\ linked
          /\ blob' = file /\ committed' = TRUE
          /\ linked' = FALSE /\ file' = Empty
          /\ late' = IF late.at = "part" THEN [late EXCEPT !.at = "blob"] ELSE late
          /\ pc' = "cleanup"
          /\ UNCHANGED <<bitmap, attempt>>
       \/ /\ ~linked
          /\ file' = Empty
          /\ pc' = "fail" /\ Forget
          /\ UNCHANGED <<linked, bitmap, blob, committed, late>>
    /\ UNCHANGED <<client, chan, faults>>

Cleanup ==
    /\ pc = "cleanup"
    /\ bitmap' = NoBitmap
    /\ Forget /\ Leave
    /\ UNCHANGED <<file, linked, dir, blob, committed, late, faults>>

(* proxy_blob and tee_blob_to_cache send the error to the client before the *)
(* flight ends.                                                             *)
ReportError ==
    /\ pc = "fail"
    /\ client = "off" \/ chan < Depth
    /\ Leave
    /\ UNCHANGED <<disk, attempt, faults>>

-----------------------------------------------------------------------------
(* tee_blob_to_cache: one stream, hashed as it arrives.  It never touches   *)
(* the sidecar.                                                             *)

StartTee ==
    /\ pc = "idle" /\ Recheck
    /\ dir' = TRUE
    /\ pc' = "teeopen" /\ client' = "on" /\ chan' = 0
    /\ UNCHANGED <<file, linked, bitmap, blob, committed, late, attempt, faults>>

(* File::create truncates the part file.  If the directory is gone again    *)
(* the blob is streamed without being cached.                               *)
TeeOpen ==
    /\ pc = "teeopen"
    /\ \/ dir /\ file' = Empty /\ linked' = TRUE /\ pc' = "tee"
       \/ ~dir /\ pc' = "plain" /\ UNCHANGED <<file, linked>>
    /\ UNCHANGED <<dir, bitmap, blob, committed, late, attempt, client, chan, faults>>

(* stream_to_channel: every item goes to the client, an error too; the      *)
(* flight ends with the stream or with a client that is gone.               *)
PlainFrame ==
    /\ pc = "plain" /\ tcur <= Total
    /\ tcur' = tcur + 1
    /\ pc' = "plainsend"
    /\ UNCHANGED <<disk, cs, plen, resumed, task, done, emitted, hashOK, errors, client, chan,
                   faults>>

PlainSend ==
    /\ pc = "plainsend" /\ SentToReader
    /\ pc' = "plain"
    /\ UNCHANGED <<disk, attempt, client, faults>>

PlainEnds ==
    /\ \/ pc = "plain"
       \/ pc = "plainsend" /\ client = "off"
    /\ Forget /\ Leave
    /\ UNCHANGED <<disk, faults>>

TeeFrame(v) ==
    /\ pc = "tee" /\ tcur <= Total
    /\ v \in Frames(tcur)
    /\ IF v = "bad" THEN Fault ELSE UNCHANGED faults
    /\ file' = [file EXCEPT ![tcur] = v]
    /\ hashOK' = (hashOK /\ v = "good")
    /\ tcur' = tcur + 1
    /\ pc' = "teesend"
    /\ UNCHANGED <<linked, dir, bitmap, blob, committed, late, cs, plen, resumed, task, done,
                   emitted, errors, client, chan>>

TeeSend ==
    /\ pc = "teesend" /\ Sent
    /\ pc' = "tee"
    /\ UNCHANGED <<disk, attempt, client, faults>>

(* A read or write error, or a stream that ends early. *)
TeeFails ==
    /\ pc = "tee" /\ Fault
    /\ UnlinkPart
    /\ pc' = "fail" /\ Forget
    /\ UNCHANGED <<dir, bitmap, blob, committed, client, chan>>

(* The stream ends and the digest is compared. *)
TeeEnds ==
    /\ pc = "tee" /\ tcur >= Total
    /\ \/ /\ hashOK /\ tcur = Total
          /\ pc' = "teecommit"
          /\ UNCHANGED <<file, linked, late, attempt>>
       \/ /\ ~(hashOK /\ tcur = Total)
          /\ UnlinkPart /\ pc' = "fail" /\ Forget
    /\ UNCHANGED <<dir, bitmap, blob, committed, client, chan, faults>>

TeeCommit ==
    /\ pc = "teecommit"
    /\ Forget
    /\ \/ /\ linked
          /\ blob' = file /\ committed' = TRUE
          /\ linked' = FALSE /\ file' = Empty
          /\ late' = IF late.at = "part" THEN [late EXCEPT !.at = "blob"] ELSE late
          /\ Leave
       \/ /\ ~linked
          /\ file' = Empty
          /\ pc' = "fail"
          /\ UNCHANGED <<linked, blob, committed, late, client, chan>>
    /\ UNCHANGED <<dir, bitmap, faults>>

-----------------------------------------------------------------------------
(* The environment *)

ClientReads ==
    /\ client = "on" /\ chan > 0
    /\ chan' = chan - 1
    /\ UNCHANGED <<disk, pc, attempt, client, faults>>

ClientLeaves ==
    /\ client = "on"
    /\ client' = "off" /\ chan' = 0
    /\ UNCHANGED <<disk, pc, attempt, faults>>

(* evict_old and clear unlink files of this digest one at a time; clear     *)
(* also removes the bucket directory once it is empty, and a download of    *)
(* another digest in the same bucket creates it again.                      *)
RemovePart ==
    /\ linked /\ Fault
    /\ linked' = FALSE
    /\ file' = IF pc \in Collecting \cup Streaming \cup {"final"} THEN file ELSE Empty
    /\ late' = IF late.at = "part" THEN NoLate ELSE late
    /\ UNCHANGED <<dir, bitmap, blob, committed, pc, attempt, client, chan>>

RemoveBitmap ==
    /\ bitmap.st # "none" /\ Fault
    /\ bitmap' = NoBitmap
    /\ UNCHANGED <<file, linked, dir, blob, committed, late, pc, attempt, client, chan>>

RemoveBlob ==
    /\ committed /\ Fault
    /\ committed' = FALSE /\ blob' = Empty
    /\ late' = IF late.at = "blob" THEN NoLate ELSE late
    /\ UNCHANGED <<file, linked, dir, bitmap, pc, attempt, client, chan>>

RemoveDir ==
    /\ dir /\ ~linked /\ bitmap.st = "none" /\ ~committed /\ Fault
    /\ dir' = FALSE
    /\ UNCHANGED <<file, linked, bitmap, blob, committed, late, pc, attempt, client, chan>>

OtherDigest ==
    /\ ~dir /\ dir' = TRUE
    /\ UNCHANGED <<file, linked, bitmap, blob, committed, late, pc, attempt, client, chan, faults>>

(* The process dies: what reached the disk stays. *)
Crash ==
    /\ pc # "idle" /\ Fault
    /\ file' = IF linked THEN file ELSE Empty
    /\ late' = NoLate
    /\ Forget /\ Leave
    /\ UNCHANGED <<linked, dir, bitmap, blob, committed>>

(* A queued write reaches the inode it was issued for. *)
LateLands ==
    /\ late.at # "none"
    /\ IF late.at = "part"
         THEN file' = [file EXCEPT ![late.cell] = late.val] /\ UNCHANGED blob
         ELSE blob' = [blob EXCEPT ![late.cell] = late.val] /\ UNCHANGED file
    /\ late' = NoLate
    /\ UNCHANGED <<linked, dir, bitmap, committed, pc, attempt, client, chan, faults>>

(* Requests that find the blob are served from it and change nothing here. *)
Hit == committed /\ UNCHANGED vars

-----------------------------------------------------------------------------
Collector ==
    \/ Begin \/ LoadBitmap \/ OpenAndSpawn
    \/ \E i \in Chunks(cs) : Join(i)
    \/ SaveTruncate \/ SaveWrite \/ Emit \/ Send
    \/ Finish \/ DropPart \/ DropBitmap \/ Commit \/ Cleanup \/ ReportError

Tee ==
    \/ TeeOpen \/ (\E v \in {"good", "bad"} : TeeFrame(v)) \/ TeeSend \/ TeeEnds \/ TeeCommit
    \/ PlainFrame \/ PlainSend \/ PlainEnds

ChunkTask(i) ==
    \/ Acquire(i) \/ (\E v \in {"good", "bad"} : WriteFrame(i, v))
    \/ BodyEnds(i) \/ TakesError(i)

Environment ==
    \/ ClientReads \/ ClientLeaves
    \/ (\E i \in Chunks(cs) : WriteRefused(i) \/ FetchFails(i)) \/ TeeFails
    \/ RemovePart \/ RemoveBitmap \/ RemoveBlob \/ RemoveDir \/ OtherDigest
    \/ Crash \/ LateLands \/ Hit

Next ==
    \/ StartChunked \/ StartTee
    \/ Collector \/ Tee \/ Environment
    \/ \E i \in Chunks(cs) : ChunkTask(i)

Spec == Init /\ [][Next]_vars

(* Every task of the runtime that can run does; every upstream body ends or *)
(* fails (the HTTP client has a read timeout); somebody keeps asking for    *)
(* the blob.  Nothing is assumed of the client: it may keep its connection  *)
(* open and never read again.                                               *)
Fairness ==
    /\ WF_vars(Collector) /\ WF_vars(Tee)
    /\ \A i \in 0 .. Total - 1 : WF_vars(i \in Chunks(cs) /\ ChunkTask(i))
    /\ WF_vars(StartChunked \/ StartTee)

FairSpec == Spec /\ Fairness

-----------------------------------------------------------------------------
(* Properties *)

PCs == {"idle", "begin", "load", "open", "join", "save", "saving", "emit", "send", "final",
        "drop", "dropmap", "commit", "cleanup", "fail", "teeopen", "tee", "teesend", "teecommit",
        "plain", "plainsend"}

Sizes == PlanSizes \cup {1}
Bitmaps == [st : {"none", "torn", "ok"}, cs : Sizes, done : SUBSET (0 .. Total - 1)]
Lates == [at : {"none", "part", "blob"}, cell : Cells, val : {"none", "good", "stray"}]
Tasks == [0 .. Total - 1 -> [st : {"none", "wait", "fetch", "done", "failed", "joined"},
                             cur : 0 .. Total + 1, att : 0 .. MaxRetries]]

FilesOK ==
    /\ file \in Data /\ linked \in BOOLEAN /\ dir \in BOOLEAN
    /\ bitmap \in Bitmaps
    /\ blob \in Data /\ committed \in BOOLEAN
    /\ late \in Lates

AttemptOK ==
    /\ cs \in Sizes /\ plen \in 0 .. Total + 1
    /\ resumed \in SUBSET (0 .. Total - 1)
    /\ task \in Tasks
    /\ done \in SUBSET (0 .. Total - 1) /\ emitted \in 0 .. Total /\ hashOK \in BOOLEAN
    /\ werr \in (0 .. Total - 1) \cup {Nobody} /\ lost \in SUBSET (0 .. Total - 1)
    /\ tcur \in 0 .. Total + 1

(* The state is well formed: every recorded chunk size is one that was      *)
(* planned, no task retries more often than MAX_CHUNK_RETRIES, and the      *)
(* client's channel never holds more than BLOB_CHANNEL_DEPTH pieces.        *)
TypeOK ==
    /\ FilesOK
    /\ AttemptOK
    /\ pc \in PCs /\ client \in {"on", "off"} /\ chan \in 0 .. Depth /\ faults \in 0 .. MaxFaults

(* The file is what was hashed, but for the cells that a write of an        *)
(* aborted task, queued before the attempt began, has overwritten since.    *)
Hashed == {"good", "stray"}
Good(f) == \A c \in Cells : c < Total => f[c] \in Hashed

(* Of the blob's Total cells, what is committed under a digest is what the  *)
(* hash was computed over, although the chunk tasks wrote it out of order,  *)
(* over older bytes and concurrently with the hashing.  The one thing that  *)
(* can still change a cell is a write that an aborted task had queued: it   *)
(* lands in the part file after the cell was hashed, or in the published    *)
(* blob.  What lies behind the end of the blob is OnlyVerified's subject.   *)
BlobIntegrity == committed => Good(blob)

(* Nothing but the bytes of the digest is ever committed.                   *)
OnlyVerified ==
    committed => \A c \in Cells : blob[c] = IF c < Total THEN "good" ELSE "none"

(* As long as the running hash matches, the part file still holds what was  *)
(* hashed: no retry, no over-long body of an earlier chunk and no resumed   *)
(* chunk has touched the emitted prefix.                                    *)
HashedPrefixIntact ==
    pc \in Collecting \cup {"final"} /\ hashOK =>
        \A c \in Cells : c < NextOffset => file[c] \in Hashed

(* Why no byte of the hashed prefix is ever written again: outside the      *)
(* collector's loop no task runs; inside it the emitted chunks are all done *)
(* and a task that still writes has its cursor at or behind its own offset. *)
AtRest ==
    /\ pc \in PCs \ (Collecting \cup {"final", "drop", "dropmap", "commit", "cleanup"}) =>
          emitted = 0 /\ done = {} /\ task = NoTasks
    /\ pc \in {"idle", "begin", "load", "open", "fail", "teeopen"} => hashOK /\ tcur = 0

WritersBehind ==
    /\ \A j \in 0 .. Total - 1 : j < emitted => j \in done
    /\ \A i \in Chunks(cs) :
          /\ task[i].st \in {"wait", "fetch"} => pc \in Collecting /\ i \notin done
          /\ task[i].st \in {"wait", "fetch"} => task[i].cur >= Offset(i, cs)

TeePrefixIntact ==
    pc \in Streaming /\ hashOK =>
        tcur <= Total /\ \A c \in Cells : c < tcur => file[c] \in Hashed

ReadyToCommit == pc \in {"commit", "teecommit"} /\ linked => Good(file)

LateFrames == late.at # "none" => late.val \in Hashed

(* The inductive invariant behind BlobIntegrity. *)
IntegrityInv ==
    /\ AtRest /\ WritersBehind
    /\ HashedPrefixIntact /\ TeePrefixIntact /\ ReadyToCommit /\ LateFrames
    /\ BlobIntegrity

(* A chunk this attempt fetched and counts as done has no hole on disk:     *)
(* a 206 that ended early, an error after some frames or a refused write    *)
(* marks nothing, unless the error of the refused write was reported to     *)
(* another task that shares the handle.                                     *)
FreshChunksWritten ==
    pc \in Collecting =>
        \A i \in Chunks(cs) \ (resumed \cup lost) :
            task[i].st \in {"done", "joined"} =>
                \A c \in Region(i, cs) : file[c] # "none"

(* No task, retried, resumed or over-long, changes a byte that was already  *)
(* hashed and emitted to the client; only a write an earlier attempt left   *)
(* queued can.                                                              *)
EmittedNeverRewritten ==
    [][(pc \in Collecting /\ pc' \in Collecting) =>
          (\A c \in Cells : c < NextOffset =>
              file'[c] = file[c] \/ (late.at = "part" /\ c = late.cell /\ late' = NoLate))]_vars

(* The client's channel is full and the client neither reads nor closes.    *)
Stalled == client = "on" /\ chan = Depth

(* Every attempt comes to an end and releases the flight; the only thing    *)
(* that can hold one for ever is a client that stopped reading, since the   *)
(* sends into its channel have no timeout.                                  *)
AttemptEnds == <>[](pc # "idle") => <>[]Stalled

(* No sequence of faults poisons the digest: once they stop, and unless a   *)
(* stalled client holds the flight, a cached copy appears and stays,        *)
(* whatever sidecar and part file they left behind.                         *)
EventuallyCached == []<>(~Stalled) => <>[]committed

(* What the cache promises its readers. *)
Slot == INSTANCE CacheSlot WITH
          Contents <- {f \in Data : Good(f)},
          Absent <- Empty,
          slot <- IF committed THEN blob ELSE Empty

(* The downloads implement the cache slot: hashed contents appear in one    *)
(* step in an empty slot and are never replaced, since rename() publishes   *)
(* and the flight re-checks the cache before it starts; a queued write of   *)
(* an aborted task changes one cell of them at a time.                      *)
ImplementsSlot == Slot!Spec
=============================================================================

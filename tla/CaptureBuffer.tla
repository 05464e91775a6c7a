--------------------------- MODULE CaptureBuffer ---------------------------
(***************************************************************************)
(* service.CaptureBuffer (internal/service/buffer.go): the frames of the   *)
(* active recording, batched in memory and appended to a spool file.       *)
(*                                                                         *)
(* Every method holds b.mu throughout and is one action.  Frames are       *)
(* numbered as they are appended and all have size one, so that lengths    *)
(* count both frames and bytes.  What the operating system refuses is the  *)
(* constant Fault.                                                         *)
(***************************************************************************)
EXTENDS Naturals, Sequences

CONSTANTS
    MemoryDuration, \* the values memoryDuration may be configured to
    Fault,          \* what may fail: "create", "write", "truncate", "close", "remove"
    MaxGap,         \* bound: longest time between two frames
    MaxFrames       \* bound: frames appended in one behaviour

ASSUME MemoryDurationAssumption == MemoryDuration \subseteq Nat \ {0}
ASSUME FaultAssumption == Fault \subseteq {"create", "write", "truncate", "close", "remove"}
ASSUME BufferBoundAssumption == MaxGap \in Nat /\ MaxFrames \in Nat

VARIABLES
    memoryDuration,
    file,           \* b.file: nil, open, or closed and still referenced
    disk,           \* what the spool file really holds
    diskBytes,      \* what the buffer believes the spool file holds
    pending,        \* the batch in memory
    pendingAt,      \* when the first frame of the batch was captured
    newest,         \* when the last frame was captured
    frames,
    closed,
    appended,       \* number of frames appended so far, the last frame's name
    leftover,       \* frames in discarded files that could not be removed
    outcome,        \* what the last call returned
    segments        \* what Detach returned: the file and the promised frame count

vars == <<memoryDuration, file, disk, diskBytes, pending, pendingAt, newest,
          frames, closed, appended, leftover, outcome, segments>>

\* Part of a frame.
Torn == 0

Init ==
    /\ memoryDuration \in MemoryDuration
    /\ file = "none" /\ disk = <<>> /\ diskBytes = 0
    /\ pending = <<>> /\ pendingAt = 0 /\ newest = 0 /\ frames = 0
    /\ closed = FALSE
    /\ appended = 0 /\ leftover = {}
    /\ outcome = "ok"
    /\ segments = <<>>

resetLocked ==
    /\ file' = "none" /\ disk' = <<>> /\ diskBytes' = 0
    /\ pending' = <<>> /\ pendingAt' = 0 /\ newest' = 0 /\ frames' = 0

----------------------------------------------------------------------------
\* flushLocked(batch): batch is what b.pending holds when it is called.

flushOk(batch) ==
    /\ batch # <<>>
    /\ file # "shut"
    /\ file' = "open"
    /\ disk' = disk \o batch
    /\ diskBytes' = diskBytes + Len(batch)
    /\ pending' = <<>>

\* Slip: the part that was written stays in the file.
afterFailedWriteUncut(batch) == {disk \o SubSeq(batch, 1, k) : k \in 0..Len(batch) - 1}

\* The file after a write that stopped part way, cut back to its former size if
\* the truncation succeeds; nobody looks at whether it does.
afterFailedWrite(batch) ==
    LET whole   == {SubSeq(batch, 1, k) : k \in 0..Len(batch) - 1}
        written == whole \cup {Append(w, Torn) : w \in whole}
    IN  {SubSeq(disk \o w, 1, diskBytes) : w \in written}
        \cup {disk \o w : w \in IF "truncate" \in Fault THEN written ELSE {}}

\* Slip: frames that a failed flush leaves in memory are forgotten.
flushFailsDropsBatch(batch) ==
    /\ batch # <<>>
    /\ "write" \in Fault /\ file # "shut"
    /\ file' = "open" /\ pending' = <<>>
    /\ UNCHANGED <<disk, diskBytes>>

flushFails(batch) ==
    /\ batch # <<>>
    /\ \/ file = "none" /\ "create" \in Fault /\ UNCHANGED <<file, disk>>
       \/ file # "shut" /\ "write" \in Fault
          /\ file' = "open" /\ disk' \in afterFailedWrite(batch)
       \/ file = "shut" /\ UNCHANGED <<file, disk>>
    /\ pending' = batch
    /\ UNCHANGED diskBytes

----------------------------------------------------------------------------
\* Slip: a batch may last longer than the configured duration.
batchIsDueLate(span, duration) == span > duration

\* A batch is written out once it spans the configured duration.
batchIsDue(span, duration) == span >= duration

Append_(gap) ==
    LET at    == newest + gap
        first == IF pending = <<>> THEN at ELSE pendingAt
        batch == Append(pending, appended + 1)
    IN  /\ ~closed
        /\ appended < MaxFrames
        /\ appended' = appended + 1
        /\ frames' = frames + 1
        /\ newest' = at
        /\ IF batchIsDue(at - first, memoryDuration)
           THEN \/ flushOk(batch) /\ pendingAt' = 0 /\ outcome' = "ok"
                \/ flushFails(batch) /\ pendingAt' = first /\ outcome' = "error"
           ELSE /\ pending' = batch /\ pendingAt' = first /\ outcome' = "ok"
                /\ UNCHANGED <<file, disk, diskBytes>>
        /\ UNCHANGED <<memoryDuration, closed, leftover, segments>>

SetMemoryDuration(d) ==
    /\ ~closed
    /\ memoryDuration' = d
    /\ IF pending # <<>> /\ batchIsDue(newest - pendingAt, d)
       THEN \/ flushOk(pending) /\ pendingAt' = 0 /\ outcome' = "ok"
            \/ flushFails(pending) /\ pendingAt' = pendingAt /\ outcome' = "error"
       ELSE UNCHANGED <<file, disk, diskBytes, pending, pendingAt>> /\ outcome' = "ok"
    /\ UNCHANGED <<newest, frames, closed, appended, leftover, segments>>

\* The segment leaves with the caller when the rest of the batch is in the file
\* and the file is closed.
DetachOk ==
    /\ ~closed /\ frames # 0
    /\ file # "shut"
    /\ segments' = Append(segments, [disk |-> disk \o pending, frames |-> frames])
    /\ resetLocked
    /\ outcome' = "ok"
    /\ UNCHANGED <<memoryDuration, closed, appended, leftover>>

DetachFailsToFlush ==
    /\ ~closed
    /\ flushFails(pending)
    /\ outcome' = "error"
    /\ UNCHANGED <<memoryDuration, pendingAt, newest, frames, closed, appended,
                   leftover, segments>>

\* The file is in order but Close reports an error: b.file keeps the closed
\* descriptor.  A second Close of it fails, whatever the disk does.
DetachFailsToClose ==
    /\ ~closed /\ frames # 0
    /\ IF pending = <<>>
       THEN UNCHANGED <<disk, diskBytes, pending, pendingAt>>
       ELSE file # "shut" /\ disk' = disk \o pending
            /\ diskBytes' = diskBytes + Len(pending) /\ pending' = <<>> /\ pendingAt' = 0
    /\ "close" \in Fault \/ file = "shut"
    /\ file' = "shut"
    /\ outcome' = "error"
    /\ UNCHANGED <<memoryDuration, newest, frames, closed, appended, leftover, segments>>

\* ErrNoFrames.
DetachNothing ==
    /\ ~closed /\ frames = 0
    /\ outcome' = "error"
    /\ UNCHANGED <<memoryDuration, file, disk, diskBytes, pending, pendingAt, newest,
                   frames, closed, appended, leftover, segments>>

\* Close of the file that is given up, if there is one.  A second Close fails.
MayCloseWell  == file # "shut"
MayCloseBadly == file = "shut" \/ (file = "open" /\ "close" \in Fault)

onDisk == {disk[k] : k \in DOMAIN disk}

\* The buffer is empty afterwards, whether or not an error is returned: a file that
\* could not be removed stays in the spool directory, and its path is forgotten.
Clear ==
    /\ ~closed
    /\ \/ MayCloseWell /\ outcome' = "ok" /\ UNCHANGED leftover
       \/ MayCloseBadly /\ outcome' = "error" /\ UNCHANGED leftover
       \/ file # "none" /\ "remove" \in Fault
          /\ outcome' = "error" /\ leftover' = leftover \cup onDisk
    /\ resetLocked
    /\ UNCHANGED <<memoryDuration, closed, appended, segments>>

\* The spool directory goes too, with all that is in it; when RemoveAll fails, any
\* of it may stay.
Close ==
    /\ ~closed
    /\ closed' = TRUE
    /\ \/ MayCloseWell /\ outcome' = "ok" /\ leftover' = {}
       \/ MayCloseBadly /\ outcome' = "error" /\ leftover' = {}
       \/ "remove" \in Fault /\ outcome' = "error"
          /\ leftover' \in SUBSET (leftover \cup onDisk)
    /\ resetLocked
    /\ UNCHANGED <<memoryDuration, appended, segments>>

\* Slip: a closed buffer counts the frame it refuses.
RefusedButCounted ==
    /\ closed
    /\ outcome' = "error"
    /\ frames' = frames + 1
    /\ UNCHANGED <<memoryDuration, file, disk, diskBytes, pending, pendingAt, newest,
                   closed, appended, leftover, segments>>

\* Append, SetMemoryDuration, Detach and Clear of a closed buffer.
Refused ==
    /\ closed
    /\ outcome' = "error"
    /\ UNCHANGED <<memoryDuration, file, disk, diskBytes, pending, pendingAt, newest,
                   frames, closed, appended, leftover, segments>>

Next ==
    \/ \E gap \in 0..MaxGap : Append_(gap)
    \/ \E d \in MemoryDuration : SetMemoryDuration(d)
    \/ DetachOk \/ DetachFailsToFlush \/ DetachFailsToClose \/ DetachNothing
    \/ Clear
    \/ Close
    \/ Refused

Spec == Init /\ [][Next]_vars

----------------------------------------------------------------------------
\* Properties.

\* Every variable has its type, and a closed buffer stays empty
\* (buffer.go:33-47, 63-65, 161-178).
TypeOK ==
    /\ memoryDuration \in MemoryDuration
    /\ file \in {"none", "open", "shut"}
    /\ disk \in Seq(Nat) /\ diskBytes \in Nat /\ pending \in Seq(Nat)
    /\ pendingAt \in Nat /\ newest \in Nat /\ frames \in Nat /\ appended \in Nat
    /\ closed \in BOOLEAN
    /\ leftover \subseteq Nat
    /\ outcome \in {"ok", "error"}
    /\ segments \in Seq([disk : Seq(Nat), frames : Nat])
    /\ closed => frames = 0

\* The statistics add up to what memory and the spool file really hold, failed
\* writes and their clean-up included, and a buffer without frames holds no
\* file.  The batch in memory spans less than the configured duration, unless the
\* last call reported that it could not be written out (buffer.go:60-96, 148-225).
BooksBalance ==
    /\ diskBytes = Len(disk)
    /\ frames = diskBytes + Len(pending)
    /\ frames = 0 <=> file = "none" /\ pending = <<>>
    /\ pending # <<>> /\ outcome = "ok" => newest - pendingAt < memoryDuration

IsRun(s) == \A k \in 1..Len(s) : s[k] = s[1] + k - 1

\* A detached segment holds exactly the promised frames, each once and whole, in
\* the order they were appended: no retry of a failed write leaves a duplicate
\* or a torn frame in the file (buffer.go:98-125, 205-225).
SegmentsAreIntact ==
    \A i \in 1..Len(segments) :
        LET s == segments[i]
        IN  /\ s.frames > 0
            /\ Len(s.disk) = s.frames
            /\ s.disk[1] # Torn /\ IsRun(s.disk)
            /\ \A j \in 1..i - 1 : segments[j].disk[segments[j].frames] < s.disk[1]

\* README, "Control a Recording": "Failed save requests do not change the
\* recording, buffer, timer, or metadata", so what could be saved still can be.
StillSaveable == frames > 0 => file # "shut"

\* Seen through what it holds, the buffer is the one RecordingSession relies on.
Contract == INSTANCE FrameBuffer WITH
    Frame <- 1..MaxFrames, content <- SubSeq(disk, 1, diskBytes) \o pending

BufferContract == Contract!Spec
=============================================================================

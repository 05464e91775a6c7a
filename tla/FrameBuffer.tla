---------------------------- MODULE FrameBuffer ----------------------------
(***************************************************************************)
(* What RecordingSession relies on from CaptureBuffer: one growing segment *)
(* of captured frames that is handed over whole, or thrown away whole.     *)
(* Each operation has a successful and a failing outcome; the environment  *)
(* (disk full, descriptor error, file removed) chooses between the two.    *)
(* CaptureBuffer.tla is the detailed model, and implements this one.       *)
(***************************************************************************)
EXTENDS Naturals, Sequences

CONSTANT
    Frame       \* the frames the camera can deliver

VARIABLES
    content,    \* frames accepted since the segment was started, in order
    file,       \* the spool file: none yet, open, or closed while still in use
    leftover,   \* discarded frames in spool files that could not be removed
    closed

bufferVars == <<content, file, leftover, closed>>

FileState == {"none", "open", "shut"}

Init == content = <<>> /\ file = "none" /\ leftover = {} /\ closed = FALSE

\* A write may have to create the spool file first, and creation may fail.
MayCreateFile == file' = file \/ (file = "none" /\ file' = "open")

Emptied == content' = <<>> /\ file' = "none"

AppendOk(f) == content' = Append(content, f) /\ MayCreateFile /\ UNCHANGED leftover

\* The frame joined the batch, but the batch could not be written out.
AppendFails(f) == content' = Append(content, f) /\ MayCreateFile /\ UNCHANGED leftover

\* The whole content leaves with the caller.
DetachOk == content # <<>> /\ file # "shut" /\ Emptied /\ UNCHANGED leftover

\* Either the batch was not written (the segment can be detached later), or the
\* file could not be closed, after which the buffer keeps a closed descriptor.
DetachFails ==
    /\ content # <<>> => MayCreateFile \/ file' = "shut"
    /\ content = <<>> => file' = file
    /\ UNCHANGED <<content, leftover>>

ClearOk == file # "shut" /\ Emptied /\ UNCHANGED leftover

\* Clear reports a failed close or removal, and has emptied the buffer anyway.
\* The buffer forgets the path: a file that was not removed stays as it is, with
\* what had been written of the segment.
ClearFails ==
    /\ file # "none" /\ Emptied
    /\ \E n \in 0..Len(content) : leftover' = leftover \cup {content[k] : k \in 1..n}

\* The directory of all spool files is removed, or not all of it.
Close ==
    /\ closed' = TRUE
    /\ Emptied
    /\ leftover' \in SUBSET (leftover \cup {content[k] : k \in 1..Len(content)})

\* SetMemoryDuration may write the batch out early.
WriteOut == content # <<>> /\ MayCreateFile /\ UNCHANGED <<content, leftover>>

Next ==
    /\ ~closed
    /\ \/ /\ \/ \E f \in Frame : AppendOk(f) \/ AppendFails(f)
             \/ DetachOk \/ DetachFails
             \/ ClearOk \/ ClearFails
             \/ WriteOut
          /\ UNCHANGED closed
       \/ Close

Spec == Init /\ [][Next]_bufferVars
=============================================================================

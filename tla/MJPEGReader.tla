----------------------------- MODULE MJPEGReader -----------------------------
(***************************************************************************)
(* service.MJPEGReader (internal/service/mjpeg.go): ReadFrame, called      *)
(* again and again by captureOnce, cuts ffmpeg's output into JPEG frames.  *)
(* A frame begins with the two bytes FF D8 and ends with FF D9; the bytes  *)
(* between two frames are skipped.                                         *)
(***************************************************************************)
EXTENDS Naturals, Sequences

CONSTANTS
    MaxFrame,       \* maxJPEGFrameSize
    MaxStream       \* bound: bytes in one behaviour

\* A frame's first marker fits.
ASSUME ReaderAssumption == MaxFrame \in Nat /\ MaxFrame >= 2 /\ MaxStream \in Nat

\* The markers' bytes, and one more for all others.
Byte == {"FF", "D8", "D9", "other"}
Zero == "other"

VARIABLES
    stream,         \* the bytes that were read so far
    started, previous, frame,   \* ReadFrame's; a frame is <<its first, its last byte>>
    frames,         \* the frames that were returned
    outcome         \* how the last call ended: "none" yet, or with an error

readerVars == <<stream, started, previous, frame, frames, outcome>>

ReaderInit ==
    /\ stream = <<>> /\ frames = <<>> /\ outcome = "none"
    /\ started = FALSE /\ previous = Zero /\ frame = <<1, 0>>

here == Len(stream) + 1

Skip(b) ==
    /\ ~started /\ ~(previous = "FF" /\ b = "D8")
    /\ previous' = b
    /\ UNCHANGED <<started, frame, frames, outcome>>

\* Slip: the last byte before the marker is kept.
StartKeepsPrevious(b) ==
    /\ ~started /\ previous = "FF" /\ b = "D8"
    /\ started' = TRUE /\ frame' = <<here - 1, here>>
    /\ UNCHANGED <<previous, frames, outcome>>

Start(b) ==
    /\ ~started /\ previous = "FF" /\ b = "D8"
    /\ started' = TRUE /\ frame' = <<here - 1, here>> /\ previous' = b
    /\ UNCHANGED <<frames, outcome>>

size(f) == f[2] + 1 - f[1]
grown == <<frame[1], here>>

TooLarge(b) ==
    /\ started /\ size(grown) > MaxFrame
    /\ outcome' = "tooLarge" /\ frame' = grown
    /\ UNCHANGED <<started, previous, frames>>

\* The frame is returned, and the next call begins.
Return(b) ==
    /\ started /\ size(grown) <= MaxFrame /\ previous = "FF" /\ b = "D9"
    /\ frames' = Append(frames, grown)
    /\ started' = FALSE /\ previous' = Zero /\ frame' = <<1, 0>>
    /\ UNCHANGED outcome

Continue(b) ==
    /\ started /\ size(grown) <= MaxFrame /\ ~(previous = "FF" /\ b = "D9")
    /\ frame' = grown /\ previous' = b
    /\ UNCHANGED <<started, frames, outcome>>

ReadByte(b) ==
    /\ outcome = "none" /\ Len(stream) < MaxStream
    /\ Skip(b) \/ Start(b) \/ TooLarge(b) \/ Return(b) \/ Continue(b)
    /\ stream' = Append(stream, b)

EndOfStream ==
    /\ outcome = "none"
    /\ outcome' = IF started THEN "unexpectedEnd" ELSE "end"
    /\ UNCHANGED <<stream, started, previous, frame, frames>>

ReadStep == EndOfStream \/ \E b \in Byte : ReadByte(b)

ReaderSpec == ReaderInit /\ [][ReadStep]_readerVars

----------------------------------------------------------------------------

\* marker(i, b): FF and b are the i-th and the next byte.
marker(i, b) == i < Len(stream) /\ stream[i] = "FF" /\ stream[i + 1] = b

startedAt(from, first) ==
    first >= from /\ marker(first, "D8") /\ \A i \in from..first - 1 : ~marker(i, "D8")
unended(f) == \A i \in f[1] + 2..f[2] - 2 : ~marker(i, "D9")

\* Each frame goes from the first start marker after the last frame to the first end
\* marker after that, and none that is complete is missed: what follows the last
\* frame has no start marker, or no end marker after it.  Only an open frame that
\* has outgrown the limit stops the reader (mjpeg.go:20-48).
FramesAreCut ==
    LET from(k) == IF k = 1 THEN 1 ELSE frames[k - 1][2] + 1
        rest == from(Len(frames) + 1)
        n == Len(stream)
    IN  /\ \A k \in DOMAIN frames :
            /\ startedAt(from(k), frames[k][1]) /\ unended(frames[k])
            /\ marker(frames[k][2] - 1, "D9") /\ frames[k][1] + 2 < frames[k][2]
            /\ size(frames[k]) <= MaxFrame
        /\ IF \E i \in rest..n : marker(i, "D8")
           THEN /\ startedAt(rest, frame[1]) /\ frame[2] = n
                /\ unended(<<frame[1], n>>)
                /\ outcome \in IF size(frame) > MaxFrame THEN {"tooLarge"}
                                                        ELSE {"none", "unexpectedEnd"}
                /\ marker(n - 1, "D9") /\ frame[1] + 2 < n => outcome = "tooLarge"
           ELSE outcome \in {"none", "end"}
=============================================================================

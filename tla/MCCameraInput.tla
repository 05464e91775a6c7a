--------------------------- MODULE MCCameraInput ---------------------------
(***************************************************************************)
(* What is read from a camera's ffmpeg, for TLC: its stream of frames and  *)
(* its report of modes.  The two share nothing, so that a behaviour is one *)
(* of a reader or of a detector.                                           *)
(***************************************************************************)
EXTENDS MJPEGReader, CameraDetector

vars == <<readerVars, detectorVars>>

Init == ReaderInit /\ DetectorInit

\* From these states the reader works, from the others the detector.
Undetected ==
    platform = "linux" /\ requested = [format |-> "", codec |-> ""]
    /\ at = "lines" /\ lines = 0

Next ==
    \/ Undetected /\ ReadStep /\ UNCHANGED detectorVars
    \/ stream = <<>> /\ outcome = "none" /\ DetectorStep /\ UNCHANGED readerVars

Spec == Init /\ [][Next]_vars

----------------------------------------------------------------------------

\* The smallest frame, FF D8 FF D9, and one byte more; enough for noise, two frames
\* and the beginning of a third, or for one that is too large.
MCMaxFrame == 5
MCMaxStream == 9

MCFormatList == {<<>>, <<"uyvy422">>, <<"uyvy422", "nv12">>}

\* The best one, and two that are equally near to it.
MCSize == {[width |-> 1280, height |-> 720, fps |-> 30],
           [width |-> 1290, height |-> 720, fps |-> 30],
           [width |-> 1280, height |-> 720, fps |-> 31]}

MCRequest == [format : {"", "nv12", "bgr0"}, codec : {"", "mjpeg"}]
=============================================================================

---------------------------- MODULE MCApplication ----------------------------
(***************************************************************************)
(* An instance of Application for TLC.                                     *)
(***************************************************************************)
EXTENDS Application

MCDefault == [source |-> "mock", device |-> FALSE, pixelFormat |-> FALSE,
              videoCodec |-> FALSE, inRange |-> TRUE, size |-> "default",
              buffer |-> 2, maxDuration |-> 2]
Camera == [MCDefault EXCEPT !.source = "camera", !.device = TRUE]

\* All three parts change; one part; and a camera without an input is refused.
MCRequested == {[Camera EXCEPT !.pixelFormat = TRUE, !.size = "chosen", !.buffer = 1,
                               !.maxDuration = 1],
                [MCDefault EXCEPT !.maxDuration = 1],
                Camera}

\* No file, no JSON, an early camera configuration, one with format and codec, a
\* camera that no version accepts.
MCEdited == {Absent, Unreadable, Camera,
             [Camera EXCEPT !.pixelFormat = TRUE, !.videoCodec = TRUE],
             [Camera EXCEPT !.device = FALSE]}
=============================================================================

-------------------------- MODULE MCLiveTranscoder --------------------------
(***************************************************************************)
(* Instances of LiveTranscoder for TLC.                                    *)
(***************************************************************************)
EXTENDS LiveTranscoder

\* Two sessions: the one being recorded, and an older one whose goroutines and
\* ffmpeg are still ending.
MCMaxSessions == 2
=============================================================================

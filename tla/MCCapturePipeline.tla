------------------------- MODULE MCCapturePipeline -------------------------
(***************************************************************************)
(* Instances of CapturePipeline for TLC.                                   *)
(***************************************************************************)
EXTENDS CapturePipeline

\* Two configurations, so that a capture with the replaced one can be told apart.
MCLoaded == "mock"
MCUpdated == {"camera"}

\* The first capture, and its replacement by a handler.
MCMaxRuns == 2

\* A frame that is thrown away and the one that replaces it.
MCMaxFrames == 2
=============================================================================

-------------------------- MODULE MCCaptureBuffer --------------------------
(***************************************************************************)
(* Instances of CaptureBuffer for TLC.                                     *)
(***************************************************************************)
EXTENDS CaptureBuffer

MCMemoryDuration == {1, 2}

\* The faults a file system shows under load; a truncation that fails as well
\* is left out, see the README.
MCFault == {"create", "write", "close", "remove"}
=============================================================================

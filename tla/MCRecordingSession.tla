------------------------ MODULE MCRecordingSession ------------------------
(***************************************************************************)
(* Instances of RecordingSession for TLC.  The clock starts at 1, so with  *)
(* durations of one and two ticks and MaxTime = 4 a recording can be       *)
(* replaced, shortened or prolonged while the callback of an earlier one   *)
(* still waits for the lock, and can reach its deadline afterwards.        *)
(***************************************************************************)
EXTENDS RecordingSession

MCDuration == {1, 2}
=============================================================================

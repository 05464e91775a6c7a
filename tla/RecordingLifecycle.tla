------------------------- MODULE RecordingLifecycle -------------------------
(***************************************************************************)
(* What a user of the recorder is promised about a recording, with no      *)
(* timer, generation number, spool file or encoder: frames are kept from   *)
(* the start of a recording until it is saved, replaced, lost to an error  *)
(* or past its time limit; a saved segment is everything kept so far; and  *)
(* only a recording that reached its limit is ever expired.                *)
(***************************************************************************)
EXTENDS Naturals, Sequences

CONSTANT
    Limit           \* the time limits that may be configured

VARIABLES
    phase,          \* "previewing", "recording", "timedOut"
    begun,          \* when the current recording began
    limit,          \* the configured time limit
    now,            \* the clock
    captured,       \* frames the camera has delivered so far
    kept,           \* frames of the current recording
    delivered,      \* segments handed to the exporter, in order
    closed          \* the application is shutting down

lifecycleVars == <<phase, begun, limit, now, captured, kept, delivered, closed>>

Init ==
    /\ phase = "previewing"
    /\ begun = 0
    /\ limit \in Limit
    /\ now = 1
    /\ captured = 0
    /\ kept = <<>>
    /\ delivered = <<>>
    /\ closed = FALSE

Recording == phase = "recording" /\ ~closed

PassTime ==
    /\ now' = now + 1
    /\ UNCHANGED <<phase, begun, limit, captured, kept, delivered, closed>>

Begin ==
    /\ ~closed
    /\ phase' = "recording" /\ begun' = now /\ kept' = <<>>
    /\ UNCHANGED <<limit, now, captured, delivered, closed>>

\* A start that fails may have thrown the frames away already.
BeginFails ==
    /\ ~closed
    /\ kept' = <<>>
    /\ UNCHANGED <<phase, begun, limit, now, captured, delivered, closed>>

Keep ==
    /\ captured' = captured + 1
    /\ \/ Recording /\ now < begun + limit /\ kept' = Append(kept, captured')
       \/ ~Recording /\ UNCHANGED kept
    /\ UNCHANGED <<phase, begun, limit, now, delivered, closed>>

\* A frame that cannot be stored ends the recording; nothing with a hole in it
\* is ever kept.
Lose ==
    /\ Recording
    /\ captured' = captured + 1
    /\ phase' = "previewing" /\ begun' = 0 /\ kept' = <<>>
    /\ UNCHANGED <<limit, now, delivered, closed>>

\* captured' = captured + 1 when it is the arrival of a frame that finds the
\* recording past its limit; that frame is not kept.
Expire ==
    /\ Recording
    /\ limit' \in Limit
    /\ now >= begun + limit'
    /\ captured' \in {captured, captured + 1}
    /\ phase' = "timedOut" /\ begun' = 0 /\ kept' = <<>>
    /\ UNCHANGED <<now, delivered, closed>>

Deliver(continue) ==
    /\ Recording
    /\ kept # <<>>
    /\ delivered' = Append(delivered, kept)
    /\ kept' = <<>>
    /\ phase' = IF continue THEN "recording" ELSE "previewing"
    /\ begun' = IF continue THEN now ELSE 0
    /\ UNCHANGED <<limit, now, captured, closed>>

SetLimit ==
    /\ ~closed
    /\ limit' \in Limit
    /\ Recording => now < begun + limit'
    /\ UNCHANGED <<phase, begun, now, captured, kept, delivered, closed>>

Close ==
    /\ closed' = TRUE
    /\ UNCHANGED <<phase, begun, limit, now, captured, kept, delivered>>

Next ==
    \/ PassTime \/ Begin \/ BeginFails \/ Keep \/ Lose \/ Expire
    \/ \E continue \in BOOLEAN : Deliver(continue)
    \/ SetLimit \/ Close

Spec == Init /\ [][Next]_lifecycleVars
=============================================================================

------------------------ MODULE CaptureNotifications ------------------------
(***************************************************************************)
(* captureNotificationState and monitorCaptureNotifications                *)
(* (cmd/recorder/capture_notifications.go).  Once a second the monitor     *)
(* samples the capture's status and may show a notice on the desktop.      *)
(* A point in time is kept as its age in seconds, up to the limit it is    *)
(* compared with.                                                          *)
(* The module has no Next: CapturePipeline composes it.                    *)
(***************************************************************************)
EXTENDS Naturals

CONSTANTS
    Delay, Cooldown,    \* captureFailureDelay and captureFailureCooldown, in seconds
    Never               \* the zero time.Time

ASSUME DelayAssumption == Delay \in Nat /\ Cooldown \in Nat /\ Delay < Cooldown
ASSUME NeverAssumption == Never \notin Nat

VARIABLES
    failureStartedAt, lastFailureAt,    \* ages, or Never
    failureReported,
    notice,         \* what the last sample has put on the desktop, if anything
    alerted,        \* has a failure been shown that no recovery has followed?
    unhealthyFor    \* samples since the last healthy one or the start, up to Delay + 1

noticeVars == <<failureStartedAt, lastFailureAt, failureReported, notice, alerted,
                unhealthyFor>>

NoticeInit ==
    /\ failureStartedAt = Never /\ lastFailureAt = Never
    /\ failureReported = FALSE
    /\ notice = "none" /\ alerted = FALSE /\ unhealthyFor = 0

later(age, limit) == IF age \in {Never, limit} THEN age ELSE age + 1

\* Slip: a recovery does not end the report.
observeHealthyKeepsReport(shows) ==
    /\ failureStartedAt' = Never /\ lastFailureAt' = Never
    /\ notice' = IF failureReported /\ shows THEN "recovered" ELSE "none"
    /\ UNCHANGED failureReported

observeHealthy(shows) ==
    /\ failureStartedAt' = Never /\ lastFailureAt' = Never
    /\ failureReported' = FALSE
    /\ notice' = IF failureReported /\ shows THEN "recovered" ELSE "none"

\* A notice that could not be shown does not count as a report, but the next
\* attempt has to wait for the cooldown.
observeFailed(shows) ==
    LET started == IF failureStartedAt = Never THEN 0 ELSE later(failureStartedAt, Delay)
        last == later(lastFailureAt, Cooldown)
        due == started = Delay /\ (last = Never \/ last = Cooldown)
    IN  /\ failureStartedAt' = started
        /\ lastFailureAt' = IF due THEN 0 ELSE last
        /\ failureReported' = IF due THEN shows ELSE failureReported
        /\ notice' = IF due /\ shows THEN "failed" ELSE "none"

\* Neither failed nor healthy, while the capture is connecting.
observeNothing ==
    /\ failureStartedAt' = later(failureStartedAt, Delay)
    /\ lastFailureAt' = later(lastFailureAt, Cooldown)
    /\ notice' = "none"
    /\ UNCHANGED failureReported

\* check, once a second.  shows: does the desktop accept a notice?
Observe(failed, healthy) ==
    /\ \E shows \in BOOLEAN :
        \/ failed /\ observeFailed(shows)
        \/ ~failed /\ healthy /\ observeHealthy(shows)
        \/ ~failed /\ ~healthy /\ observeNothing
    /\ alerted' = (notice' = "failed" \/ (alerted /\ notice' # "recovered"))
    /\ unhealthyFor' = IF ~failed /\ healthy THEN 0
                       ELSE later(unhealthyFor, Delay + 1)

----------------------------------------------------------------------------

NoticeTypeOK ==
    /\ failureStartedAt \in 0..Delay \cup {Never}
    /\ lastFailureAt \in 0..Cooldown \cup {Never}
    /\ failureReported \in BOOLEAN /\ alerted \in BOOLEAN
    /\ notice \in {"none", "failed", "recovered"}
    /\ unhealthyFor \in 0..Delay + 1

\* Each notice is earned: a failure is shown only after the delay without a
\* healthy sample, and a recovery only in answer to a failure that was shown and
\* has not been answered yet (capture_notifications.go:32-59, 89-94).
NoticesAreEarned ==
    [][ /\ notice' = "failed" => unhealthyFor' > Delay
        /\ notice' = "recovered" => alerted ]_noticeVars
=============================================================================

-------------------------- MODULE CapturePipeline --------------------------
(***************************************************************************)
(* The capture service, the frame hub with its preview clients, and the    *)
(* notification monitor at work together: captureOnce publishes each frame *)
(* before it records it, and the monitor samples the service's status.     *)
(* The recording, for which any frame may fail, is RecordingSession.       *)
(***************************************************************************)
EXTENDS CaptureService, FrameHub, CaptureNotifications

VARIABLE resumed    \* after a failure's notice: has a frame been captured since?

vars == <<captureVars, hubVars, noticeVars, resumed>>

Init == CaptureInit /\ HubInit /\ NoticeInit /\ resumed = FALSE

captureOnly == UNCHANGED <<hubVars, noticeVars, resumed>>
hubOnly == UNCHANGED <<captureVars, noticeVars, resumed>>

\* One publisher at a time: the goroutine of the one capture there is.
Frame(r) ==
    /\ ReadFrame(r) /\ ~publishing
    /\ BeginPublish(status.frames + 1)
    /\ UNCHANGED <<noticeVars, resumed>>

Recorded(r) ==
    /\ FrameDone(r) /\ EndPublish
    /\ resumed' = alerted
    /\ UNCHANGED noticeVars

Monitor ==
    /\ Observe(status.lastError, status.running)
    /\ resumed' = (resumed /\ alerted' /\ notice' # "failed")
    /\ UNCHANGED <<captureVars, hubVars>>

Next ==
    \/ Start /\ captureOnly
    \/ \E h \in Handler, config \in Updated : Reconfigure(h, config) /\ captureOnly
    \/ Stop /\ captureOnly
    \/ Signal /\ captureOnly
    \/ \E c \in Caller : CallerStep(c) /\ captureOnly
    \/ \E r \in RunId :
        \/ RunStep(r) /\ captureOnly
        \/ Crash(r) /\ captureOnly
        \/ Killed(r) /\ captureOnly
        \/ Frame(r) \/ Recorded(r)
    \/ PublishStep /\ hubOnly
    \/ ClientStep /\ hubOnly
    \/ Monitor

\* ffmpeg may be slow or hang for ever, in a probe, while it runs, or when nobody
\* reads its output, until its context is cancelled.
Unblocked(r) ==
    /\ runs[r].at = "probe" => drawtext # "unknown" \/ cancelled(r)
    /\ runs[r].at = "reading" => runs[r].process # "running"

\* The goroutines run and a cancelled process is killed in the end; nothing is
\* assumed of ffmpeg, the clients or the desktop.  restartMu is handed over: a
\* waiting sync.Mutex.Lock is not overtaken for ever.
Fairness ==
    /\ \A c \in Caller : SF_vars(CallerStep(c) /\ captureOnly)
    /\ \A r \in 1..MaxRuns :
        /\ WF_vars(r \in RunId /\ Unblocked(r) /\ RunStep(r) /\ captureOnly)
        /\ WF_vars(r \in RunId /\ Killed(r) /\ captureOnly)
        /\ WF_vars(r \in RunId /\ Recorded(r))
    /\ WF_vars(PublishStep /\ hubOnly)

Spec == Init /\ [][Next]_vars /\ Fairness

----------------------------------------------------------------------------

\* Every variable of the three components has its type (capture.go:21-43,
\* hub.go:5-8, capture_notifications.go:26-30).
TypeOK == CaptureTypeOK /\ HubTypeOK /\ NoticeTypeOK /\ resumed \in BOOLEAN

\* README, "Desktop Notifications": "one recovery notification is sent after
\* capture resumes": between a failure's notice and the recovery's a frame came.
RecoveryIsReal == [][notice' = "recovered" => resumed]_noticeVars
=============================================================================

--------------------------- MODULE LiveTranscoder ---------------------------
(***************************************************************************)
(* service.LiveTranscoder (internal/service/live_transcode.go): encoding   *)
(* while recording.  Three kinds of goroutine meet here:                   *)
(*   - the caller, under the recording session's lock, so one at a time:   *)
(*     Start, Write, Detach, Discard and Close;                            *)
(*   - per session writeFrames, which feeds ffmpeg and reports its end;    *)
(*   - per session consumeProgress, which stops a session that is slow.    *)
(* An action is one critical section of t.mu or session.mu, or one wait.   *)
(* What the exporter does with a detached encoding is modelled as far as   *)
(* it touches the session; see Exporter.                                   *)
(***************************************************************************)
EXTENDS Naturals, Sequences, FiniteSets

CONSTANTS
    QueueFrames,    \* capacity of session.frames (two seconds of frames)
    MaxSessions     \* bound: encoder processes launched in one behaviour

ASSUME LiveBoundAssumption ==
    QueueFrames \in Nat \ {0} /\ MaxSessions \in Nat

VARIABLES
    active, finalizing,     \* t.active, t.finalizing: a session, or 0 for nil
    status,                 \* t.status: a state and the session whose encoder it names
    sessions,               \* the liveSessions launched so far
    caller,                 \* where the caller is, and with which session
    owned,                  \* sessions detached to the exporter
    files                   \* sessions whose live-*.part.mp4 exists

vars == <<active, finalizing, status, sessions, caller, owned, files>>

NewSession == [
    accepting |-> TRUE, aborted |-> FALSE, cancelled |-> FALSE,
    framesClosed |-> FALSE,
    queued |-> 0,           \* frames in session.frames
    missed |-> FALSE,       \* has a frame meant for ffmpeg not reached it?
    process |-> "running",  \* then "ok" or "failed"
    writer |-> "feeding",   \* where writeFrames is
    failure |-> FALSE,      \* its writeErr or waitErr
    sawAborted |-> FALSE,   \* its copy of aborted
    progress |-> "watching",\* where consumeProgress is
    result |-> "none"]      \* what was sent on session.done

Init ==
    /\ active = 0 /\ finalizing = 0
    /\ status = [state |-> "disabled", session |-> 0]
    /\ sessions = <<>>
    /\ caller = [at |-> "idle", session |-> 0, then |-> "idle"]
    /\ owned = {} /\ files = {}

Ids == 1..Len(sessions)
s == caller.session
goto(step) == caller' = [caller EXCEPT !.at = step]
leaveFor(step) == caller' = [at |-> step, session |-> 0, then |-> "idle"]
return == leaveFor("idle")

----------------------------------------------------------------------------
\* Critical sections that several goroutines run.

\* fallbackFor: the status is the caller's to change only while it is about this
\* session.
fallbackFor(id) ==
    /\ active' = IF active = id THEN 0 ELSE active
    /\ finalizing' = IF active # id /\ finalizing = id THEN 0 ELSE finalizing
    /\ status' = IF id \in {active, finalizing}
                 THEN [state |-> "fallback", session |-> id] ELSE status

\* Slip: whichever session ends sets the status.
completeForAny(id) ==
    /\ status' = [state |-> "completed", session |-> id]
    /\ finalizing' = 0
    /\ UNCHANGED active

completeFor(id) ==
    /\ IF finalizing = id
       THEN status' = [state |-> "completed", session |-> id] /\ finalizing' = 0
       ELSE UNCHANGED <<status, finalizing>>
    /\ UNCHANGED active

\* Slip: the channel is closed while Write may still send to it.
stoppedStillAccepting(session) ==
    [session EXCEPT !.aborted = TRUE, !.cancelled = TRUE, !.framesClosed = TRUE]

\* Slip: the encoder is not told to stop.
stoppedNotCancelled(session) ==
    [session EXCEPT !.accepting = FALSE, !.aborted = TRUE, !.framesClosed = TRUE]

\* Under session.mu: no more frames, kill the encoder.  abortOnce and closeOnce
\* make a repetition harmless.
stopped(session) ==
    [session EXCEPT !.accepting = FALSE, !.aborted = TRUE, !.cancelled = TRUE,
                    !.framesClosed = TRUE]

----------------------------------------------------------------------------
\* Start and Discard

\* Slip: Start does not discard the session there is.
DiscardNothing(then) ==
    /\ caller.at = "idle"
    /\ leaveFor(then)
    /\ UNCHANGED <<active, finalizing, status, sessions, owned, files>>

\* Discard, with which Start and Close begin: the active session is taken out.
Discard(then) ==
    /\ caller.at = "idle"
    /\ active' = 0
    /\ IF active = 0
       THEN leaveFor(then)
       ELSE caller' = [at |-> "abort", session |-> active, then |-> then]
    /\ UNCHANGED <<finalizing, status, sessions, owned, files>>

Abort ==
    /\ caller.at = "abort"
    /\ IF ~sessions[s].accepting /\ sessions[s].aborted
       THEN leaveFor(caller.then) /\ UNCHANGED sessions
       ELSE goto("abortReport") /\ sessions' = [sessions EXCEPT ![s] = stopped(@)]
    /\ UNCHANGED <<active, finalizing, status, owned, files>>

\* Discard then waits for the result, for three seconds at most: whatever comes
\* next may come before or after it.
AbortReport ==
    /\ caller.at = "abortReport"
    /\ fallbackFor(s)
    /\ leaveFor(caller.then)
    /\ UNCHANGED <<sessions, owned, files>>

\* Start goes on.  It forgets the finalizing session in one section of t.mu and sets
\* the status in the next: in between the status is still that session's.
Reset ==
    /\ caller.at = "reset"
    /\ finalizing' = 0
    /\ goto("configure")
    /\ UNCHANGED <<active, status, sessions, owned, files>>

\* Live transcoding is switched off, or is tried.
Configure ==
    /\ caller.at = "configure"
    /\ \/ status' = [state |-> "disabled", session |-> 0] /\ return
       \/ status' = [state |-> "starting", session |-> 0] /\ goto("launch")
    /\ UNCHANGED <<active, finalizing, sessions, owned, files>>

Start == Discard("reset")

\* Nothing is called after Close.
Close == Discard("closed")

\* No encoder passes its probe, the file cannot be made, or ffmpeg not started.
LaunchFails ==
    /\ caller.at = "launch"
    /\ status' = [state |-> "fallback", session |-> 0]
    /\ return
    /\ UNCHANGED <<active, finalizing, sessions, owned, files>>

\* The session's goroutines start, and it becomes the active one.  One action: nobody
\* else knows the session before it is active, its writer waits for the first frame,
\* and only a report of ten slow seconds would stop it in between.  t.closing is
\* never set here: Close is the caller's last call.
Launch ==
    /\ caller.at = "launch"
    /\ Len(sessions) < MaxSessions
    /\ sessions' = Append(sessions, NewSession)
    /\ files' = files \cup {Len(sessions')}
    /\ active' = Len(sessions') /\ finalizing' = 0
    /\ status' = [state |-> "running", session |-> Len(sessions')]
    /\ return
    /\ UNCHANGED owned

----------------------------------------------------------------------------
\* Write

\* The active session is read under t.mu, and used after the lock is released.
Write ==
    /\ caller.at = "idle" /\ active # 0
    /\ caller' = [at |-> "write", session |-> active, then |-> "idle"]
    /\ UNCHANGED <<active, finalizing, status, sessions, owned, files>>

\* Slip: the queue has no limit.
WriteFrameUnbounded ==
    /\ caller.at = "write"
    /\ sessions' = IF sessions[s].accepting
                   THEN [sessions EXCEPT ![s].queued = @ + 1]
                   ELSE [sessions EXCEPT ![s].missed = TRUE]
    /\ return
    /\ UNCHANGED <<active, finalizing, status, owned, files>>

\* The frame is queued, or the queue is full and the session is stopped, or the
\* session has been stopped since.
WriteFrame ==
    /\ caller.at = "write"
    /\ \/ /\ ~sessions[s].accepting
          /\ sessions' = [sessions EXCEPT ![s].missed = TRUE]
          /\ return
       \/ /\ sessions[s].accepting /\ sessions[s].queued < QueueFrames
          /\ sessions' = [sessions EXCEPT ![s].queued = @ + 1]
          /\ return
       \/ /\ sessions[s].accepting /\ sessions[s].queued = QueueFrames
          /\ sessions' = [sessions EXCEPT ![s] = [stopped(@) EXCEPT !.missed = TRUE]]
          /\ goto("writeReport")
    /\ UNCHANGED <<active, finalizing, status, owned, files>>

WriteReport ==
    /\ caller.at = "writeReport"
    /\ fallbackFor(s)
    /\ return
    /\ UNCHANGED <<sessions, owned, files>>

----------------------------------------------------------------------------
\* Detach

Detach ==
    /\ caller.at = "idle" /\ active # 0
    /\ active' = 0 /\ finalizing' = active
    /\ status' = [status EXCEPT !.state = "finalizing"]
    /\ caller' = [at |-> "detach", session |-> active, then |-> "idle"]
    /\ UNCHANGED <<sessions, owned, files>>

\* Slip: a session that was stopped in the meantime is handed over as well.
DetachStopped ==
    /\ caller.at = "detach"
    /\ sessions' = [sessions EXCEPT ![s].accepting = FALSE, ![s].framesClosed = TRUE]
    /\ owned' = owned \cup {s}
    /\ return
    /\ UNCHANGED <<active, finalizing, status, files>>

DetachSession ==
    /\ caller.at = "detach"
    /\ IF ~sessions[s].accepting \/ sessions[s].aborted
       THEN UNCHANGED <<sessions, owned>>
       ELSE /\ sessions' = [sessions EXCEPT ![s].accepting = FALSE,
                                            ![s].framesClosed = TRUE]
            /\ owned' = owned \cup {s}
    /\ return
    /\ UNCHANGED <<active, finalizing, status, files>>

----------------------------------------------------------------------------
\* writeFrames(id)

\* A frame is fed to ffmpeg, if it is still there to read it.
Feed(id) ==
    /\ sessions[id].writer = "feeding" /\ sessions[id].queued > 0
    /\ sessions' =
           IF sessions[id].process = "running"
           THEN [sessions EXCEPT ![id].queued = @ - 1]
           ELSE [sessions EXCEPT ![id].queued = @ - 1, ![id].missed = TRUE,
                                 ![id].failure = TRUE, ![id].writer = "waiting"]
    /\ UNCHANGED <<active, finalizing, status, caller, owned, files>>

\* The channel is closed and drained: ffmpeg's input ends.
EndInput(id) ==
    /\ sessions[id].writer = "feeding"
    /\ sessions[id].framesClosed /\ sessions[id].queued = 0
    /\ sessions' = [sessions EXCEPT ![id].writer = "waiting"]
    /\ UNCHANGED <<active, finalizing, status, caller, owned, files>>

\* Slip: an aborted session whose ffmpeg exits with code 0 counts as complete.
failedOnlyByError(session) == session.failure \/ session.process = "failed"

failed(session) == session.failure \/ session.process = "failed" \/ session.aborted

\* cmd.Wait has returned; aborted is read under session.mu.
Reap(id) ==
    /\ sessions[id].writer = "waiting"
    /\ sessions[id].process # "running"
    /\ sessions' = [sessions EXCEPT ![id].writer = "report",
                                    ![id].failure = failed(sessions[id]),
                                    ![id].sawAborted = sessions[id].aborted]
    /\ UNCHANGED <<active, finalizing, status, caller, owned, files>>

\* The status, and then the result on session.done.
Report(id) ==
    /\ sessions[id].writer = "report"
    /\ IF sessions[id].failure THEN fallbackFor(id) ELSE completeFor(id)
    /\ sessions' = [sessions EXCEPT ![id].writer = "remove",
                        ![id].result = IF sessions[id].failure THEN "failed" ELSE "ok"]
    /\ UNCHANGED <<caller, owned, files>>

\* The file is removed only if aborted was set when it was read.
Remove(id) ==
    /\ sessions[id].writer = "remove"
    /\ files' = IF sessions[id].sawAborted THEN files \ {id} ELSE files
    /\ sessions' = [sessions EXCEPT ![id].writer = "ended"]
    /\ UNCHANGED <<active, finalizing, status, caller, owned>>

----------------------------------------------------------------------------
\* consumeProgress(id)

\* The speed has been too low for ten seconds: observeSpeed stops the session.
TooSlow(id) ==
    /\ sessions[id].progress = "watching" /\ sessions[id].process = "running"
    /\ sessions[id].accepting
    /\ sessions' = [sessions EXCEPT ![id] = [stopped(@) EXCEPT !.progress = "report"]]
    /\ UNCHANGED <<active, finalizing, status, caller, owned, files>>

SlowReport(id) ==
    /\ sessions[id].progress = "report"
    /\ fallbackFor(id)
    /\ sessions' = [sessions EXCEPT ![id].progress = "ended"]
    /\ UNCHANGED <<caller, owned, files>>

----------------------------------------------------------------------------
\* ffmpeg and the exporter

\* ffmpeg may fail at any time; it ends well only after its input has ended.
Crash(id) ==
    /\ sessions[id].process = "running"
    /\ sessions' = [sessions EXCEPT ![id].process = "failed"]
    /\ UNCHANGED <<active, finalizing, status, caller, owned, files>>

Exit(id) ==
    /\ sessions[id].process = "running"
    /\ sessions[id].writer = "waiting"
    /\ sessions' = [sessions EXCEPT ![id].process = "ok"]
    /\ UNCHANGED <<active, finalizing, status, caller, owned, files>>

\* SIGTERM, and after four seconds SIGKILL.
Killed(id) ==
    /\ sessions[id].process = "running" /\ sessions[id].cancelled
    /\ sessions' = [sessions EXCEPT ![id].process = "failed"]
    /\ UNCHANGED <<active, finalizing, status, caller, owned, files>>

\* publishLive uses the result, or gives up after 30 seconds and cancels; the
\* live file is removed either way.
Publish(id) ==
    /\ id \in owned
    /\ IF sessions[id].result # "none"
       THEN UNCHANGED sessions
       ELSE sessions' = [sessions EXCEPT ![id].cancelled = TRUE]
    /\ owned' = owned \ {id}
    /\ files' = files \ {id}
    /\ UNCHANGED <<active, finalizing, status, caller>>

CallerStep ==
    \/ Abort \/ AbortReport
    \/ Reset \/ Configure \/ LaunchFails \/ Launch
    \/ WriteFrame \/ WriteReport \/ DetachSession

WriterStep(id) ==
    Feed(id) \/ EndInput(id) \/ Reap(id) \/ Report(id) \/ Remove(id)

Next ==
    \/ Discard("idle") \/ Start \/ Close
    \/ Write \/ Detach
    \/ CallerStep
    \/ \E id \in Ids :
        \/ WriterStep(id)
        \/ TooSlow(id) \/ SlowReport(id)
        \/ Crash(id) \/ Exit(id) \/ Killed(id)
        \/ Publish(id)

\* A write to ffmpeg's input is not blocked: ffmpeg is gone and the write fails,
\* or the writer has something else to do.
Unblocked(id) ==
    sessions[id].writer = "feeding" /\ sessions[id].queued > 0
        => sessions[id].process # "running"

\* Goroutines get to run, a cancelled process is killed in the end, the exporter
\* has its timeout.  Nothing is assumed of ffmpeg, which may stop reading or never
\* end of itself, nor of further calls.
Fairness ==
    /\ WF_vars(CallerStep)
    /\ \A id \in 1..MaxSessions :
        /\ WF_vars(id \in Ids /\ Unblocked(id) /\ WriterStep(id))
        /\ WF_vars(id \in Ids /\ Killed(id))
        /\ WF_vars(id \in Ids /\ Publish(id))

Spec == Init /\ [][Next]_vars /\ Fairness

----------------------------------------------------------------------------
\* Properties.

Session == [accepting : BOOLEAN, aborted : BOOLEAN, cancelled : BOOLEAN,
            framesClosed : BOOLEAN, queued : 0..QueueFrames, missed : BOOLEAN,
            process : {"running", "ok", "failed"},
            writer : {"feeding", "waiting", "report", "remove", "ended"},
            failure : BOOLEAN, sawAborted : BOOLEAN,
            progress : {"watching", "report", "ended"},
            result : {"none", "ok", "failed"}]

\* Every variable has its type, and the queue never exceeds its capacity
\* (live_transcode.go:72-98).
TypeOK ==
    /\ active \in 0..Len(sessions) /\ finalizing \in 0..Len(sessions)
    /\ status.state \in {"disabled", "starting", "running", "finalizing", "completed",
                         "fallback"}
    /\ status.session \in 0..Len(sessions)
    /\ sessions \in Seq(Session)
    /\ s \in 0..Len(sessions) /\ caller.then \in {"idle", "reset", "closed"}
    /\ owned \subseteq Ids /\ files \subseteq Ids

\* While a session accepts frames its channel is open, so Write, which looked
\* the session up before taking its lock, never sends on a closed channel
\* (live_transcode.go:181-196, 302-327, 539-551).
AcceptingIsOpen == \A id \in Ids : sessions[id].accepting => ~sessions[id].framesClosed

\* An encoding reported as good was given every frame the session was offered;
\* one that dropped a frame or was stopped is reported as failed, even if ffmpeg
\* exited well (live_transcode.go:189-195, 519-532).
GoodIsComplete ==
    \A id \in Ids : sessions[id].result = "ok" =>
        sessions[id].queued = 0 /\ ~sessions[id].missed /\ ~sessions[id].aborted

\* While the exporter holds a detached encoding, its file is not removed under
\* it (live_transcode.go:203-224, 534-536; export.go:293).
DetachedFileStays == owned \subseteq files

\* An ffmpeg that runs is the active one, is in the caller's or the exporter's
\* hands, or has been told to stop: none is forgotten (live_transcode.go:109-172,
\* 226-238).
NoForgottenEncoder ==
    \A id \in Ids : sessions[id].process = "running" =>
        id \in {active, s} \cup owned \/ sessions[id].cancelled

\* The status names the session it is about: an active session is shown as
\* running, a finalizing one as finalizing, whatever older sessions report in
\* the meantime.  Only between Start's two sections does the status show as
\* finalizing a session that Start has just forgotten
\* (live_transcode.go:111-119, 161-170, 264-289).
StatusNamesTheSession ==
    /\ active # 0 => status = [state |-> "running", session |-> active]
    /\ finalizing # 0 => status = [state |-> "finalizing", session |-> finalizing]
    /\ status.state = "finalizing" => finalizing # 0 \/ caller.at = "configure"

\* A session that is no longer active, because it was detached, discarded or
\* given up, ends with a result, even if ffmpeg hangs (live_transcode.go:510-537).
Released(id) == id \in Ids /\ id # active
EverySessionEnds ==
    \A id \in 1..MaxSessions :
        Released(id) ~> (id \in Ids /\ sessions[id].result # "none")

\* README, "Configuration": "Active temporary files are removed during graceful
\* shutdown": when everything has been closed and has ended, none is left.
NoLiveFileLeft ==
    caller.at = "closed" /\ owned = {} /\ (\A id \in Ids : sessions[id].writer = "ended")
        => files = {}

\* README, "Configuration": "The active decoder and encoder are shown in the
\* Console transcode status": an encoder that is shown as running is active.
RunningIsActive ==
    caller.at \in {"idle", "closed"} /\ status.state = "running" => active # 0
=============================================================================

--------------------------- MODULE CaptureService ---------------------------
(***************************************************************************)
(* service.CaptureService (internal/service/capture.go).  main calls Start *)
(* and, at shutdown, Stop; HTTP handlers call Reconfigure, some of them    *)
(* after Stop.  Each started capture has a goroutine (run, captureOnce)    *)
(* and at most one ffmpeg.  The frames go to the hub and the recording in  *)
(* CapturePipeline, which composes this module's actions.                  *)
(***************************************************************************)
EXTENDS Naturals, Sequences, FiniteSets

CONSTANTS
    Loaded,         \* the capture configuration that main has loaded
    Updated,        \* those that handlers ask for
    Handler,        \* HTTP handlers that reconfigure
    MaxRuns,        \* bound: captures started in one behaviour
    MaxFrames       \* bound: frames read from ffmpeg in one behaviour

ASSUME CaptureBoundAssumption == MaxRuns \in Nat /\ MaxFrames \in Nat

Config == Updated \cup {Loaded}
Main == "main"
Caller == {Main} \cup Handler
NoConfig == "none"

ASSUME MainAssumption == Main \notin Handler

VARIABLES
    root,           \* s.root: "nil" or "set"
    signalled,      \* is the context that root refers to cancelled?
    current,        \* the run that s.cancel and s.done belong to, or 0
    runs,           \* the runs started so far
    status,         \* s.status
    drawtext,       \* s.drawtextSupport of the one ffmpeg path
    restartMu,      \* the callers that hold it, at most one
    calls           \* where each caller is

captureVars == <<root, signalled, current, runs, status, drawtext, restartMu, calls>>

NewRun(config) ==
    [config |-> config, at |-> "connect", cancelled |-> FALSE, process |-> "none"]
NoCall == [at |-> "idle", op |-> "none", config |-> NoConfig, taken |-> 0]

CaptureInit ==
    /\ root = "nil" /\ signalled = FALSE
    /\ current = 0 /\ runs = <<>>
    /\ status = [running |-> FALSE, connecting |-> FALSE, lastError |-> FALSE,
                 warning |-> FALSE, source |-> NoConfig, frames |-> 0]
    /\ drawtext = "unknown"
    /\ restartMu = {}
    /\ calls = [c \in Caller |-> [NoCall EXCEPT !.at = IF c = Main THEN "new" ELSE "idle"]]

RunId == 1..Len(runs)
cancelled(r) == runs[r].cancelled \/ signalled
goto(r, step) == runs' = [runs EXCEPT ![r].at = step]
callersUnchanged == UNCHANGED <<root, signalled, current, restartMu, calls>>

----------------------------------------------------------------------------
\* Start, Reconfigure, Stop

queued(op, config) == [NoCall EXCEPT !.at = "queued", !.op = op, !.config = config]

\* main's first call, before the HTTP server exists.
Start ==
    /\ calls[Main].at = "new"
    /\ root' = "set"
    /\ calls' = [calls EXCEPT ![Main] = queued("start", Loaded)]
    /\ UNCHANGED <<signalled, current, runs, status, drawtext, restartMu>>

Started == ~(calls[Main].at = "new" \/ calls[Main].op = "start")
Pending == {c \in Caller : calls[c].op \in {"start", "reconfigure"}}

Reconfigure(h, config) ==
    /\ Started /\ calls[h].at = "idle"
    /\ Len(runs) + Cardinality(Pending) < MaxRuns
    /\ calls' = [calls EXCEPT ![h] = queued("reconfigure", config)]
    /\ UNCHANGED <<root, signalled, current, runs, status, drawtext, restartMu>>

Stop ==
    /\ calls[Main].at = "idle"
    /\ calls' = [calls EXCEPT ![Main] = queued("stop", NoConfig)]
    /\ UNCHANGED <<root, signalled, current, runs, status, drawtext, restartMu>>

\* Slip: the callers do not wait for each other.
lockShared(c) == restartMu' = restartMu \cup {c}

\* s.restartMu.Lock
lock(c) == restartMu = {} /\ restartMu' = {c}

\* stopCurrent, under restartMu: the run's context is cancelled.
stopCurrent(c) ==
    /\ calls[c].at = "queued" /\ lock(c)
    /\ current' = 0
    /\ calls' = [calls EXCEPT ![c].at = "waiting", ![c].taken = current]
    /\ runs' = [r \in RunId |-> [runs[r] EXCEPT !.cancelled = @ \/ r = current]]
    /\ UNCHANGED <<root, signalled, status, drawtext>>

\* Slip: the next capture is started without waiting for the last one.
doneAtOnce(c) == calls[c].at = "waiting"

\* Its goroutine has closed done.
done(c) ==
    /\ calls[c].at = "waiting"
    /\ calls[c].taken # 0 => runs[calls[c].taken].at = "done"

return(c, at) ==
    /\ calls' = [calls EXCEPT ![c] = [NoCall EXCEPT !.at = at]]
    /\ restartMu' = {}

\* Slip: the check is made for Start only.
mayStartUnchecked == ~signalled

mayStart == root = "set" /\ ~signalled

startCurrent(c) ==
    /\ done(c) /\ calls[c].op # "stop" /\ mayStart
    /\ runs' = Append(runs, NewRun(calls[c].config))
    /\ current' = Len(runs')
    /\ status' = [status EXCEPT !.source = calls[c].config, !.lastError = FALSE]
    /\ return(c, "idle")
    /\ UNCHANGED <<root, signalled, drawtext>>

\* "capture service is stopped"
startRefused(c) ==
    /\ done(c) /\ calls[c].op # "stop" /\ ~mayStart
    /\ return(c, "idle")
    /\ UNCHANGED <<root, signalled, current, runs, status, drawtext>>

StopDone(c) ==
    /\ done(c) /\ calls[c].op = "stop"
    /\ root' = "nil"
    /\ status' = [status EXCEPT !.running = FALSE, !.connecting = FALSE]
    /\ return(c, "ended")
    /\ UNCHANGED <<signalled, current, runs, drawtext>>

CallerStep(c) == stopCurrent(c) \/ startCurrent(c) \/ startRefused(c) \/ StopDone(c)

\* SIGINT or SIGTERM
Signal ==
    /\ ~signalled /\ signalled' = TRUE
    /\ UNCHANGED <<root, current, runs, status, drawtext, restartMu, calls>>

----------------------------------------------------------------------------
\* run and captureOnce

Connect(r) ==
    /\ runs[r].at = "connect"
    /\ goto(r, "probe")
    /\ status' = [status EXCEPT !.connecting = TRUE]
    /\ callersUnchanged /\ UNCHANGED drawtext

\* supportsDrawtext, from the cache or by running ffmpeg under the run's context:
\* if it fails or is killed, "no" is remembered.
Probe(r) ==
    /\ runs[r].at = "probe"
    /\ IF drawtext # "unknown"
       THEN UNCHANGED drawtext
       ELSE drawtext' \in {"no"} \cup (IF cancelled(r) THEN {} ELSE {"yes"})
    /\ status' = [status EXCEPT !.warning = drawtext' = "no"]
    /\ goto(r, "start")
    /\ callersUnchanged

\* No arguments for this platform, no ffmpeg, no pipe, or cancelled.
StartFails(r) ==
    /\ runs[r].at = "start"
    /\ goto(r, "ended")
    /\ callersUnchanged /\ UNCHANGED <<status, drawtext>>

StartProcess(r) ==
    /\ runs[r].at = "start" /\ ~cancelled(r)
    /\ runs' = [runs EXCEPT ![r].at = "reading", ![r].process = "running"]
    /\ status' = [status EXCEPT !.running = TRUE, !.connecting = FALSE,
                                !.lastError = FALSE]
    /\ callersUnchanged /\ UNCHANGED drawtext

\* A frame, possibly one that ffmpeg wrote before it ended.
ReadFrame(r) ==
    /\ runs[r].at = "reading" /\ status.frames < MaxFrames
    /\ goto(r, "frame")
    /\ callersUnchanged /\ UNCHANGED <<status, drawtext>>

\* The frame has been published and recorded; the context is looked at again.
FrameDone(r) ==
    /\ runs[r].at = "frame"
    /\ goto(r, IF cancelled(r) THEN "waiting" ELSE "reading")
    /\ status' = [status EXCEPT !.frames = @ + 1, !.lastError = FALSE]
    /\ callersUnchanged /\ UNCHANGED drawtext

\* The stream ends with ffmpeg, or breaks off: a frame is too large.
ReadError(r) ==
    /\ runs[r].at = "reading"
    /\ goto(r, "waiting")
    /\ callersUnchanged /\ UNCHANGED <<status, drawtext>>

\* cmd.Wait
Wait(r) ==
    /\ runs[r].at = "waiting" /\ runs[r].process # "running"
    /\ goto(r, "ended")
    /\ callersUnchanged /\ UNCHANGED <<status, drawtext>>

Disconnect(r) ==
    /\ runs[r].at = "ended"
    /\ goto(r, "check")
    /\ status' = [status EXCEPT !.connecting = FALSE]
    /\ callersUnchanged /\ UNCHANGED drawtext

\* Is it stopped?  It may still be before the answer has had its effect.
Check(r) ==
    /\ runs[r].at = "check"
    /\ goto(r, IF cancelled(r) THEN "stopped" ELSE "failed")
    /\ callersUnchanged /\ UNCHANGED <<status, drawtext>>

\* Slip: a stopped run leaves the status to Stop.
EndedSilently(r) ==
    /\ runs[r].at = "stopped"
    /\ goto(r, "done")
    /\ callersUnchanged /\ UNCHANGED <<status, drawtext>>

Ended(r) ==
    /\ runs[r].at = "stopped"
    /\ goto(r, "done")
    /\ status' = [status EXCEPT !.running = FALSE]
    /\ callersUnchanged /\ UNCHANGED drawtext

Failed(r) ==
    /\ runs[r].at = "failed"
    /\ goto(r, "retry")
    /\ status' = [status EXCEPT !.running = FALSE, !.lastError = TRUE]
    /\ callersUnchanged /\ UNCHANGED drawtext

\* Slip: after a failure only the context is waited for.
RetryNever(r) ==
    /\ runs[r].at = "retry" /\ cancelled(r)
    /\ goto(r, "done")
    /\ callersUnchanged /\ UNCHANGED <<status, drawtext>>

\* The select: two seconds have passed, or the context is cancelled, or both.
Retry(r) ==
    /\ runs[r].at = "retry"
    /\ \/ goto(r, "connect")
       \/ cancelled(r) /\ goto(r, "done")
    /\ callersUnchanged /\ UNCHANGED <<status, drawtext>>

ffmpegEnds(r) ==
    /\ runs[r].process = "running"
    /\ runs' = [runs EXCEPT ![r].process = "none"]
    /\ callersUnchanged /\ UNCHANGED <<status, drawtext>>

Crash(r) == ~cancelled(r) /\ ffmpegEnds(r)

\* SIGTERM, and after four seconds SIGKILL.
Killed(r) == cancelled(r) /\ ffmpegEnds(r)

\* The goroutine's own steps, without those that exchange frames.
RunStep(r) ==
    \/ Connect(r) \/ Probe(r) \/ StartFails(r) \/ StartProcess(r)
    \/ ReadError(r) \/ Wait(r) \/ Disconnect(r)
    \/ Check(r) \/ Ended(r) \/ Failed(r) \/ Retry(r)

----------------------------------------------------------------------------

Step == {"connect", "probe", "start", "reading", "frame", "waiting", "ended", "check",
         "stopped", "failed", "retry", "done"}

CaptureTypeOK ==
    /\ root \in {"nil", "set"} /\ signalled \in BOOLEAN
    /\ current \in 0..Len(runs)
    /\ runs \in Seq([config : Config, at : Step, cancelled : BOOLEAN,
                     process : {"none", "running"}])
    /\ status \in [running : BOOLEAN, connecting : BOOLEAN, lastError : BOOLEAN,
                   warning : BOOLEAN, source : Config \cup {NoConfig}, frames : Nat]
    /\ drawtext \in {"unknown", "yes", "no"}
    /\ restartMu \subseteq Caller /\ Cardinality(restartMu) <= 1
    /\ calls \in [Caller -> [at : {"new", "idle", "queued", "waiting", "ended"},
                             op : {"none", "start", "reconfigure", "stop"},
                             config : Config \cup {NoConfig}, taken : 0..Len(runs)]]

Alive == {r \in RunId : runs[r].at # "done"}

\* There is one capture at most.  Unless a caller is about to replace it, it is
\* the one started last and the status names its source; and once Stop has
\* returned there is none, however late a handler asks for one
\* (capture.go:65-119; main.go:152).
CaptureIsExclusive ==
    /\ Cardinality(Alive) <= 1
    /\ \A r \in Alive :
        \/ r = current /\ status.source = runs[r].config
        \/ \E c \in restartMu : calls[c].taken = r
    /\ calls[Main].at = "ended" => Alive = {} /\ current = 0

\* The status is that of the capture there is: running from the start of its
\* ffmpeg until the end was noticed, connecting only before it; an error is not
\* shown together with a running capture (capture.go:101-105, 127-147, 174-178).
StatusIsTrue ==
    /\ status.running =>
          \E r \in Alive : runs[r].at \in {"reading", "frame", "waiting", "ended", "check",
                                        "stopped", "failed"}
    /\ status.connecting =>
          \E r \in Alive : runs[r].at \in {"probe", "start", "ended"}
    /\ ~(status.running /\ status.lastError)
    /\ calls[Main].at = "ended" => ~status.running /\ ~status.connecting

\* A call that restarts or stops the capture returns, whatever ffmpeg does; and
\* when ffmpeg has ended, or could not be started, the camera is tried again unless
\* the capture is stopped (README: "retries every two seconds"; capture.go:108-119, 127-147).
KeepsCapturing ==
    /\ \A c \in Caller : (calls[c].at = "queued") ~> (calls[c].at \in {"idle", "ended"})
    /\ \A r \in 1..MaxRuns :
          (r \in RunId /\ runs[r].at \notin {"probe", "start"} /\ runs[r].process = "none")
             ~> (r \in RunId /\ (runs[r].at = "probe" \/ cancelled(r)))
=============================================================================

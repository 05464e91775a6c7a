----------------------- MODULE CapturePipelineProofs -----------------------
(***************************************************************************)
(* Theorems about CapturePipeline, for every number of handlers, clients,  *)
(* captures and frames.  The steps of the whole are, for each of the three *)
(* components, one of its own actions or a stutter.                        *)
(***************************************************************************)
EXTENDS CapturePipeline, TLAPS, FiniteSetTheorems

\* The steps of the capture service, and of any one of its captures.
GoroutineStep(r) ==
    RunStep(r) \/ Crash(r) \/ Killed(r) \/ ReadFrame(r) \/ FrameDone(r)

CaptureStep ==
    \/ Start \/ Stop \/ Signal
    \/ \E h \in Handler, config \in Updated : Reconfigure(h, config)
    \/ \E c \in Caller : CallerStep(c)
    \/ \E r \in RunId : GoroutineStep(r)
    \/ UNCHANGED captureVars

LEMMA CapturePart == [Next]_vars => CaptureStep
  BY DEF Next, vars, captureOnly, hubOnly, Frame, Recorded, Monitor, CaptureStep,
         GoroutineStep

----------------------------------------------------------------------------
\* Types of the capture service.

Run == [config : Config, at : Step, cancelled : BOOLEAN, process : {"none", "running"}]
Status == [running : BOOLEAN, connecting : BOOLEAN, lastError : BOOLEAN,
           warning : BOOLEAN, source : Config \cup {NoConfig}, frames : Nat]
Op == {"none", "start", "reconfigure", "stop"}
Call(n) == [at : {"new", "idle", "queued", "waiting", "ended"}, op : Op,
            config : Config \cup {NoConfig}, taken : 0..n]

\* The type invariant, with what else is needed of the calls: restartMu is held by
\* the caller that waits, only main stops, and whoever starts names a configuration.
CallInv ==
    /\ root \in {"nil", "set"} /\ signalled \in BOOLEAN
    /\ current \in 0..Len(runs)
    /\ runs \in Seq(Run)
    /\ status \in Status
    /\ drawtext \in {"unknown", "yes", "no"}
    /\ calls \in [Caller -> Call(Len(runs))]
    /\ restartMu = {} \/ \E c \in Caller : restartMu = {c}
    /\ \A c \in Caller :
        /\ c \in restartMu <=> calls[c].at = "waiting"
        /\ calls[c].op = "stop" => c = Main
        /\ calls[c].op \in {"start", "reconfigure"} => calls[c].config \in Config
        /\ calls[c].at \in {"queued", "waiting"} => calls[c].op # "none"

LEMMA CallInvType == CallInv => CaptureTypeOK
<1> SUFFICES ASSUME CallInv PROVE CaptureTypeOK
  OBVIOUS
<1>1. Cardinality(restartMu) <= 1
  <2>1. CASE restartMu = {}
    BY <2>1, FS_EmptySet
  <2>2. ASSUME NEW c \in Caller, restartMu = {c}
        PROVE  Cardinality(restartMu) <= 1
    BY <2>2, FS_Singleton
  <2> QED BY <2>1, <2>2 DEF CallInv
<1>2. restartMu \subseteq Caller
  BY DEF CallInv
<1> QED BY <1>1, <1>2 DEF CallInv, CaptureTypeOK, Run, Status, Op, Call

LEMMA InitCallInv == CaptureInit => CallInv
<1> SUFFICES ASSUME CaptureInit PROVE CallInv
  OBVIOUS
<1>1. runs = <<>> /\ Len(runs) = 0 /\ runs \in Seq(Run)
  BY DEF CaptureInit
<1>2. status \in Status
  BY DEF CaptureInit, Status
<1>3. calls \in [Caller -> Call(Len(runs))]
  <2>1. \A c \in Caller : [NoCall EXCEPT !.at = IF c = Main THEN "new" ELSE "idle"] \in Call(0)
    BY DEF NoCall, Call, Op
  <2>2. calls = [c \in Caller |-> [NoCall EXCEPT !.at = IF c = Main THEN "new" ELSE "idle"]]
    BY DEF CaptureInit
  <2> QED BY <1>1, <2>1, <2>2
<1>4. \A c \in Caller : calls[c].at \in {"new", "idle"} /\ calls[c].op = "none"
  BY DEF CaptureInit, NoCall
<1>5. restartMu = {} /\ current = 0 /\ root = "nil" /\ signalled = FALSE /\ drawtext = "unknown"
  BY DEF CaptureInit
<1>6. \A c \in Caller :
        /\ c \in restartMu <=> calls[c].at = "waiting"
        /\ calls[c].op = "stop" => c = Main
        /\ calls[c].op \in {"start", "reconfigure"} => calls[c].config \in Config
        /\ calls[c].at \in {"queued", "waiting"} => calls[c].op # "none"
  BY <1>4, <1>5
<1>7. current \in 0..Len(runs)
  BY <1>1, <1>5
<1> QED BY <1>1, <1>2, <1>3, <1>5, <1>6, <1>7, Zenon DEF CallInv

\* A goroutine moves on; nothing else about the captures or the calls changes.
LEMMA RunMoves ==
  ASSUME CallInv, NEW r \in RunId, GoroutineStep(r)
  PROVE  /\ callersUnchanged
         /\ runs' \in Seq(Run) /\ Len(runs') = Len(runs)
         /\ \A q \in RunId : runs'[q].config = runs[q].config
                          /\ runs'[q].cancelled = runs[q].cancelled
         /\ \A q \in RunId \ {r} : runs'[q] = runs[q]
<1>1. callersUnchanged
  BY DEF GoroutineStep, RunStep, Connect, Probe, StartFails, StartProcess, ReadError, Wait,
         Disconnect, Check, Ended, Failed, Retry, Crash, Killed, ffmpegEnds, ReadFrame,
         FrameDone
<1>2. \/ \E step \in Step : goto(r, step)
      \/ runs' = [runs EXCEPT ![r].at = "reading", ![r].process = "running"]
      \/ runs' = [runs EXCEPT ![r].process = "none"]
  BY DEF GoroutineStep, RunStep, Connect, Probe, StartFails, StartProcess, ReadError, Wait,
         Disconnect, Check, Ended, Failed, Retry, Crash, Killed, ffmpegEnds, ReadFrame,
         FrameDone, Step
<1>3. runs \in Seq(Run) /\ r \in 1..Len(runs)
  BY DEF CallInv, RunId
<1>4. PICK run \in Run :
        /\ runs' = [runs EXCEPT ![r] = run]
        /\ run.config = runs[r].config /\ run.cancelled = runs[r].cancelled
  <2> DEFINE moved(step) == [runs[r] EXCEPT !.at = step]
             started == [runs[r] EXCEPT !.at = "reading", !.process = "running"]
             ended == [runs[r] EXCEPT !.process = "none"]
             Kept(run) == /\ run \in Run /\ run.config = runs[r].config
                          /\ run.cancelled = runs[r].cancelled
  <2>1. runs[r] \in Run
    BY <1>3
  <2>2. (\A step \in Step : Kept(moved(step))) /\ Kept(started) /\ Kept(ended)
    BY <2>1 DEF Run, Step
  <2>3. \/ \E step \in Step : runs' = [runs EXCEPT ![r] = moved(step)]
        \/ runs' = [runs EXCEPT ![r] = started]
        \/ runs' = [runs EXCEPT ![r] = ended]
    BY <1>2, <1>3 DEF goto
  <2> HIDE DEF moved, started, ended
  <2> QED BY <2>2, <2>3
<1> QED BY <1>1, <1>3, <1>4 DEF RunId

LEMMA RunCallInv ==
  ASSUME CallInv, NEW r \in RunId, GoroutineStep(r)
  PROVE  CallInv'
<1>1. status' \in Status
  <2>1. status \in Status
    BY DEF CallInv
  <2>2. CASE UNCHANGED status
    BY <2>1, <2>2
  <2>3. CASE Connect(r) \/ Disconnect(r)
    BY <2>1, <2>3 DEF Connect, Disconnect, Status
  <2>4. CASE Probe(r)
    <3>1. status' = [status EXCEPT !.warning = (drawtext' = "no")] /\ (drawtext' = "no") \in BOOLEAN
      BY <2>4 DEF Probe
    <3> QED BY <2>1, <3>1 DEF Status
  <2>5. CASE StartProcess(r)
    BY <2>1, <2>5 DEF StartProcess, Status
  <2>6. CASE FrameDone(r)
    <3>1. status.frames + 1 \in Nat
      BY <2>1 DEF Status
    <3>2. status' = [status EXCEPT !.frames = status.frames + 1, !.lastError = FALSE]
      BY <2>6 DEF FrameDone
    <3> QED BY <2>1, <3>1, <3>2 DEF Status
  <2>7. CASE Ended(r) \/ Failed(r)
    BY <2>1, <2>7 DEF Ended, Failed, Status
  <2> QED BY <2>2, <2>3, <2>4, <2>5, <2>6, <2>7
          DEF GoroutineStep, RunStep, StartFails, ReadError, Wait, Check, Retry, Crash,
              Killed, ffmpegEnds, ReadFrame
<1>2. drawtext' \in {"unknown", "yes", "no"}
  BY DEF GoroutineStep, RunStep, Connect, Probe, StartFails, StartProcess, ReadError, Wait,
         Disconnect, Check, Ended, Failed, Retry, Crash, Killed, ffmpegEnds, ReadFrame,
         FrameDone, CallInv
<1> QED BY <1>1, <1>2, RunMoves DEF CallInv, callersUnchanged

\* One caller moves on, while captures may be added.
LEMMA CallMoves ==
  ASSUME CallInv, NEW c \in Caller, NEW n \in Nat, n >= Len(runs), NEW call \in Call(n),
         calls' = [calls EXCEPT ![c] = call],
         call.op = "stop" => c = Main,
         call.op \in {"start", "reconfigure"} => call.config \in Config,
         call.at \in {"queued", "waiting"} => call.op # "none",
         \/ call.at = "waiting" /\ restartMu = {} /\ restartMu' = {c}
         \/ call.at # "waiting" /\ calls[c].at = "waiting" /\ restartMu' = {}
         \/ call.at # "waiting" /\ calls[c].at # "waiting" /\ restartMu' = restartMu
  PROVE  /\ calls' \in [Caller -> Call(n)]
         /\ restartMu' = {} \/ \E d \in Caller : restartMu' = {d}
         /\ calls'[c] = call /\ \A d \in Caller \ {c} : calls'[d] = calls[d]
         /\ \A d \in Caller :
                /\ d \in restartMu' <=> calls'[d].at = "waiting"
                /\ calls'[d].op = "stop" => d = Main
                /\ calls'[d].op \in {"start", "reconfigure"} => calls'[d].config \in Config
                /\ calls'[d].at \in {"queued", "waiting"} => calls'[d].op # "none"
<1>1. Call(Len(runs)) \subseteq Call(n)
  BY DEF Call, CallInv
<1>2. calls' \in [Caller -> Call(n)] /\ calls'[c] = call
      /\ \A d \in Caller \ {c} : calls'[d] = calls[d]
  BY <1>1 DEF CallInv
<1>3. \A d \in Caller : d \in restartMu' <=> calls'[d].at = "waiting"
  BY <1>2 DEF CallInv
<1>4. restartMu' = {} \/ \E d \in Caller : restartMu' = {d}
  BY DEF CallInv
<1> QED BY <1>2, <1>3, <1>4 DEF CallInv

\* Cancelling a run leaves everything else about the runs alone.
LEMMA StopRuns ==
  ASSUME CallInv, NEW c \in Caller, stopCurrent(c)
  PROVE  /\ runs' \in Seq(Run) /\ Len(runs') = Len(runs)
         /\ \A r \in RunId : runs'[r].at = runs[r].at /\ runs'[r].config = runs[r].config
<1> DEFINE run(r) == [runs[r] EXCEPT !.cancelled = @ \/ r = current]
<1>1. runs \in Seq(Run) /\ runs' = [r \in 1..Len(runs) |-> run(r)]
  BY DEF CallInv, stopCurrent, RunId
<1>2. ASSUME NEW r \in 1..Len(runs)
      PROVE  run(r) \in Run /\ run(r).at = runs[r].at /\ run(r).config = runs[r].config
  <2>1. runs[r] \in Run /\ (runs[r].cancelled \/ r = current) \in BOOLEAN
    BY <1>1
  <2> QED BY <2>1 DEF Run
<1> HIDE DEF run
<1> QED BY <1>1, <1>2 DEF RunId

\* Start, Reconfigure, Stop and their steps, a signal and the goroutines keep the
\* types and the rules of restartMu (capture.go:45-119).
LEMMA NextCallInv == CallInv /\ CaptureStep => CallInv'
<1> SUFFICES ASSUME CallInv, CaptureStep PROVE CallInv'
  OBVIOUS
<1>1. runs \in Seq(Run) /\ Len(runs) \in Nat /\ current \in 0..Len(runs)
  BY DEF CallInv
<1>2. \A n \in Nat, at \in {"idle", "ended"} : [NoCall EXCEPT !.at = at] \in Call(n)
  BY DEF NoCall, Call, Op
<1>3. \A op \in Op, config \in Config \cup {NoConfig} :
        /\ queued(op, config) \in Call(Len(runs))
        /\ queued(op, config).at = "queued" /\ queued(op, config).op = op
        /\ queued(op, config).config = config
  <2> SUFFICES ASSUME NEW op \in Op, NEW config \in Config \cup {NoConfig}
               PROVE  LET call == queued(op, config)
                      IN  /\ call \in Call(Len(runs)) /\ call.at = "queued"
                          /\ call.op = op /\ call.config = config
    OBVIOUS
  <2>1. NoCall \in Call(Len(runs))
    BY <1>1 DEF NoCall, Call, Op
  <2> QED BY <2>1 DEF queued, Call
<1>4. ASSUME NEW c \in Caller, NEW op \in Op \ {"none"}, NEW config \in Config \cup {NoConfig},
             calls[c].at # "waiting", calls' = [calls EXCEPT ![c] = queued(op, config)],
             op = "stop" => c = Main, op # "stop" => config \in Config,
             root' \in {"nil", "set"},
             UNCHANGED <<signalled, current, runs, status, drawtext, restartMu>>
      PROVE  CallInv'
  BY <1>1, <1>3, <1>4, CallMoves DEF CallInv
<1>5. CASE Start
  BY <1>4, <1>5 DEF Start, Caller, Op, Config
<1>6. CASE Stop
  BY <1>4, <1>6 DEF Stop, Caller, Op, CallInv
<1>7. ASSUME NEW h \in Handler, NEW config \in Updated, Reconfigure(h, config)
      PROVE  CallInv'
  BY <1>4, <1>7 DEF Reconfigure, Caller, Op, Config, CallInv
<1>8. ASSUME NEW c \in Caller, stopCurrent(c)
      PROVE  CallInv'
  <2> DEFINE call == [calls[c] EXCEPT !.at = "waiting", !.taken = current]
  <2>1. calls[c] \in Call(Len(runs))
    BY DEF CallInv
  <2>2. call \in Call(Len(runs)) /\ call.at = "waiting" /\ call.op = calls[c].op
        /\ call.config = calls[c].config
    BY <1>1, <2>1 DEF Call
  <2>3. calls' = [calls EXCEPT ![c] = call]
    BY <1>8 DEF stopCurrent
  <2>4. runs' \in Seq(Run) /\ Len(runs') = Len(runs)
    BY <1>8, StopRuns
  <2>5. restartMu = {} /\ restartMu' = {c} /\ current' = 0
        /\ UNCHANGED <<root, signalled, status, drawtext>> /\ calls[c].at = "queued"
    BY <1>8 DEF stopCurrent, lock
  <2> HIDE DEF call
  <2> QED BY <1>1, <2>2, <2>3, <2>4, <2>5, CallMoves DEF CallInv
<1>9. ASSUME NEW c \in Caller, startCurrent(c)
      PROVE  CallInv'
  <2>1. calls[c].config \in Config
    BY <1>9 DEF startCurrent, done, CallInv, Call, Op
  <2>2. NewRun(calls[c].config) \in Run
    BY <2>1 DEF NewRun, Run, Step
  <2>3. runs' \in Seq(Run) /\ Len(runs') = Len(runs) + 1 /\ current' = Len(runs')
    BY <1>1, <1>9, <2>2 DEF startCurrent
  <2>4. status' \in Status
    BY <1>9, <2>1 DEF startCurrent, Status, CallInv
  <2> DEFINE call == [NoCall EXCEPT !.at = "idle"]
  <2>5. call \in Call(Len(runs) + 1) /\ call.at = "idle" /\ call.op = "none"
    BY <1>1, <1>2 DEF NoCall
  <2>6. calls' = [calls EXCEPT ![c] = call] /\ restartMu' = {} /\ calls[c].at = "waiting"
        /\ UNCHANGED <<root, signalled, drawtext>>
    BY <1>9 DEF startCurrent, done, return
  <2> HIDE DEF call
  <2> DEFINE n == Len(runs) + 1
  <2>7. n \in Nat /\ n >= Len(runs) /\ n = Len(runs')
    BY <1>1, <2>3
  <2>8. call \in Call(n) /\ call.at = "idle" /\ call.op = "none"
    BY <2>5
  <2> HIDE DEF n
  <2>9. /\ calls' \in [Caller -> Call(n)]
        /\ \A d \in Caller :
                /\ d \in restartMu' <=> calls'[d].at = "waiting"
                /\ calls'[d].op = "stop" => d = Main
                /\ calls'[d].op \in {"start", "reconfigure"} => calls'[d].config \in Config
                /\ calls'[d].at \in {"queued", "waiting"} => calls'[d].op # "none"
    BY <2>8, <2>6, <2>7, CallMoves
  <2>10. current' \in 0..Len(runs')
    BY <1>1, <2>3
  <2> QED BY <2>3, <2>4, <2>6, <2>9, <2>10, <2>7 DEF CallInv
<1>10. ASSUME NEW c \in Caller, startRefused(c)
       PROVE  CallInv'
  BY <1>1, <1>2, <1>10, CallMoves DEF startRefused, done, return, NoCall, CallInv
<1>11. ASSUME NEW c \in Caller, StopDone(c)
       PROVE  CallInv'
  <2>1. status' \in Status
    BY <1>11 DEF StopDone, Status, CallInv
  <2> QED BY <1>1, <1>2, <1>11, <2>1, CallMoves DEF StopDone, done, return, NoCall, CallInv
<1>12. CASE Signal
  BY <1>12 DEF Signal, CallInv
<1>13. CASE UNCHANGED captureVars
  BY <1>13 DEF captureVars, CallInv
<1> QED BY <1>5, <1>6, <1>7, <1>8, <1>9, <1>10, <1>11, <1>12, <1>13, RunCallInv
        DEF CaptureStep, CallerStep

----------------------------------------------------------------------------
\* One capture.

\* A run that is not over is the current one, or the caller with restartMu has taken it
\* and waits for its end.
ExclusiveInv ==
    /\ restartMu # {} => current = 0
    /\ \A r \in Alive : r = current \/ \E c \in restartMu : calls[c].taken = r
    /\ current # 0 => status.source = runs[current].config
    /\ calls[Main].at = "ended" => root = "nil" /\ Alive = {} /\ current = 0

LEMMA OneAlive ==
  ASSUME CallInv, ExclusiveInv
  PROVE  \A q, r \in Alive : q = r
<1>1. \A r \in Alive : r # 0
  BY DEF Alive, RunId
<1>2. CASE restartMu = {}
  BY <1>2 DEF ExclusiveInv
<1>3. ASSUME NEW c \in Caller, restartMu = {c} PROVE \A q, r \in Alive : q = r
  BY <1>1, <1>3 DEF ExclusiveInv
<1> QED BY <1>2, <1>3 DEF CallInv

LEMMA InitExclusiveInv == CaptureInit => ExclusiveInv
<1> SUFFICES ASSUME CaptureInit PROVE ExclusiveInv
  OBVIOUS
<1>1. Alive = {} /\ restartMu = {} /\ current = 0
  BY DEF CaptureInit, Alive, RunId
<1>2. calls[Main].at = "new"
  BY DEF CaptureInit, NoCall, Caller
<1> QED BY <1>1, <1>2 DEF ExclusiveInv

LEMMA RunExclusiveInv ==
  ASSUME CallInv, ExclusiveInv, NEW r \in RunId, GoroutineStep(r)
  PROVE  ExclusiveInv'
<1>1. Alive' \subseteq Alive
  <2>1. ASSUME Crash(r) \/ Killed(r) PROVE runs'[r].at = runs[r].at
    <3>1. runs' = [runs EXCEPT ![r] = [runs[r] EXCEPT !.process = "none"]]
      BY <2>1 DEF Crash, Killed, ffmpegEnds
    <3>2. r \in DOMAIN runs /\ runs[r] \in Run
      BY DEF CallInv, RunId
    <3> QED BY <3>1, <3>2 DEF Run
  <2>2. ASSUME ~(Crash(r) \/ Killed(r)) PROVE runs[r].at # "done"
    BY <2>2 DEF GoroutineStep, RunStep, Connect, Probe, StartFails, StartProcess, ReadError,
                Wait, Disconnect, Check, Ended, Failed, Retry, ReadFrame, FrameDone
  <2>3. runs[r].at = "done" => runs'[r].at = "done"
    BY <2>1, <2>2
  <2> QED BY <2>3, RunMoves DEF Alive, RunId
<1>2. status'.source = status.source
  BY DEF GoroutineStep, RunStep, Connect, Probe, StartFails, StartProcess, ReadError, Wait,
         Disconnect, Check, Ended, Failed, Retry, Crash, Killed, ffmpegEnds, ReadFrame,
         FrameDone, CallInv, Status
<1>3. current # 0 => current \in RunId
  BY DEF CallInv, RunId
<1> QED BY <1>1, <1>2, <1>3, RunMoves DEF ExclusiveInv, callersUnchanged

\* A caller takes the current run, waits for its end and only then starts the next one;
\* after Stop has returned nobody may start one (capture.go:65-119).
LEMMA NextExclusiveInv == CallInv /\ ExclusiveInv /\ CaptureStep => ExclusiveInv'
<1> SUFFICES ASSUME CallInv, ExclusiveInv, CaptureStep PROVE ExclusiveInv'
  OBVIOUS
<1>1. runs \in Seq(Run) /\ Len(runs) \in Nat /\ current \in 0..Len(runs)
      /\ calls \in [Caller -> Call(Len(runs))] /\ Main \in Caller
  BY DEF CallInv, Caller
<1>2. ASSUME NEW c \in Caller, NEW call, calls' = [calls EXCEPT ![c] = call],
             call.at \notin {"waiting", "ended"}, calls[c].at # "waiting",
             UNCHANGED <<current, runs, status, restartMu>>,
             root' = root \/ (calls[Main].at # "ended" /\ calls'[Main].at # "ended")
      PROVE  ExclusiveInv'
  <2>1. Alive' = Alive /\ c \notin restartMu /\ \A d \in restartMu : calls'[d] = calls[d]
    BY <1>1, <1>2 DEF Alive, RunId, CallInv
  <2>2. calls'[Main].at = "ended" => calls[Main].at = "ended"
    BY <1>1, <1>2
  <2> QED BY <1>2, <2>1, <2>2 DEF ExclusiveInv
<1>3. CASE Start
  <2>1. Main \in Caller /\ queued("start", Loaded).at = "queued"
    BY DEF Caller, queued, NoCall
  <2>2. calls[Main].at = "new" /\ calls'[Main].at = "queued"
    BY <1>1, <1>3, <2>1 DEF Start
  <2> QED BY <1>2, <1>3, <2>1, <2>2 DEF Start
<1>4. CASE Stop
  <2>1. queued("stop", NoConfig).at = "queued"
    BY DEF queued, NoCall
  <2> QED BY <1>1, <1>2, <1>4, <2>1 DEF Stop
<1>5. ASSUME NEW h \in Handler, NEW config \in Updated, Reconfigure(h, config)
      PROVE  ExclusiveInv'
  <2>1. queued("reconfigure", config).at = "queued"
    BY DEF queued, NoCall
  <2>2. h \in Caller /\ calls[h].at # "waiting" /\ root' = root
    BY <1>5 DEF Reconfigure, Caller
  <2> DEFINE call == queued("reconfigure", config)
  <2>3. /\ calls' = [calls EXCEPT ![h] = call]
        /\ UNCHANGED <<current, runs, status, restartMu>>
    BY <1>5 DEF Reconfigure
  <2> HIDE DEF call
  <2>4. call.at = "queued"
    BY <2>1 DEF call
  <2> QED BY <1>2, <2>2, <2>3, <2>4
<1>6. ASSUME NEW c \in Caller, stopCurrent(c)
      PROVE  ExclusiveInv'
  <2>1. restartMu = {} /\ restartMu' = {c} /\ current' = 0 /\ UNCHANGED <<root, status>>
        /\ calls'[c].taken = current /\ calls'[c].at = "waiting"
        /\ \A d \in Caller \ {c} : calls'[d] = calls[d]
    BY <1>1, <1>6 DEF stopCurrent, lock, Call
  <2>2. Len(runs') = Len(runs) /\ \A r \in RunId : runs'[r].at = runs[r].at
    BY <1>6, StopRuns
  <2>3. Alive' = Alive
    BY <2>2 DEF Alive, RunId
  <2> QED BY <1>1, <2>1, <2>3 DEF ExclusiveInv
<1>7. ASSUME NEW c \in Caller, done(c), restartMu' = {}, NEW at \in {"idle", "ended"},
             calls' = [calls EXCEPT ![c] = [NoCall EXCEPT !.at = at]]
      PROVE  /\ Alive = {} /\ current = 0
             /\ calls'[Main].at = "ended" => calls[Main].at = "ended" \/ at = "ended"
  <2>1. restartMu = {c}
    BY <1>7 DEF done, CallInv
  <2>2. \A r \in Alive : r # 0 /\ runs[r].at # "done"
    BY DEF Alive, RunId
  <2>3. Alive = {} /\ current = 0
    BY <1>7, <2>1, <2>2 DEF done, ExclusiveInv
  <2> QED BY <1>1, <1>7, <2>3 DEF NoCall
<1>8. ASSUME NEW c \in Caller, startCurrent(c)
      PROVE  ExclusiveInv'
  <2>1. Alive = {} /\ (calls'[Main].at = "ended" => calls[Main].at = "ended")
    BY <1>7, <1>8 DEF startCurrent, return
  <2>2. calls[Main].at # "ended"
    BY <1>8 DEF startCurrent, mayStart, ExclusiveInv
  <2>3. /\ Len(runs') = Len(runs) + 1 /\ current' = Len(runs) + 1
        /\ runs'[current'].config = calls[c].config
        /\ \A r \in 1..Len(runs) : runs'[r] = runs[r]
    BY <1>1, <1>8 DEF startCurrent, NewRun
  <2>4. Alive' \subseteq {current'}
    BY <1>1, <2>1, <2>3 DEF Alive, RunId
  <2>5. restartMu' = {} /\ status'.source = calls[c].config
    BY <1>8 DEF startCurrent, return, CallInv, Status
  <2> QED BY <2>1, <2>2, <2>3, <2>4, <2>5 DEF ExclusiveInv
<1>9. ASSUME NEW c \in Caller, startRefused(c)
      PROVE  ExclusiveInv'
  <2>1. Alive = {} /\ current = 0 /\ (calls'[Main].at = "ended" => calls[Main].at = "ended")
    BY <1>7, <1>9 DEF startRefused, return
  <2>2. Alive' = Alive /\ restartMu' = {} /\ current' = current /\ root' = root
    BY <1>9 DEF startRefused, return, Alive, RunId
  <2> QED BY <2>1, <2>2 DEF ExclusiveInv
<1>10. ASSUME NEW c \in Caller, StopDone(c)
       PROVE  ExclusiveInv'
  <2>1. Alive = {} /\ current = 0
    BY <1>7, <1>10 DEF StopDone, return
  <2>2. Alive' = Alive /\ restartMu' = {} /\ current' = current /\ root' = "nil"
    BY <1>10 DEF StopDone, return, Alive, RunId
  <2> QED BY <2>1, <2>2 DEF ExclusiveInv
<1>11. CASE Signal \/ UNCHANGED captureVars
  <2>1. UNCHANGED <<root, current, runs, status, restartMu, calls>>
    BY <1>11 DEF Signal, captureVars
  <2> QED BY <2>1 DEF ExclusiveInv, Alive, RunId
<1> QED BY <1>3, <1>4, <1>5, <1>6, <1>8, <1>9, <1>10, <1>11, RunExclusiveInv
        DEF CaptureStep, CallerStep

LEMMA CaptureInvHolds == Spec => [](CallInv /\ ExclusiveInv)
<1>1. Init => CallInv /\ ExclusiveInv
  BY InitCallInv, InitExclusiveInv DEF Init
<1>2. CallInv /\ ExclusiveInv /\ [Next]_vars => CallInv' /\ ExclusiveInv'
  BY CapturePart, NextCallInv, NextExclusiveInv
<1> QED BY <1>1, <1>2, PTL DEF Spec

\* However many handlers ask for a new capture, at whatever moment of the shutdown:
\* there is one at most, with the source the status names, and none once Stop has
\* returned (capture.go:65-119; main.go:152).
THEOREM CaptureStaysExclusive == Spec => []CaptureIsExclusive
<1>1. CallInv /\ ExclusiveInv => CaptureIsExclusive
  <2> SUFFICES ASSUME CallInv, ExclusiveInv PROVE CaptureIsExclusive
    OBVIOUS
  <2>1. Cardinality(Alive) <= 1
    <3>1. CASE Alive = {}
      BY <3>1, FS_EmptySet
    <3>2. ASSUME NEW r \in Alive PROVE Cardinality(Alive) <= 1
      <4>1. Alive = {r}
        BY <3>2, OneAlive
      <4> QED BY <4>1, FS_Singleton
    <3> QED BY <3>1, <3>2
  <2>2. \A r \in Alive : r = current => status.source = runs[r].config
    BY DEF ExclusiveInv, Alive, RunId
  <2> QED BY <2>1, <2>2 DEF ExclusiveInv, CaptureIsExclusive
<1> QED BY <1>1, CaptureInvHolds, PTL

----------------------------------------------------------------------------
\* The status.

RunningAt == {"reading", "frame", "waiting", "ended", "check", "stopped", "failed"}
ConnectingAt == {"probe", "start", "ended"}

StatusInv ==
    /\ status.running => \E r \in Alive : runs[r].at \in RunningAt
    /\ status.connecting => \E r \in Alive : runs[r].at \in ConnectingAt
    /\ ~(status.running /\ status.lastError)

LEMMA GotoMoves ==
  ASSUME CallInv, NEW r \in RunId, NEW step \in Step, goto(r, step)
  PROVE  runs'[r].at = step
<1>1. r \in DOMAIN runs /\ runs[r] \in Run /\ runs' = [runs EXCEPT ![r] = [runs[r] EXCEPT !.at = step]]
  BY DEF CallInv, RunId, goto
<1> QED BY <1>1 DEF Run

\* The goroutine of the one capture writes the status as it moves (capture.go:127-147,
\* 160-214).
LEMMA RunStatusInv ==
  ASSUME CallInv, ExclusiveInv, StatusInv, NEW r \in RunId, GoroutineStep(r)
  PROVE  StatusInv'
<1>0. r \in DOMAIN runs /\ runs[r] \in Run
  BY DEF CallInv, RunId
<1>1. status \in Status /\ status' \in Status
  BY RunCallInv DEF CallInv
<1>2. ASSUME Crash(r) \/ Killed(r) PROVE StatusInv'
  <2>1. runs' = [runs EXCEPT ![r] = [runs[r] EXCEPT !.process = "none"]] /\ status' = status
    BY <1>2 DEF Crash, Killed, ffmpegEnds
  <2>2. r \in DOMAIN runs /\ runs[r] \in Run
    BY DEF CallInv, RunId
  <2>3. \A q \in RunId : runs'[q].at = runs[q].at
    BY <2>1, <2>2, RunMoves DEF Run
  <2> QED BY <2>1, <2>3, RunMoves DEF StatusInv, Alive, RunId
<1>3. ASSUME ~(Crash(r) \/ Killed(r)) PROVE StatusInv'
  <2>1. r \in Alive
    BY <1>3 DEF Alive, GoroutineStep, RunStep, Connect, Probe, StartFails, StartProcess,
            ReadError, Wait, Disconnect, Check, Ended, Failed, Retry, ReadFrame, FrameDone
  <2>2. /\ status.running => runs[r].at \in RunningAt
        /\ status.connecting => runs[r].at \in ConnectingAt
        /\ ~(status.running /\ status.lastError)
    BY <2>1, OneAlive DEF StatusInv
  <2> DEFINE Told == /\ status'.running => runs'[r].at \in RunningAt
                     /\ status'.connecting => runs'[r].at \in ConnectingAt
                     /\ ~(status'.running /\ status'.lastError)
  <2> USE DEF RunningAt, ConnectingAt, Step
  <2>3. ASSUME Connect(r) PROVE Told
    <3>1. runs'[r].at = "probe"
      BY <2>3, GotoMoves DEF Connect
    <3> QED BY <1>1, <2>2, <2>3, <3>1 DEF Connect, Status
  <2>4. ASSUME Probe(r) PROVE Told
    <3>1. runs'[r].at = "start"
      BY <2>4, GotoMoves DEF Probe
    <3> QED BY <1>1, <2>2, <2>4, <3>1 DEF Probe, Status
  <2>5. ASSUME StartFails(r) PROVE Told
    <3>1. runs'[r].at = "ended"
      BY <2>5, GotoMoves DEF StartFails
    <3> QED BY <1>1, <2>2, <2>5, <3>1 DEF StartFails, Status
  <2>6. ASSUME StartProcess(r) PROVE Told
    <3>1. runs' = [runs EXCEPT ![r] = [runs[r] EXCEPT !.at = "reading", !.process = "running"]]
      BY <1>0, <2>6 DEF StartProcess
    <3>2. runs'[r].at = "reading"
      BY <1>0, <3>1 DEF Run
    <3> QED BY <1>1, <2>2, <2>6, <3>2 DEF StartProcess, Status
  <2>7. ASSUME ReadFrame(r) PROVE Told
    <3>1. runs'[r].at = "frame"
      BY <2>7, GotoMoves DEF ReadFrame
    <3> QED BY <1>1, <2>2, <2>7, <3>1 DEF ReadFrame, Status
  <2>8. ASSUME FrameDone(r) PROVE Told
    <3>1. runs'[r].at \in {"waiting", "reading"}
      BY <2>8, GotoMoves DEF FrameDone
    <3> QED BY <1>1, <2>2, <2>8, <3>1 DEF FrameDone, Status
  <2>9. ASSUME ReadError(r) PROVE Told
    <3>1. runs'[r].at = "waiting"
      BY <2>9, GotoMoves DEF ReadError
    <3> QED BY <1>1, <2>2, <2>9, <3>1 DEF ReadError, Status
  <2>10. ASSUME Wait(r) PROVE Told
    <3>1. runs'[r].at = "ended"
      BY <2>10, GotoMoves DEF Wait
    <3> QED BY <1>1, <2>2, <2>10, <3>1 DEF Wait, Status
  <2>11. ASSUME Disconnect(r) PROVE Told
    <3>1. runs'[r].at = "check"
      BY <2>11, GotoMoves DEF Disconnect
    <3> QED BY <1>1, <2>2, <2>11, <3>1 DEF Disconnect, Status
  <2>12. ASSUME Check(r) PROVE Told
    <3>1. runs'[r].at \in {"stopped", "failed"}
      BY <2>12, GotoMoves DEF Check
    <3> QED BY <1>1, <2>2, <2>12, <3>1 DEF Check, Status
  <2>13. ASSUME Ended(r) PROVE Told
    <3>1. runs'[r].at = "done"
      BY <2>13, GotoMoves DEF Ended
    <3> QED BY <1>1, <2>2, <2>13, <3>1 DEF Ended, Status
  <2>14. ASSUME Failed(r) PROVE Told
    <3>1. runs'[r].at = "retry"
      BY <2>14, GotoMoves DEF Failed
    <3> QED BY <1>1, <2>2, <2>14, <3>1 DEF Failed, Status
  <2>15. ASSUME Retry(r) PROVE Told
    <3>1. runs'[r].at \in {"connect", "done"}
      BY <2>15, GotoMoves DEF Retry
    <3> QED BY <1>1, <2>2, <2>15, <3>1 DEF Retry, Status
  <2>16. Told
    BY <1>3, <2>3, <2>4, <2>5, <2>6, <2>7, <2>8, <2>9, <2>10, <2>11,
       <2>12, <2>13, <2>14, <2>15 DEF GoroutineStep, RunStep
  <2>17. runs'[r].at # "done" => r \in Alive'
    BY RunMoves DEF Alive, RunId
  <2> QED BY <2>16, <2>17 DEF StatusInv
<1> QED BY <1>2, <1>3

LEMMA NextStatusInv ==
  CallInv /\ ExclusiveInv /\ StatusInv /\ CaptureStep => StatusInv'
<1> SUFFICES ASSUME CallInv, ExclusiveInv, StatusInv, CaptureStep PROVE StatusInv'
  OBVIOUS
<1>1. status \in Status
  BY DEF CallInv
<1>2. ASSUME UNCHANGED <<runs, status>> PROVE StatusInv'
  BY <1>2 DEF StatusInv, Alive, RunId
<1>3. ASSUME NEW c \in Caller, stopCurrent(c) PROVE StatusInv'
  <2>1. status' = status /\ Len(runs') = Len(runs) /\ \A r \in RunId : runs'[r].at = runs[r].at
    BY <1>3, StopRuns DEF stopCurrent
  <2> QED BY <2>1 DEF StatusInv, Alive, RunId
<1>4. ASSUME NEW c \in Caller, startCurrent(c) \/ StopDone(c) PROVE StatusInv'
  <2>1. restartMu = {c} /\ (calls[c].taken # 0 => runs[calls[c].taken].at = "done") /\ current = 0
    BY <1>4 DEF startCurrent, StopDone, done, CallInv, ExclusiveInv
  <2>2. Alive = {}
    BY <2>1 DEF ExclusiveInv, Alive, RunId
  <2>3. ~status.running /\ ~status.connecting
    BY <2>2 DEF StatusInv
  <2>4. ~status'.running /\ ~status'.connecting
    BY <1>1, <1>4, <2>3 DEF startCurrent, StopDone, Status
  <2> QED BY <2>4 DEF StatusInv
<1>5. CASE \E r \in RunId : GoroutineStep(r)
  BY <1>5, RunStatusInv
<1> QED BY <1>2, <1>3, <1>4, <1>5
        DEF CaptureStep, CallerStep, Start, Stop, Signal, Reconfigure, startRefused, captureVars

\* The status is never that of a capture that is gone, in whatever order its goroutine,
\* the handlers and the shutdown write it (capture.go:101-105, 127-147, 174-178).
THEOREM StatusStaysTrue == Spec => []StatusIsTrue
<1>1. Init => StatusInv
  BY DEF Init, CaptureInit, StatusInv
<1>2. Spec => []StatusInv
  BY <1>1, CaptureInvHolds, CapturePart, NextStatusInv, PTL DEF Spec
<1>3. ExclusiveInv /\ StatusInv => StatusIsTrue
  BY DEF ExclusiveInv, StatusInv, StatusIsTrue, RunningAt, ConnectingAt
<1> QED BY <1>2, <1>3, CaptureInvHolds, PTL

----------------------------------------------------------------------------
\* Frames for the preview clients.

\* The client has the frame: it waits in the channel, after an older one, or is shown.
Has(c, frame) ==
    \/ channel[c] = frame /\ shown[c] < frame
    \/ channel[c] = Nothing /\ shown[c] = frame

\* Publish has thrown the client's old frame away and not offered the new one yet.
Drained(c) == c \in publish.full /\ publish.drained

Publication == [frame : Nat, to : SUBSET Client, full : SUBSET Client, drained : BOOLEAN]

HubState ==
    /\ subscribers \subseteq Client /\ newest \in Nat
    /\ channel \in [Client -> Nat] /\ shown \in [Client -> Nat]
    /\ publish \in Publication
    /\ handler \in [Client -> Stage]

\* A client that Publish has dealt with has the new frame, the others have the last one.
HubInv ==
    /\ HubState
    /\ newest = status.frames
    /\ publishing <=> publish.frame # Nothing
    /\ publishing => publish.frame = newest + 1
    /\ publish.to \subseteq subscribers
    /\ publish.full = {} \/ \E c \in publish.to : publish.full = {c}
    /\ publish.drained => publish.full # {}
    /\ ~publishing => publish.to = {}
    /\ \A c \in Client :
        /\ c \in subscribers <=> handler[c] # "away"
        /\ c \notin subscribers => channel[c] = Nothing
        /\ c \in subscribers =>
              /\ ~publishing => Has(c, newest)
              /\ c \in publish.to /\ ~Drained(c) => Has(c, newest)
              /\ Drained(c) => channel[c] = Nothing /\ shown[c] <= newest
              /\ publishing /\ c \notin publish.to => Has(c, publish.frame)

LEMMA InitHubInv == Init => HubInv
<1> SUFFICES ASSUME Init PROVE HubInv
  OBVIOUS
<1>1. Quiet \in Publication /\ Quiet.frame = Nothing /\ Quiet.to = {} /\ Quiet.full = {}
      /\ Quiet.drained = FALSE
  BY DEF Quiet, Publication, Nothing
<1>2. status.frames = 0 /\ publish = Quiet /\ subscribers = {} /\ newest = 0
      /\ channel = [c \in Client |-> 0] /\ handler = [c \in Client |-> "away"]
      /\ shown = [c \in Client |-> 0]
  BY DEF Init, CaptureInit, HubInit, Nothing
<1> QED BY <1>1, <1>2 DEF HubInv, HubState, publishing, Stage, Nothing

\* Nothing but a frame that was recorded changes the count (capture.go:190-196).
LEMMA FramesCounted ==
  ASSUME CallInv,
         \/ Start \/ Stop \/ Signal
         \/ \E h \in Handler, config \in Updated : Reconfigure(h, config)
         \/ \E c \in Caller : CallerStep(c)
         \/ \E r \in RunId : RunStep(r) \/ Crash(r) \/ Killed(r) \/ ReadFrame(r)
  PROVE  status'.frames = status.frames
<1>1. status \in Status
  BY DEF CallInv
<1>2. ASSUME NEW c \in Caller, CallerStep(c) PROVE status'.frames = status.frames
  BY <1>1, <1>2 DEF CallerStep, stopCurrent, startCurrent, startRefused, StopDone, Status
<1>3. ASSUME NEW r \in RunId, RunStep(r) \/ Crash(r) \/ Killed(r) \/ ReadFrame(r)
      PROVE  status'.frames = status.frames
  BY <1>1, <1>3
  DEF RunStep, Connect, Probe, StartFails, StartProcess, ReadError, Wait, Disconnect, Check,
      Ended, Failed, Retry, Crash, Killed, ffmpegEnds, ReadFrame, Status
<1> QED BY <1>2, <1>3 DEF Start, Stop, Signal, Reconfigure

LEMMA BeginHubInv ==
  ASSUME HubInv, ~publishing, BeginPublish(newest + 1), status'.frames = status.frames
  PROVE  HubInv'
<1>1. publish' = [frame |-> newest + 1, to |-> subscribers, full |-> {}, drained |-> FALSE]
  BY DEF BeginPublish, Quiet
<1>2. newest \in Nat /\ newest + 1 # 0
  BY DEF HubInv, HubState
<1>3. publishing' /\ publish'.frame = newest + 1 /\ publish' \in Publication
  BY <1>1, <1>2 DEF publishing, Quiet, Publication, HubInv, HubState, Nothing
<1>4. UNCHANGED <<subscribers, channel, handler, shown, newest>>
  BY DEF BeginPublish
<1> QED BY <1>1, <1>2, <1>3, <1>4 DEF HubInv, HubState, Has, Drained, Nothing

LEMMA EndHubInv ==
  ASSUME HubInv, EndPublish, status'.frames = status.frames + 1
  PROVE  HubInv'
<1>1. publish' = [frame |-> 0, to |-> {}, full |-> {}, drained |-> FALSE] /\ ~publishing'
  BY DEF EndPublish, Quiet, publishing, Nothing
<1>2. publishing /\ publish.to = {} /\ newest' = newest + 1 /\ newest' = publish.frame
      /\ UNCHANGED <<subscribers, channel, handler, shown>>
  BY DEF EndPublish, HubInv
<1>3. publish' \in Publication
  BY <1>1 DEF Publication
<1> QED BY <1>1, <1>2, <1>3 DEF HubInv, HubState, Has, Drained, Nothing

\* What HubInv says of one client.
Served(c) ==
    /\ c \in subscribers <=> handler[c] # "away"
    /\ c \notin subscribers => channel[c] = Nothing
    /\ c \in subscribers =>
          /\ ~publishing => Has(c, newest)
          /\ c \in publish.to /\ ~Drained(c) => Has(c, newest)
          /\ Drained(c) => channel[c] = Nothing /\ shown[c] <= newest
          /\ publishing /\ c \notin publish.to => Has(c, publish.frame)

\* The three selects of Publish, with receivers between any two of them (hub.go:33-46).
LEMMA PublishHubInv ==
  ASSUME HubInv, NEW c \in Client, Offer(c) \/ Drain(c) \/ OfferAgain(c),
         status'.frames = status.frames
  PROVE  HubInv'
<1>1. /\ c \in publish.to /\ c \in subscribers /\ publishing
      /\ publish.frame = newest + 1 /\ newest \in Nat /\ publish \in Publication
      /\ channel \in [Client -> Nat] /\ shown \in [Client -> Nat]
      /\ publish.full = {} \/ publish.full = {c}
      /\ publish.drained => publish.full = {c}
      /\ UNCHANGED <<subscribers, handler, shown, newest>>
  BY DEF Offer, Drain, OfferAgain, HubInv, HubState
<1>2. /\ publish' \in Publication /\ publish'.frame = publish.frame
      /\ publish'.to \in {publish.to, publish.to \ {c}} /\ publish'.full \in {{}, {c}}
      /\ c \notin publish'.to => publish'.full = {}
      /\ publish'.drained => publish'.full # {}
  <2>1. CASE Offer(c)
    <3>1. \/ publish' = [publish EXCEPT !.to = publish.to \ {c}] /\ publish.full = {}
          \/ publish' = [publish EXCEPT !.full = {c}]
      BY <2>1 DEF Offer
    <3> QED BY <1>1, <3>1 DEF Publication
  <2>2. CASE Drain(c)
    <3>1. publish' = [publish EXCEPT !.drained = TRUE] /\ publish.full = {c}
      BY <2>2 DEF Drain
    <3> QED BY <1>1, <3>1 DEF Publication
  <2>3. CASE OfferAgain(c)
    <3>1. publish' = [publish EXCEPT !.to = publish.to \ {c}, !.full = {}, !.drained = FALSE]
      BY <2>3 DEF OfferAgain
    <3> QED BY <1>1, <3>1 DEF Publication
  <2> QED BY <2>1, <2>2, <2>3
<1>3. PICK f \in Nat : channel' = [channel EXCEPT ![c] = f]
  BY <1>1 DEF Offer, Drain, OfferAgain, Publication, Nothing
<1>4. publishing'
  BY <1>1, <1>2 DEF publishing, Quiet, Nothing
<1>5. channel' \in [Client -> Nat] /\ channel'[c] = f
      /\ \A d \in Client \ {c} : channel'[d] = channel[d]
  BY <1>1, <1>3
<1>6. \A d \in Client \ {c} : Served(d)'
  BY <1>1, <1>2, <1>4, <1>5 DEF HubInv, Served, Has, Drained
<1>7. c \in publish'.to /\ ~Drained(c)' => Has(c, newest)'
  <2>1. CASE Offer(c)
    BY <1>1, <1>4, <1>5, <2>1 DEF Offer, HubInv, Has, Drained, Nothing, Publication
  <2>2. CASE Drain(c)
    BY <1>1, <2>2 DEF Drain, Drained, Publication
  <2>3. CASE OfferAgain(c)
    BY <1>1, <2>3 DEF OfferAgain, Publication
  <2> QED BY <2>1, <2>2, <2>3
<1>8. Drained(c)' => channel'[c] = Nothing /\ shown'[c] <= newest'
  <2>1. CASE Offer(c)
    BY <1>1, <2>1 DEF Offer, HubInv, Drained, Publication
  <2>2. CASE Drain(c)
    BY <1>1, <1>3, <1>5, <2>2 DEF Drain, HubInv, Has, Drained, Nothing, Publication
  <2>3. CASE OfferAgain(c)
    BY <1>1, <2>3 DEF OfferAgain, Drained, Publication
  <2> QED BY <2>1, <2>2, <2>3
<1>9. c \notin publish'.to => Has(c, publish.frame)'
  <2>1. CASE Offer(c)
    BY <1>1, <1>5, <2>1 DEF Offer, HubInv, Has, Drained, Nothing, Publication
  <2>2. CASE Drain(c)
    BY <1>1, <2>2 DEF Drain, Publication
  <2>3. CASE OfferAgain(c)
    BY <1>1, <1>5, <2>3 DEF OfferAgain, HubInv, Has, Drained, Nothing, Publication
  <2> QED BY <2>1, <2>2, <2>3
<1>10. Served(c)'
  BY <1>1, <1>4, <1>7, <1>8, <1>9 DEF Served, HubInv
<1> QED BY <1>1, <1>2, <1>4, <1>5, <1>6, <1>10 DEF HubInv, HubState, Served

\* A client comes, takes a frame, or goes; only the first and the last wait for Publish
\* (hub.go:17-31; server.go:377-398).
LEMMA ClientHubInv ==
  ASSUME HubInv, NEW c \in Client, Subscribe(c) \/ Receive(c) \/ Leave(c) \/ Unsubscribe(c),
         status'.frames = status.frames
  PROVE  HubInv'
<1>1. /\ newest \in Nat /\ publish \in Publication /\ handler \in [Client -> Stage]
      /\ channel \in [Client -> Nat] /\ shown \in [Client -> Nat]
      /\ UNCHANGED <<publish, newest>>
  BY DEF Subscribe, Receive, Leave, Unsubscribe, HubInv, HubState
<1>2. \A d \in Client : d # c =>
        /\ channel'[d] = channel[d] /\ shown'[d] = shown[d] /\ handler'[d] = handler[d]
        /\ d \in subscribers' <=> d \in subscribers
  BY <1>1 DEF Subscribe, Receive, Leave, Unsubscribe
<1>3. \A d \in Client : d # c => Served(d)'
  BY <1>1, <1>2 DEF HubInv, Served, Has, Drained, publishing
<1>4. CASE Subscribe(c)
  <2>1. /\ ~publishing /\ ~publishing' /\ publish.full = {} /\ publish.to = {}
        /\ subscribers' = subscribers \cup {c} /\ handler'[c] = "watching"
        /\ channel'[c] = Nothing /\ shown'[c] = newest
        /\ channel' \in [Client -> Nat] /\ shown' \in [Client -> Nat]
        /\ handler' \in [Client -> Stage]
    BY <1>1, <1>4 DEF Subscribe, HubInv, publishing, Stage
  <2>2. Served(c)'
    BY <1>1, <2>1 DEF Served, Has, Drained
  <2> QED BY <1>1, <1>3, <2>1, <2>2 DEF HubInv, HubState, Served, publishing
<1>5. CASE Receive(c)
  <2>1. /\ channel[c] # Nothing /\ subscribers' = subscribers
        /\ channel'[c] = Nothing /\ shown'[c] = channel[c]
        /\ channel' \in [Client -> Nat] /\ shown' \in [Client -> Nat]
        /\ handler' \in [Client -> Stage] /\ handler[c] # "away" /\ handler'[c] # "away"
    BY <1>1, <1>5 DEF Receive, Nothing, Stage
  <2>2. Served(c)'
    BY <1>1, <2>1 DEF Served, Has, Drained, HubInv, publishing, Nothing
  <2> QED BY <1>1, <1>3, <2>1, <2>2 DEF HubInv, HubState, Served, publishing
<1>6. CASE Leave(c)
  <2>1. /\ UNCHANGED <<subscribers, channel, shown>>
        /\ handler' \in [Client -> Stage] /\ handler[c] # "away" /\ handler'[c] # "away"
    BY <1>1, <1>6 DEF Leave, Stage
  <2>2. Served(c)'
    BY <1>1, <2>1 DEF Served, Has, Drained, HubInv, publishing
  <2> QED BY <1>1, <1>3, <2>1, <2>2 DEF HubInv, HubState, Served, publishing
<1>7. CASE Unsubscribe(c)
  <2>1. /\ ~publishing /\ ~publishing' /\ publish.to = {} /\ publish.full = {}
        /\ subscribers' = subscribers \ {c} /\ handler'[c] = "away" /\ channel'[c] = Nothing
        /\ channel' \in [Client -> Nat] /\ shown' \in [Client -> Nat]
        /\ handler' \in [Client -> Stage]
    BY <1>1, <1>7 DEF Unsubscribe, HubInv, publishing, Stage, Nothing
  <2>2. Served(c)'
    BY <2>1 DEF Served
  <2> QED BY <1>1, <1>3, <2>1, <2>2 DEF HubInv, HubState, Served, publishing
<1> QED BY <1>4, <1>5, <1>6, <1>7

LEMMA NextHubInv == CallInv /\ HubInv /\ [Next]_vars => HubInv'
<1> SUFFICES ASSUME CallInv, HubInv, [Next]_vars PROVE HubInv'
  OBVIOUS
<1>1. ASSUME UNCHANGED hubVars, status'.frames = status.frames PROVE HubInv'
  BY <1>1 DEF hubVars, HubInv, HubState, publishing, Has, Drained
<1>2. ASSUME NEW r \in RunId, Frame(r) PROVE HubInv'
  <2>1. status' = status /\ newest = status.frames
    BY <1>2 DEF Frame, ReadFrame, HubInv
  <2> QED BY <1>2, <2>1, BeginHubInv DEF Frame
<1>3. ASSUME NEW r \in RunId, Recorded(r) PROVE HubInv'
  <2>1. status'.frames = status.frames + 1
    BY <1>3 DEF Recorded, FrameDone, CallInv, Status
  <2> QED BY <1>3, <2>1, EndHubInv DEF Recorded
<1>4. CASE PublishStep /\ hubOnly
  BY <1>4, PublishHubInv DEF PublishStep, hubOnly, captureVars
<1>5. CASE ClientStep /\ hubOnly
  BY <1>5, ClientHubInv DEF ClientStep, hubOnly, captureVars
<1>6. CASE Monitor \/ UNCHANGED vars
  BY <1>1, <1>6 DEF Monitor, vars, captureVars
<1> QED BY <1>1, <1>2, <1>3, <1>4, <1>5, <1>6, FramesCounted DEF Next, captureOnly

\* However many clients watch, and whenever they come, take a frame or go: nobody is left
\* with an old frame and nobody sees time go back (hub.go:17-46; server.go:391-398).
THEOREM NewestAlwaysWins == Spec => []NewestFrameWins
<1>1. Init => HubInv
  BY InitHubInv
<1>2. Spec => []HubInv
  BY <1>1, CaptureInvHolds, NextHubInv, PTL DEF Spec
<1>3. HubInv => NewestFrameWins
  BY DEF HubInv, HubState, NewestFrameWins, Has, Drained, Nothing, Publication
<1> QED BY <1>2, <1>3, PTL

----------------------------------------------------------------------------
\* The notices.

\* Without a healthy sample the failure's age is at most the samples since the last one.
NoticeInv ==
    /\ failureStartedAt \in 0..Delay \cup {Never}
    /\ unhealthyFor \in 0..Delay + 1
    /\ failureReported \in BOOLEAN /\ alerted \in BOOLEAN
    /\ failureStartedAt # Never => failureStartedAt < unhealthyFor
    /\ failureReported => alerted

LEMMA InitNoticeInv == Init => NoticeInv
<1> SUFFICES ASSUME Init PROVE NoticeInv
  OBVIOUS
<1>1. failureStartedAt = Never /\ failureReported = FALSE /\ alerted = FALSE /\ unhealthyFor = 0
  BY DEF Init, NoticeInit
<1>2. 0 \in 0..Delay + 1
  BY DelayAssumption
<1> QED BY <1>1, <1>2 DEF NoticeInv

\* A failure's notice is due when the age has reached the delay, and a recovery's only
\* while a report stands (capture_notifications.go:32-59).
LEMMA NextNoticeInv ==
  ASSUME NoticeInv, [Next]_vars
  PROVE  /\ NoticeInv'
         /\ \/ UNCHANGED noticeVars
            \/ /\ notice' = "failed" => unhealthyFor' > Delay
               /\ notice' = "recovered" => alerted
<1> USE DelayAssumption, NeverAssumption
<1>1. CASE UNCHANGED noticeVars
  BY <1>1 DEF noticeVars, NoticeInv
<1>2. CASE Monitor
  <2>1. PICK shows \in BOOLEAN :
            \/ status.lastError /\ observeFailed(shows)
            \/ ~status.lastError /\ status.running /\ observeHealthy(shows)
            \/ ~status.lastError /\ ~status.running /\ observeNothing
    BY <1>2 DEF Monitor, Observe
  <2>2. /\ alerted' = (notice' = "failed" \/ (alerted /\ notice' # "recovered"))
        /\ unhealthyFor' = IF ~status.lastError /\ status.running THEN 0
                           ELSE later(unhealthyFor, Delay + 1)
    BY <1>2 DEF Monitor, Observe
  <2>3. alerted' \in BOOLEAN
    BY <2>2
  <2>4. CASE status.lastError /\ observeFailed(shows)
    <3>1. unhealthyFor' = (IF unhealthyFor = Delay + 1 THEN Delay + 1 ELSE unhealthyFor + 1)
      BY <2>2, <2>4 DEF NoticeInv, later
    <3>2. /\ failureStartedAt' = IF failureStartedAt = Never THEN 0
                                 ELSE IF failureStartedAt = Delay THEN Delay
                                 ELSE failureStartedAt + 1
          /\ notice' \in {"failed", "none"}
          /\ notice' = "failed" => failureStartedAt' = Delay
          /\ failureReported' \in BOOLEAN
          /\ failureReported' => failureReported \/ notice' = "failed"
      BY <2>4 DEF observeFailed, later, NoticeInv
    <3>3. failureReported' => alerted'
      BY <2>2, <3>2 DEF NoticeInv
    <3>4. /\ failureStartedAt' \in 0..Delay \cup {Never} /\ unhealthyFor' \in 0..Delay + 1
          /\ failureStartedAt' # Never => failureStartedAt' < unhealthyFor'
          /\ failureStartedAt' = Delay => unhealthyFor' > Delay
      BY <3>1, <3>2 DEF NoticeInv
    <3>5. NoticeInv'
      BY <2>3, <3>2, <3>3, <3>4, Zenon DEF NoticeInv
    <3>6. notice' = "failed" => unhealthyFor' > Delay
      BY <3>2, <3>4
    <3>7. notice' # "recovered"
      BY <3>2
    <3> QED BY <3>5, <3>6, <3>7
  <2>5. CASE ~status.lastError /\ status.running /\ observeHealthy(shows)
    <3>1. /\ failureStartedAt' = Never /\ failureReported' = FALSE /\ unhealthyFor' = 0
          /\ notice' = IF failureReported /\ shows THEN "recovered" ELSE "none"
      BY <2>2, <2>5 DEF observeHealthy
    <3>2. 0 \in 0..Delay + 1
      OBVIOUS
    <3>3. NoticeInv'
      BY <2>3, <3>1, <3>2, Zenon DEF NoticeInv
    <3>4. notice' = "recovered" => alerted
      BY <3>1 DEF NoticeInv
    <3>5. notice' # "failed"
      BY <3>1
    <3> QED BY <3>3, <3>4, <3>5
  <2>6. CASE ~status.lastError /\ ~status.running /\ observeNothing
    <3>1. unhealthyFor' = (IF unhealthyFor = Delay + 1 THEN Delay + 1 ELSE unhealthyFor + 1)
      BY <2>2, <2>6 DEF NoticeInv, later
    <3>2. /\ failureStartedAt' = IF failureStartedAt \in {Never, Delay} THEN failureStartedAt
                                 ELSE failureStartedAt + 1
          /\ notice' = "none" /\ failureReported' = failureReported
      BY <2>6 DEF observeNothing, later
    <3> QED BY <2>2, <2>3, <3>1, <3>2 DEF NoticeInv
  <2> QED BY <2>1, <2>4, <2>5, <2>6
<1> QED BY <1>1, <1>2 DEF Next, captureOnly, hubOnly, Frame, Recorded, vars

\* Whatever the capture does between two samples, each notice is earned, and each
\* recovery answers one failure (capture_notifications.go:32-59, 89-94).
THEOREM NoticesStayEarned == Spec => NoticesAreEarned
<1>1. NoticeInv /\ [Next]_vars =>
        [/\ notice' = "failed" => unhealthyFor' > Delay
         /\ notice' = "recovered" => alerted]_noticeVars
  BY NextNoticeInv
<1>2. NoticeInv /\ [Next]_vars => NoticeInv'
  BY NextNoticeInv
<1> QED BY <1>1, <1>2, InitNoticeInv, PTL DEF Spec, NoticesAreEarned

----------------------------------------------------------------------------
\* Types of the whole.

\* What NoticeInv leaves out.
RestTypes ==
    /\ lastFailureAt \in 0..Cooldown \cup {Never}
    /\ notice \in {"none", "failed", "recovered"}
    /\ resumed \in BOOLEAN

LEMMA InitRestTypes == Init => RestTypes
  BY DEF Init, NoticeInit, RestTypes

LEMMA NextRestTypes == NoticeInv /\ RestTypes /\ [Next]_vars => RestTypes'
<1> SUFFICES ASSUME NoticeInv, RestTypes, [Next]_vars PROVE RestTypes'
  OBVIOUS
<1> USE DelayAssumption, NeverAssumption
<1>1. CASE UNCHANGED <<noticeVars, resumed>>
  BY <1>1 DEF noticeVars, RestTypes
<1>2. ASSUME NEW r \in RunId, Recorded(r) PROVE RestTypes'
  BY <1>2 DEF Recorded, noticeVars, NoticeInv, RestTypes
<1>3. CASE Monitor
  <2>1. later(lastFailureAt, Cooldown) \in 0..Cooldown \cup {Never} /\ 0 \in 0..Cooldown
    BY DEF RestTypes, later
  <2>2. PICK shows \in BOOLEAN :
            observeFailed(shows) \/ observeHealthy(shows) \/ observeNothing
    BY <1>3 DEF Monitor, Observe
  <2>3. notice' \in {"none", "failed", "recovered"}
    BY <2>2 DEF observeFailed, observeHealthy, observeNothing
  <2>4. lastFailureAt' \in {Never, 0, later(lastFailureAt, Cooldown)}
    BY <2>2 DEF observeFailed, observeHealthy, observeNothing
  <2>5. resumed' \in BOOLEAN
    BY <1>3 DEF Monitor
  <2> QED BY <2>1, <2>3, <2>4, <2>5 DEF RestTypes
<1> QED BY <1>1, <1>2, <1>3 DEF Next, captureOnly, hubOnly, Frame, vars

\* Every variable of the service, the hub and the monitor always has its type: restartMu
\* has one holder at most, and Publish deals with one full channel at a time
\* (capture.go:21-43; hub.go:5-8; capture_notifications.go:26-30).
THEOREM TypeCorrect == Spec => []TypeOK
<1>1. HubInv => HubTypeOK
  <2> SUFFICES ASSUME HubInv PROVE HubTypeOK
    OBVIOUS
  <2>1. Cardinality(publish.full) <= 1
    <3>1. CASE publish.full = {}
      BY <3>1, FS_EmptySet
    <3>2. ASSUME NEW c \in publish.to, publish.full = {c}
          PROVE  Cardinality(publish.full) <= 1
      BY <3>2, FS_Singleton
    <3> QED BY <3>1, <3>2 DEF HubInv
  <2> QED BY <2>1 DEF HubInv, HubState, HubTypeOK, Publication
<1>2. NoticeInv /\ RestTypes => NoticeTypeOK /\ resumed \in BOOLEAN
  BY DEF NoticeInv, RestTypes, NoticeTypeOK
<1>3. Spec => []HubInv
  BY InitHubInv, CaptureInvHolds, NextHubInv, PTL DEF Spec
<1>4. NoticeInv /\ [Next]_vars => NoticeInv'
  BY NextNoticeInv
<1>5. Spec => [](NoticeInv /\ RestTypes)
  BY <1>4, InitNoticeInv, InitRestTypes, NextRestTypes, PTL DEF Spec
<1>6. CallInv /\ HubInv /\ NoticeInv /\ RestTypes => TypeOK
  BY <1>1, <1>2, CallInvType DEF TypeOK
<1> QED BY <1>3, <1>5, <1>6, CaptureInvHolds, PTL
=============================================================================

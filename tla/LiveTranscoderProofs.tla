------------------------ MODULE LiveTranscoderProofs ------------------------
(***************************************************************************)
(* Theorems about LiveTranscoder, for every capacity of a session's queue  *)
(* and every number of sessions.                                           *)
(***************************************************************************)
EXTENDS LiveTranscoder, TLAPS

----------------------------------------------------------------------------
\* The inductive invariant.

Place == {"idle", "abort", "abortReport", "reset", "configure", "launch", "write",
          "writeReport", "detach", "closed"}
State == {"disabled", "starting", "running", "finalizing", "completed", "fallback"}
Status(n) == [state : State, session : 0..n]
Caller(n) == [at : Place, session : 0..n, then : {"idle", "reset", "closed"}]

TypeInv ==
    /\ active \in 0..Len(sessions) /\ finalizing \in 0..Len(sessions)
    /\ status \in Status(Len(sessions))
    /\ sessions \in Seq(Session)
    /\ caller \in Caller(Len(sessions))
    /\ owned \subseteq Ids /\ files \subseteq Ids

\* What the flags of one session say of each other: its channel is closed when it stops
\* accepting; an aborted one is cancelled; one that has missed a frame will fail; and
\* whoever has seen the end of ffmpeg knows what there is to know.
Sound(x) ==
    /\ x.accepting <=> ~x.framesClosed
    /\ x.aborted => x.cancelled /\ x.framesClosed
    /\ x.missed => x.failure \/ x.aborted
    /\ x.writer # "feeding" => x.failure \/ (x.framesClosed /\ x.queued = 0)
    /\ x.writer \in {"report", "remove", "ended"} =>
          x.process # "running" /\ (x.aborted => x.failure)
    /\ x.result # "none" => x.writer \in {"remove", "ended"}
    /\ x.result = "ok" => ~x.failure
    /\ x.sawAborted => x.aborted
    /\ x.progress = "report" => x.aborted

SoundInv == \A id \in Ids : Sound(sessions[id])

\* A session that was handed over in good order: nobody stops it any more.
Detached(x) == x.framesClosed /\ ~x.aborted

\* Only the caller hands a session over, so the active one, and the one it is about to
\* write to, to detach or to abort, has not been.
HandInv ==
    /\ active # 0 => ~Detached(sessions[active])
    /\ caller.at \in {"abort", "write", "detach"} => s # 0 /\ ~Detached(sessions[s])
    /\ caller.at \in {"abortReport", "writeReport"} => s # 0 /\ sessions[s].aborted
    /\ caller.at \in {"abort", "abortReport", "reset", "configure", "launch", "detach"}
          => active = 0

\* What the exporter holds was handed over and has its file; a file that is gone was the
\* exporter's, or that of an aborted session.
FileInv ==
    /\ \A id \in owned : id \in files /\ Detached(sessions[id])
    /\ \A id \in Ids \ files : sessions[id].framesClosed

\* An encoder that has not been told to stop is somebody's.
Unstopped(x) == x.process = "running" /\ ~x.cancelled
EncoderInv ==
    \A id \in Ids : Unstopped(sessions[id]) =>
        \/ id = active \/ id \in owned
        \/ id = s /\ caller.at \in {"abort", "detach"}

\* The status is that of the active or of the finalizing session, never of both; Start
\* forgets the finalizing one before it sets the status anew.
StatusInv ==
    /\ active # 0 => status = [state |-> "running", session |-> active]
    /\ finalizing # 0 => status = [state |-> "finalizing", session |-> finalizing]
    /\ status.state = "finalizing" => finalizing # 0 \/ caller.at = "configure"
    /\ caller.at \in {"configure", "launch"} => finalizing = 0

Inv == TypeInv /\ SoundInv /\ HandInv /\ FileInv /\ EncoderInv /\ StatusInv

----------------------------------------------------------------------------
\* One session's record.

\* What every operation on a session does but its launch and its handing over.
Kept(x, y) ==
    /\ y \in Session /\ Sound(y)
    /\ x.framesClosed => y.framesClosed
    /\ x.aborted => y.aborted
    /\ Detached(x) <=> Detached(y)
    /\ Unstopped(y) => Unstopped(x)

LEMMA NewIsSound == NewSession \in Session /\ Sound(NewSession) /\ ~NewSession.framesClosed
  BY LiveBoundAssumption DEF NewSession, Session, Sound

LEMMA SameIsKept ==
  ASSUME NEW x \in Session, Sound(x)
  PROVE  Kept(x, x)
  BY DEF Kept

\* Stopping a session that has not been handed over: its channel was open, or it has
\* been stopped before (live_transcode.go:302-327).
LEMMA StopIsKept ==
  ASSUME NEW x \in Session, Sound(x), ~Detached(x)
  PROVE  /\ Kept(x, stopped(x)) /\ stopped(x).aborted
         /\ Kept(x, [stopped(x) EXCEPT !.missed = TRUE])
         /\ x.accepting => Kept(x, [stopped(x) EXCEPT !.progress = "report"])
<1>1. stopped(x) \in Session
  BY DEF stopped, Session
<1>2. /\ [stopped(x) EXCEPT !.missed = TRUE] \in Session
      /\ [stopped(x) EXCEPT !.progress = "report"] \in Session
  BY <1>1 DEF Session
<1> QED BY <1>1, <1>2 DEF stopped, Kept, Sound, Detached, Unstopped, Session

\* Write: a frame is queued, or comes too late (live_transcode.go:181-196).
LEMMA WriteIsKept ==
  ASSUME NEW x \in Session, Sound(x), ~Detached(x)
  PROVE  /\ ~x.accepting => Kept(x, [x EXCEPT !.missed = TRUE])
         /\ x.accepting /\ x.queued < QueueFrames => Kept(x, [x EXCEPT !.queued = @ + 1])
<1>1. [x EXCEPT !.missed = TRUE] \in Session
  BY DEF Session
<1>2. x.queued < QueueFrames => [x EXCEPT !.queued = @ + 1] \in Session
  <2>1. x.queued < QueueFrames => x.queued + 1 \in 0..QueueFrames
    BY LiveBoundAssumption DEF Session
  <2> QED BY <2>1 DEF Session
<1> QED BY <1>1, <1>2 DEF Kept, Sound, Detached, Unstopped, Session

\* writeFrames feeds ffmpeg and waits for it (live_transcode.go:480-519).
LEMMA FeedIsKept ==
  ASSUME NEW x \in Session, Sound(x), x.writer = "feeding"
  PROVE  /\ x.queued > 0 /\ x.process = "running" => Kept(x, [x EXCEPT !.queued = @ - 1])
         /\ x.queued > 0 /\ x.process # "running" =>
               Kept(x, [x EXCEPT !.queued = @ - 1, !.missed = TRUE, !.failure = TRUE,
                                 !.writer = "waiting"])
         /\ x.framesClosed /\ x.queued = 0 => Kept(x, [x EXCEPT !.writer = "waiting"])
<1> DEFINE fed == [x EXCEPT !.queued = @ - 1]
           lost == [x EXCEPT !.queued = @ - 1, !.missed = TRUE, !.failure = TRUE,
                             !.writer = "waiting"]
           drained == [x EXCEPT !.writer = "waiting"]
<1>1. x.queued > 0 => x.queued - 1 \in 0..QueueFrames
  BY LiveBoundAssumption DEF Session
<1>2. (x.queued > 0 => fed \in Session /\ lost \in Session) /\ drained \in Session
  BY <1>1 DEF Session
<1> QED BY <1>2 DEF Kept, Sound, Detached, Unstopped, Session

\* writeFrames collects ffmpeg's result and reports it (live_transcode.go:519-537).
LEMMA ReapIsKept ==
  ASSUME NEW x \in Session, Sound(x), x.writer = "waiting", x.process # "running"
  PROVE  Kept(x, [x EXCEPT !.writer = "report", !.failure = failed(x),
                           !.sawAborted = x.aborted])
<1> DEFINE y == [x EXCEPT !.writer = "report", !.failure = failed(x),
                          !.sawAborted = x.aborted]
<1>1. failed(x) \in BOOLEAN /\ (failed(x) <=> x.failure \/ x.process = "failed" \/ x.aborted)
  BY DEF failed, Session
<1>2. y \in Session
  BY <1>1 DEF Session
<1> QED BY <1>1, <1>2 DEF Kept, Sound, Detached, Unstopped, Session

LEMMA ReportIsKept ==
  ASSUME NEW x \in Session, Sound(x)
  PROVE  /\ x.writer = "report" =>
               Kept(x, [x EXCEPT !.writer = "remove",
                                 !.result = IF x.failure THEN "failed" ELSE "ok"])
         /\ x.writer = "remove" => Kept(x, [x EXCEPT !.writer = "ended"])
         /\ x.progress = "report" => Kept(x, [x EXCEPT !.progress = "ended"])
<1> DEFINE reported == [x EXCEPT !.writer = "remove",
                                 !.result = IF x.failure THEN "failed" ELSE "ok"]
<1>1. /\ reported \in Session /\ [x EXCEPT !.writer = "ended"] \in Session
      /\ [x EXCEPT !.progress = "ended"] \in Session
  BY DEF Session
<1> QED BY <1>1 DEF Kept, Sound, Detached, Unstopped, Session

\* ffmpeg ends, or is told to.
LEMMA EndIsKept ==
  ASSUME NEW x \in Session, Sound(x)
  PROVE  /\ \A result \in {"ok", "failed"} :
                x.process = "running" => Kept(x, [x EXCEPT !.process = result])
         /\ Kept(x, [x EXCEPT !.cancelled = TRUE])
<1>1. [x EXCEPT !.cancelled = TRUE] \in Session
      /\ \A result \in {"ok", "failed"} : [x EXCEPT !.process = result] \in Session
  BY DEF Session
<1> QED BY <1>1 DEF Kept, Sound, Detached, Unstopped, Session

----------------------------------------------------------------------------
\* All sessions.

SessionsKept ==
    /\ sessions' \in Seq(Session) /\ Len(sessions') = Len(sessions)
    /\ \A id \in Ids : Kept(sessions[id], sessions'[id])

LEMMA UnchangedKept ==
  ASSUME TypeInv, SoundInv, UNCHANGED sessions
  PROVE  SessionsKept
BY SameIsKept DEF TypeInv, SoundInv, SessionsKept, Ids

LEMMA OneIsKept ==
  ASSUME TypeInv, SoundInv, NEW id \in Ids, NEW y, Kept(sessions[id], y),
         sessions' = [sessions EXCEPT ![id] = y]
  PROVE  SessionsKept
<1>1. sessions \in Seq(Session) /\ y \in Session /\ id \in 1..Len(sessions)
  BY DEF TypeInv, Kept, Ids
<1>2. sessions' \in Seq(Session) /\ Len(sessions') = Len(sessions)
  BY <1>1
<1>3. sessions'[id] = y /\ \A i \in Ids \ {id} : sessions'[i] = sessions[i]
  BY <1>1 DEF Ids
<1>4. \A i \in Ids \ {id} : Kept(sessions[i], sessions'[i])
  BY <1>1, <1>3, SameIsKept DEF SoundInv, Ids
<1> QED BY <1>2, <1>3, <1>4 DEF SessionsKept

LEMMA KeptSound ==
  ASSUME SessionsKept
  PROVE  SoundInv' /\ Ids' = Ids
<1>1. Ids' = Ids
  BY DEF SessionsKept, Ids
<1> QED BY <1>1 DEF SessionsKept, SoundInv, Kept

\* The steps of a session's goroutines and of its ffmpeg, and what the exporter does.
SessionStep(id) ==
    WriterStep(id) \/ TooSlow(id) \/ SlowReport(id) \/ Crash(id) \/ Exit(id) \/ Killed(id)

LEMMA SessionStepKept ==
  ASSUME Inv, NEW id \in Ids, SessionStep(id) \/ Publish(id)
  PROVE  SessionsKept
<1> DEFINE x == sessions[id]
<1>1. x \in Session /\ Sound(x) /\ sessions \in Seq(Session) /\ id \in 1..Len(sessions)
  BY DEF Inv, TypeInv, SoundInv, Ids
<1>2. ASSUME NEW y, Kept(x, y), sessions' = [sessions EXCEPT ![id] = y]
      PROVE  SessionsKept
  BY <1>2, OneIsKept DEF Inv
<1>3. CASE Feed(id)
  <2> DEFINE fed == [x EXCEPT !.queued = @ - 1]
             lost == [x EXCEPT !.queued = @ - 1, !.missed = TRUE, !.failure = TRUE,
                               !.writer = "waiting"]
  <2>1. x.writer = "feeding" /\ x.queued > 0
    BY <1>3 DEF Feed
  <2>2. sessions' = [sessions EXCEPT ![id] = IF x.process = "running" THEN fed ELSE lost]
    BY <1>1, <1>3 DEF Feed
  <2>3. IF x.process = "running" THEN Kept(x, fed) ELSE Kept(x, lost)
    BY <1>1, <2>1, FeedIsKept
  <2> HIDE DEF fed, lost
  <2> QED BY <1>2, <2>2, <2>3
<1>4. CASE EndInput(id)
  <2>1. sessions' = [sessions EXCEPT ![id] = [x EXCEPT !.writer = "waiting"]]
    BY <1>1, <1>4 DEF EndInput
  <2> QED BY <1>1, <1>2, <1>4, <2>1, FeedIsKept DEF EndInput
<1>5. CASE Reap(id)
  <2>1. sessions' = [sessions EXCEPT ![id] = [x EXCEPT !.writer = "report",
                                     !.failure = failed(x), !.sawAborted = x.aborted]]
    BY <1>1, <1>5 DEF Reap
  <2> QED BY <1>1, <1>2, <1>5, <2>1, ReapIsKept DEF Reap
<1>6. CASE Report(id)
  <2>1. sessions' = [sessions EXCEPT ![id] = [x EXCEPT !.writer = "remove",
                                     !.result = IF x.failure THEN "failed" ELSE "ok"]]
    BY <1>1, <1>6 DEF Report
  <2> QED BY <1>1, <1>2, <1>6, <2>1, ReportIsKept DEF Report
<1>7. CASE Remove(id)
  <2>1. sessions' = [sessions EXCEPT ![id] = [x EXCEPT !.writer = "ended"]]
    BY <1>1, <1>7 DEF Remove
  <2> QED BY <1>1, <1>2, <1>7, <2>1, ReportIsKept DEF Remove
<1>8. CASE TooSlow(id)
  <2>1. sessions' = [sessions EXCEPT ![id] = [stopped(x) EXCEPT !.progress = "report"]]
        /\ x.accepting
    BY <1>8 DEF TooSlow
  <2>2. ~Detached(x)
    BY <1>1, <2>1 DEF Sound, Detached
  <2> QED BY <1>1, <1>2, <2>1, <2>2, StopIsKept
<1>9. CASE SlowReport(id)
  <2>1. sessions' = [sessions EXCEPT ![id] = [x EXCEPT !.progress = "ended"]]
    BY <1>1, <1>9 DEF SlowReport
  <2> QED BY <1>1, <1>2, <1>9, <2>1, ReportIsKept DEF SlowReport
<1>10. CASE Crash(id) \/ Exit(id) \/ Killed(id)
  <2>1. \E result \in {"ok", "failed"} :
            sessions' = [sessions EXCEPT ![id] = [x EXCEPT !.process = result]]
    BY <1>1, <1>10 DEF Crash, Exit, Killed
  <2>2. x.process = "running"
    BY <1>10 DEF Crash, Exit, Killed
  <2> QED BY <1>1, <1>2, <2>1, <2>2, EndIsKept
<1>11. CASE Publish(id)
  <2>1. \/ UNCHANGED sessions
        \/ sessions' = [sessions EXCEPT ![id] = [x EXCEPT !.cancelled = TRUE]]
    BY <1>1, <1>11 DEF Publish
  <2> QED BY <1>1, <1>2, <2>1, EndIsKept, UnchangedKept DEF Inv
<1> QED BY <1>3, <1>4, <1>5, <1>6, <1>7, <1>8, <1>9, <1>10, <1>11
        DEF SessionStep, WriterStep

\* What the caller does before and after a session's lock changes no session.
LEMMA CallerKept ==
  ASSUME Inv,
         \/ Abort \/ WriteFrame
         \/ (\E then \in {"idle", "reset", "closed"} : Discard(then)) \/ AbortReport \/ Reset
         \/ Configure \/ LaunchFails \/ Write \/ WriteReport \/ Detach
  PROVE  SessionsKept
<1>1. CASE Abort
  <2>1. s \in Ids /\ ~Detached(sessions[s])
    BY <1>1 DEF Abort, Inv, TypeInv, HandInv, Caller, Ids, s
  <2>2. sessions[s] \in Session /\ Sound(sessions[s])
    BY <2>1 DEF Inv, TypeInv, SoundInv, Ids
  <2>3. UNCHANGED sessions \/ sessions' = [sessions EXCEPT ![s] = stopped(sessions[s])]
    BY <1>1 DEF Abort
  <2> QED BY <2>1, <2>2, <2>3, StopIsKept, OneIsKept, UnchangedKept DEF Inv
<1>2. CASE WriteFrame
  <2>1. s \in Ids /\ ~Detached(sessions[s])
    BY <1>2 DEF WriteFrame, Inv, TypeInv, HandInv, Caller, Ids, s
  <2> DEFINE x == sessions[s]
  <2>2. x \in Session /\ Sound(x) /\ sessions \in Seq(Session) /\ s \in 1..Len(sessions)
    BY <2>1 DEF Inv, TypeInv, SoundInv, Ids
  <2>3. \/ ~x.accepting /\ sessions' = [sessions EXCEPT ![s] = [x EXCEPT !.missed = TRUE]]
        \/ /\ x.accepting /\ x.queued < QueueFrames
           /\ sessions' = [sessions EXCEPT ![s] = [x EXCEPT !.queued = @ + 1]]
        \/ sessions' = [sessions EXCEPT ![s] = [stopped(x) EXCEPT !.missed = TRUE]]
    BY <1>2, <2>2 DEF WriteFrame
  <2>4. \E y : Kept(x, y) /\ sessions' = [sessions EXCEPT ![s] = y]
    BY <2>1, <2>2, <2>3, StopIsKept, WriteIsKept
  <2> QED BY <2>1, <2>4, OneIsKept DEF Inv
<1>3. CASE UNCHANGED sessions
  BY <1>3, UnchangedKept DEF Inv
<1> QED BY <1>1, <1>2, <1>3
        DEF Discard, AbortReport, Reset, Configure, LaunchFails, Write, WriteReport, Detach

----------------------------------------------------------------------------
\* Steps that keep every session: what they may change besides.

\* The status still names the session it is about.
StatusKept ==
    /\ status' \in Status(Len(sessions))
    /\ active' # 0 => status' = [state |-> "running", session |-> active']
    /\ finalizing' # 0 => status' = [state |-> "finalizing", session |-> finalizing']
    /\ status'.state = "finalizing" => finalizing' # 0 \/ caller'.at = "configure"

\* fallbackFor, by the session's goroutines or by the caller, never touches an encoder
\* that still runs unstopped (live_transcode.go:264-289).
LEMMA FallbackInv ==
  ASSUME Inv, NEW id \in Ids, fallbackFor(id), caller.at # "configure" \/ caller' = caller
  PROVE  /\ active' \in {active, 0} /\ (active' # active => active = id)
         /\ finalizing' \in {finalizing, 0}
         /\ StatusKept
<1>1. id # 0 /\ id \in 0..Len(sessions)
  BY DEF Ids, Inv, TypeInv
<1>2. status' \in Status(Len(sessions))
  BY <1>1 DEF fallbackFor, Inv, TypeInv, Status, State
<1> QED BY <1>1, <1>2 DEF fallbackFor, Inv, StatusInv, StatusKept

LEMMA CompleteInv ==
  ASSUME Inv, NEW id \in Ids, completeFor(id), caller' = caller
  PROVE  /\ active' = active
         /\ finalizing' \in {finalizing, 0}
         /\ StatusKept
<1>1. id # 0 /\ id \in 0..Len(sessions)
  BY DEF Ids, Inv, TypeInv
<1>2. status' \in Status(Len(sessions))
  BY <1>1 DEF completeFor, Inv, TypeInv, Status, State
<1> QED BY <1>1, <1>2 DEF completeFor, Inv, StatusInv, StatusKept

\* The steps of the sessions' goroutines, ffmpegs and of the exporter.
LEMMA SessionStepInv ==
  ASSUME Inv, NEW id \in Ids, SessionStep(id) \/ Publish(id)
  PROVE  Inv'
<1>1. SessionsKept
  BY SessionStepKept
<1>2. SoundInv' /\ Ids' = Ids /\ Len(sessions') = Len(sessions)
  BY <1>1, KeptSound DEF SessionsKept
<1>3. caller' = caller
  BY DEF SessionStep, WriterStep, Feed, EndInput, Reap, Report, Remove, TooSlow, SlowReport,
         Crash, Exit, Killed, Publish
<1>4. /\ active' \in {active, 0} /\ (active' # active => active = id)
      /\ finalizing' \in {finalizing, 0}
      /\ StatusKept
  <2>1. CASE UNCHANGED <<active, finalizing, status>>
    BY <1>3, <2>1 DEF Inv, TypeInv, StatusInv, StatusKept
  <2>2. CASE fallbackFor(id)
    BY <1>3, <2>2, FallbackInv
  <2>3. CASE completeFor(id)
    BY <1>3, <2>3, CompleteInv
  <2> QED BY <2>1, <2>2, <2>3
          DEF SessionStep, WriterStep, Feed, EndInput, Reap, Report, Remove, TooSlow,
              SlowReport, Crash, Exit, Killed, Publish
\* A session loses its place only when its ffmpeg has ended or been stopped.
<1>5. active' # active => ~Unstopped(sessions[id])
  <2>1. Sound(sessions[id])
    BY DEF Inv, SoundInv
  <2>2. CASE Report(id)
    BY <2>1, <2>2 DEF Report, Sound, Unstopped
  <2>3. CASE SlowReport(id)
    BY <2>1, <2>3 DEF SlowReport, Sound, Unstopped
  <2>4. CASE UNCHANGED active
    BY <2>4
  <2> QED BY <2>2, <2>3, <2>4
          DEF SessionStep, WriterStep, Feed, EndInput, Reap, Remove, TooSlow, Crash, Exit,
              Killed, Publish
<1>6. \/ UNCHANGED <<owned, files>>
      \/ owned' = owned \ {id} /\ files' = files \ {id} /\ ~Unstopped(sessions'[id])
      \/ owned' = owned /\ id \notin owned /\ files' = files \ {id}
  <2>1. /\ sessions \in Seq(Session) /\ sessions[id] \in Session
        /\ Sound(sessions[id]) /\ id \in 1..Len(sessions)
    BY DEF Inv, TypeInv, SoundInv, Ids
  <2>2. CASE Publish(id)
    <3>1. CASE sessions[id].result # "none"
      BY <2>1, <2>2, <3>1 DEF Publish, Sound, Unstopped
    <3>2. CASE sessions[id].result = "none"
      <4>1. sessions'[id].cancelled
        BY <2>1, <2>2, <3>2 DEF Publish, Session
      <4> QED BY <2>2, <4>1 DEF Publish, Unstopped
    <3> QED BY <2>2, <3>1, <3>2 DEF Publish
  <2>3. CASE Remove(id)
    <3>1. sessions[id].sawAborted => id \notin owned
      BY <2>1 DEF Inv, FileInv, Detached, Sound
    <3> QED BY <2>3, <3>1 DEF Remove
  <2>4. CASE UNCHANGED <<owned, files>>
    BY <2>4
  <2> QED BY <2>2, <2>3, <2>4
          DEF SessionStep, WriterStep, Feed, EndInput, Reap, Report, TooSlow, SlowReport,
              Crash, Exit, Killed
<1>7. TypeInv'
  BY <1>1, <1>2, <1>3, <1>4, <1>6 DEF Inv, TypeInv, SessionsKept, StatusKept
<1>8. HandInv'
  <2>1. active' # 0 => active' = active /\ active \in Ids
    BY <1>4 DEF Inv, TypeInv, Ids
  <2>2. s' = s /\ (s # 0 => s \in Ids)
    BY <1>3 DEF Inv, TypeInv, Caller, Ids, s
  <2> QED BY <1>1, <1>3, <1>4, <2>1, <2>2 DEF Inv, HandInv, SessionsKept, Kept
<1>9. FileInv'
  <2>1. \A i \in owned' : i \in files' /\ Detached(sessions'[i])
    BY <1>1, <1>6 DEF Inv, TypeInv, FileInv, SessionsKept, Kept
  <2>2. \A i \in Ids \ files' : sessions'[i].framesClosed
    <3>1. CASE files' = files
      BY <1>1, <3>1 DEF Inv, FileInv, SessionsKept, Kept
    <3>2. CASE files' # files
      <4>1. sessions[id].framesClosed
        BY <3>2 DEF SessionStep, WriterStep, Feed, EndInput, Reap, Report, Remove, TooSlow,
             SlowReport, Crash, Exit, Killed, Publish, Inv, FileInv, Detached, SoundInv,
             Sound
      <4> QED BY <1>1, <1>6, <4>1 DEF Inv, FileInv, SessionsKept, Kept
    <3> QED BY <3>1, <3>2
  <2> QED BY <1>2, <2>1, <2>2 DEF FileInv
<1>10. EncoderInv'
  <2> SUFFICES ASSUME NEW i \in Ids, Unstopped(sessions'[i])
               PROVE  \/ i = active' \/ i \in owned'
                      \/ i = s /\ caller.at \in {"abort", "detach"}
    BY <1>2, <1>3 DEF EncoderInv, s
  <2>1. Unstopped(sessions[i])
    BY <1>1 DEF SessionsKept, Kept
  <2>2. \/ i = active \/ i \in owned
        \/ i = s /\ caller.at \in {"abort", "detach"}
    BY <2>1 DEF Inv, EncoderInv
  <2>3. CASE i = active
    BY <2>1, <2>3, <1>4, <1>5
  <2>4. CASE i \in owned
    BY <2>4, <1>6
  <2> QED BY <2>2, <2>3, <2>4
<1>11. StatusInv'
  BY <1>3, <1>4 DEF Inv, StatusInv, StatusKept
<1> QED BY <1>2, <1>7, <1>8, <1>9, <1>10, <1>11 DEF Inv

\* The caller's steps before and after a session's lock, under t.mu only.
LEMMA CallerStepInv ==
  ASSUME Inv,
         \/ Abort \/ WriteFrame
         \/ (\E then \in {"idle", "reset", "closed"} : Discard(then)) \/ AbortReport \/ Reset
         \/ Configure \/ LaunchFails \/ Write \/ WriteReport \/ Detach
  PROVE  Inv'
<1>1. SessionsKept
  BY CallerKept
<1>2. SoundInv' /\ Ids' = Ids /\ Len(sessions') = Len(sessions)
  BY <1>1, KeptSound DEF SessionsKept
<1>3. UNCHANGED <<owned, files>>
  BY DEF Abort, WriteFrame, Discard, AbortReport, Reset, Configure, LaunchFails, Write,
         WriteReport, Detach
<1>4. s \in 0..Len(sessions) /\ Len(sessions) \in Nat /\ (s # 0 => s \in Ids)
      /\ (active # 0 => active \in Ids)
  BY DEF Inv, TypeInv, Caller, Ids, s
<1>5. caller' \in Caller(Len(sessions))
  <2>1. \A n \in 0..Len(sessions), at \in Place, then \in {"idle", "reset", "closed"} :
            [at |-> at, session |-> n, then |-> then] \in Caller(Len(sessions))
    BY DEF Caller
  <2>2. \A at \in Place : [caller EXCEPT !.at = at] \in Caller(Len(sessions))
    BY DEF Inv, TypeInv, Caller
  <2>3. active \in 0..Len(sessions) /\ caller.then \in {"idle", "reset", "closed"}
        /\ 0 \in 0..Len(sessions)
    BY DEF Inv, TypeInv, Caller
  <2> QED BY <2>1, <2>2, <2>3
          DEF Abort, WriteFrame, Discard, AbortReport, Reset, Configure, LaunchFails, Write,
              WriteReport, Detach, goto, leaveFor, return, Place
<1>6. /\ active' \in {active, 0} /\ finalizing' \in {finalizing, 0, active}
      /\ StatusKept
  <2>1. CASE UNCHANGED <<active, finalizing, status>> /\ caller.at # "configure"
    BY <2>1 DEF Inv, TypeInv, StatusInv, StatusKept
  <2>2. CASE AbortReport \/ WriteReport
    <3>1. s \in Ids /\ fallbackFor(s) /\ caller.at # "configure"
      BY <2>2, <1>4 DEF AbortReport, WriteReport, Inv, HandInv
    <3> QED BY <3>1, FallbackInv
  <2>3. ASSUME NEW then, Discard(then)
        PROVE  /\ active' \in {active, 0} /\ finalizing' \in {finalizing, 0, active}
               /\ StatusKept
    BY <2>3 DEF Discard, Inv, TypeInv, StatusInv, StatusKept
  <2>4. CASE Reset \/ Configure \/ LaunchFails
    BY <2>4, <1>4 DEF Reset, Configure, LaunchFails, goto, Inv, TypeInv, Caller, HandInv,
             StatusInv, StatusKept, Status, State
  <2>5. CASE Detach
    <3>1. status = [state |-> "running", session |-> active] /\ active # 0
      BY <2>5 DEF Detach, Inv, StatusInv
    <3>2. status' = [state |-> "finalizing", session |-> active] /\ active' = 0
          /\ finalizing' = active
      BY <2>5, <3>1 DEF Detach
    <3> QED BY <3>1, <3>2 DEF Inv, TypeInv, StatusKept, Status, State
  <2> QED BY <2>1, <2>2, <2>3, <2>4, <2>5 DEF Abort, WriteFrame, Write
<1>7. TypeInv'
  <2>1. active' \in 0..Len(sessions) /\ finalizing' \in 0..Len(sessions)
    BY <1>4, <1>6 DEF Inv, TypeInv
  <2> QED BY <1>1, <1>2, <1>3, <1>5, <1>6, <2>1 DEF Inv, TypeInv, SessionsKept, StatusKept
\* What the caller holds now, it has taken from the active session, or held before.
<1>8. HandInv'
  <2>1. \A id \in Ids : Detached(sessions'[id]) <=> Detached(sessions[id])
    BY <1>1 DEF SessionsKept, Kept
  <2>2. \A id \in Ids : sessions[id].aborted => sessions'[id].aborted
    BY <1>1 DEF SessionsKept, Kept
  <2>3. active' # 0 => ~Detached(sessions'[active'])
    BY <1>4, <1>6, <2>1 DEF Inv, HandInv
  <2>4. CASE Abort
    <3>1. CASE caller' = [at |-> caller.then, session |-> 0, then |-> "idle"]
      BY <3>1, <2>3, <2>4 DEF Abort, Inv, HandInv, TypeInv, Caller, s
    <3>2. CASE goto("abortReport") /\ sessions' = [sessions EXCEPT ![s] = stopped(sessions[s])]
      <4>1. s # 0 /\ s \in Ids /\ sessions \in Seq(Session)
        BY <2>4, <1>4 DEF Abort, Inv, HandInv, TypeInv
      <4>2. sessions'[s].aborted
        BY <3>2, <4>1 DEF stopped, Session, Ids
      <4>3. caller'.at = "abortReport" /\ s' = s
        BY <3>2 DEF goto, Inv, TypeInv, Caller, s
      <4> QED BY <2>3, <2>4, <4>1, <4>2, <4>3 DEF Abort, Inv, HandInv
    <3> QED BY <2>4, <3>1, <3>2 DEF Abort, leaveFor
  <2>5. CASE WriteFrame
    <3>1. CASE return
      BY <3>1, <2>3, <2>5 DEF WriteFrame, return, leaveFor, Inv, HandInv, s
    <3>2. CASE /\ goto("writeReport")
               /\ sessions' = [sessions EXCEPT ![s] = [stopped(sessions[s]) EXCEPT !.missed = TRUE]]
      <4>1. s # 0 /\ s \in Ids /\ sessions \in Seq(Session)
        BY <2>5, <1>4 DEF WriteFrame, Inv, HandInv, TypeInv
      <4>2. sessions'[s].aborted
        BY <3>2, <4>1 DEF stopped, Session, Ids
      <4>3. caller'.at = "writeReport" /\ s' = s
        BY <3>2 DEF goto, Inv, TypeInv, Caller, s
      <4> QED BY <2>3, <4>1, <4>2, <4>3 DEF HandInv
    <3> QED BY <2>5, <3>1, <3>2 DEF WriteFrame
  <2>6. ASSUME NEW then \in {"idle", "reset", "closed"}, Discard(then)
        PROVE  HandInv'
    BY <1>4, <2>1, <2>6 DEF Discard, leaveFor, Inv, HandInv, s
  <2>7. CASE AbortReport \/ WriteReport
    <3>1. caller'.at \in {"idle", "reset", "closed"} /\ (AbortReport => active' = 0)
      <4>1. s \in Ids /\ fallbackFor(s) /\ (AbortReport => active = 0)
        BY <2>7, <1>4 DEF AbortReport, WriteReport, Inv, HandInv
      <4> QED BY <2>7, <4>1, FallbackInv
              DEF AbortReport, WriteReport, return, leaveFor, Inv, TypeInv, Caller
    <3>2. WriteReport => caller'.at = "idle"
      BY DEF WriteReport, return, leaveFor
    <3> QED BY <2>3, <2>7, <3>1, <3>2 DEF HandInv
  <2>8. CASE Reset \/ Configure \/ LaunchFails
    BY <2>3, <2>8
       DEF Reset, Configure, LaunchFails, return, leaveFor, goto, Inv, HandInv, TypeInv, Caller
  <2>9. CASE Write \/ Detach
    BY <1>4, <2>1, <2>3, <2>9 DEF Write, Detach, Inv, HandInv, s
  <2> QED BY <2>4, <2>5, <2>6, <2>7, <2>8, <2>9
<1>9. FileInv'
  BY <1>1, <1>2, <1>3 DEF Inv, TypeInv, FileInv, SessionsKept, Kept
<1>10. EncoderInv'
  <2> SUFFICES ASSUME NEW id \in Ids, Unstopped(sessions'[id])
               PROVE  \/ id = active' \/ id \in owned
                      \/ id = s' /\ caller'.at \in {"abort", "detach"}
    BY <1>2, <1>3 DEF EncoderInv
  <2>1. Unstopped(sessions[id]) /\ id # 0
    BY <1>1 DEF SessionsKept, Kept, Ids, Inv, TypeInv
  <2>2. \/ id = active \/ id \in owned
        \/ id = s /\ caller.at \in {"abort", "detach"}
    BY <2>1 DEF Inv, EncoderInv
  \* The active session is taken over by the caller, or it has been stopped.
  <2>3. CASE id = active
    <3>1. CASE active' = active
      BY <2>3, <3>1
    <3>2. ASSUME NEW then, Discard(then)
          PROVE  id = s' /\ caller'.at = "abort"
      BY <2>1, <2>3, <3>2 DEF Discard, s
    <3>3. CASE Detach
      BY <2>3, <3>3 DEF Detach, s
    <3>4. CASE AbortReport \/ WriteReport
      <4>1. s \in Ids /\ fallbackFor(s) /\ sessions[s].aborted /\ caller.at # "configure"
        BY <3>4, <1>4 DEF AbortReport, WriteReport, Inv, HandInv
      <4>2. Sound(sessions[s])
        BY <4>1 DEF Inv, SoundInv
      <4>3. s # id
        BY <2>1, <4>1, <4>2 DEF Sound, Unstopped
      <4> QED BY <2>3, <4>1, <4>3, FallbackInv
    <3> QED BY <3>1, <3>2, <3>3, <3>4
            DEF Abort, WriteFrame, Reset, Configure, LaunchFails, Write
  \* An abort stops it.
  <2>4. CASE id = s /\ caller.at \in {"abort", "detach"}
    <3>1. CASE Abort
      <4>1. sessions \in Seq(Session) /\ Sound(sessions[s]) /\ sessions[s] \in Session
        BY <2>4 DEF Inv, TypeInv, SoundInv, Ids
      <4>2. \/ ~sessions[s].accepting /\ sessions[s].aborted
            \/ sessions' = [sessions EXCEPT ![s] = stopped(sessions[s])]
        BY <3>1 DEF Abort
      <4>3. CASE ~sessions[s].accepting /\ sessions[s].aborted
        BY <2>1, <2>4, <4>1, <4>3 DEF Sound, Unstopped
      <4>4. CASE sessions' = [sessions EXCEPT ![s] = stopped(sessions[s])]
        <5>1. sessions'[s].cancelled
          BY <2>4, <4>1, <4>4 DEF stopped, Session, Ids
        <5> QED BY <2>4, <5>1 DEF Unstopped
      <4> QED BY <4>2, <4>3, <4>4
    <3> QED BY <2>4, <3>1
            DEF WriteFrame, Discard, AbortReport, Reset, Configure, LaunchFails, Write,
                WriteReport, Detach
  <2> QED BY <1>3, <2>2, <2>3, <2>4
<1>11. StatusInv'
  <2>1. caller'.at \in {"configure", "launch"} => finalizing' = 0
    BY DEF Abort, WriteFrame, Discard, AbortReport, Reset, Configure, LaunchFails, Write,
           WriteReport, Detach, goto, leaveFor, return, Inv, TypeInv, Caller, StatusInv
  <2> QED BY <1>6, <2>1 DEF StatusInv, StatusKept
<1> QED BY <1>2, <1>7, <1>8, <1>9, <1>10, <1>11 DEF Inv

\* A session is launched when there is no active one (live_transcode.go:109-172).
LEMMA LaunchInv ==
  ASSUME Inv, Launch
  PROVE  Inv'
<1> DEFINE n == Len(sessions) + 1
<1>1. /\ sessions \in Seq(Session) /\ Len(sessions) \in Nat /\ active = 0 /\ finalizing = 0
      /\ caller.at = "launch"
  BY DEF Launch, Inv, TypeInv, HandInv, StatusInv
<1>2. /\ sessions' \in Seq(Session) /\ Len(sessions') = n /\ sessions'[n] = NewSession
      /\ \A id \in Ids : sessions'[id] = sessions[id]
  BY <1>1, NewIsSound DEF Launch, Ids
<1>3. Ids' = Ids \cup {n} /\ n \notin Ids /\ n # 0
  BY <1>1, <1>2 DEF Ids
<1>4. /\ active' = n /\ finalizing' = 0 /\ owned' = owned /\ files' = files \cup {n}
      /\ status' = [state |-> "running", session |-> n]
      /\ caller' = [at |-> "idle", session |-> 0, then |-> "idle"] /\ s' = 0
  BY <1>2 DEF Launch, return, leaveFor, s
<1> HIDE DEF n
<1>5. TypeInv'
  <2>1. n \in 0..n /\ 0 \in 0..n
    BY <1>1 DEF n
  <2>2. status' \in Status(n) /\ caller' \in Caller(n)
    BY <1>4, <2>1 DEF Status, State, Caller, Place
  <2> QED BY <1>2, <1>3, <1>4, <2>1, <2>2 DEF Inv, TypeInv
<1>6. SoundInv'
  BY <1>2, <1>3, NewIsSound DEF Inv, SoundInv
<1>7. HandInv'
  BY <1>2, <1>4, NewIsSound DEF HandInv, Detached
<1>8. FileInv'
  <2>1. owned \subseteq Ids
    BY DEF Inv, TypeInv
  <2> QED BY <1>2, <1>3, <1>4, <2>1 DEF Inv, FileInv
<1>9. EncoderInv'
  <2>1. \A id \in Ids : Unstopped(sessions[id]) => id \in owned
    BY <1>1 DEF Inv, EncoderInv, Ids
  <2>2. \A id \in Ids' : Unstopped(sessions'[id]) => id = active' \/ id \in owned'
    BY <2>1, <1>2, <1>3, <1>4
  <2> QED BY <2>2 DEF EncoderInv
<1>10. StatusInv'
  BY <1>3, <1>4 DEF StatusInv
<1> QED BY <1>5, <1>6, <1>7, <1>8, <1>9, <1>10 DEF Inv

\* A session is handed over in good order, or has been stopped and is dropped
\* (live_transcode.go:203-224).
LEMMA DetachInv ==
  ASSUME Inv, DetachSession
  PROVE  Inv'
<1> DEFINE x == sessions[s]
           y == [x EXCEPT !.accepting = FALSE, !.framesClosed = TRUE]
<1>1. /\ s \in Ids /\ s # 0 /\ ~Detached(x) /\ active = 0 /\ caller.at = "detach"
  BY DEF DetachSession, Inv, TypeInv, HandInv, Caller, Ids, s
<1>2. /\ sessions \in Seq(Session) /\ x \in Session /\ Sound(x)
      /\ s \in 1..Len(sessions)
  BY <1>1 DEF Inv, TypeInv, SoundInv, Ids
<1>3. /\ caller' = [at |-> "idle", session |-> 0, then |-> "idle"] /\ s' = 0
      /\ UNCHANGED <<active, finalizing, status, files>>
  BY DEF DetachSession, return, leaveFor, s
<1>4. CASE ~x.accepting \/ x.aborted
  <2>1. UNCHANGED <<sessions, owned>> /\ Ids' = Ids
    BY <1>4 DEF DetachSession, Ids
  <2>2. ~Unstopped(x)
    BY <1>1, <1>2, <1>4 DEF Sound, Detached, Unstopped
  <2>3. TypeInv'
    BY <1>3, <2>1 DEF Inv, TypeInv, Caller, Place
  <2>4. HandInv'
    BY <1>1, <1>3 DEF HandInv
  <2>5. EncoderInv'
    BY <1>3, <2>1, <2>2 DEF Inv, EncoderInv
  <2> QED BY <1>1, <1>3, <2>1, <2>3, <2>4, <2>5 DEF Inv, SoundInv, FileInv, StatusInv
<1>5. CASE x.accepting /\ ~x.aborted
  <2>1. sessions' = [sessions EXCEPT ![s] = y] /\ owned' = owned \cup {s}
    BY <1>2, <1>5 DEF DetachSession
  <2>2. y \in Session
    BY <1>2 DEF Session
  <2>3. Sound(y) /\ Detached(y) /\ ~x.framesClosed
    BY <1>2, <1>5 DEF Sound, Detached, Session
  <2> HIDE DEF y
  <2>4. /\ sessions' \in Seq(Session) /\ Len(sessions') = Len(sessions) /\ Ids' = Ids
        /\ sessions'[s] = y /\ \A id \in Ids \ {s} : sessions'[id] = sessions[id]
    BY <1>2, <2>1, <2>2 DEF Ids
  <2>5. TypeInv'
    BY <1>1, <1>3, <2>1, <2>4 DEF Inv, TypeInv, Caller, Place
  <2>6. SoundInv'
    BY <2>3, <2>4 DEF Inv, SoundInv
  <2>7. HandInv'
    BY <1>1, <1>3 DEF HandInv
  <2>8. FileInv'
    <3>1. s \in files
      BY <1>1, <2>3 DEF Inv, FileInv
    <3> QED BY <1>3, <2>1, <2>3, <2>4, <3>1 DEF Inv, TypeInv, FileInv, Detached
  <2>9. EncoderInv'
    BY <1>1, <1>3, <2>1, <2>4 DEF Inv, EncoderInv
  <2>10. StatusInv'
    BY <1>1, <1>3 DEF Inv, StatusInv
  <2> QED BY <2>5, <2>6, <2>7, <2>8, <2>9, <2>10 DEF Inv
<1> QED BY <1>2, <1>4, <1>5 DEF Session

LEMMA InitInv == Init => Inv
<1> SUFFICES ASSUME Init PROVE Inv
  OBVIOUS
<1>1. /\ sessions = <<>> /\ sessions \in Seq(Session) /\ Len(sessions) = 0 /\ Ids = {}
      /\ s = 0 /\ caller.at = "idle"
  BY DEF Init, Ids, s
<1>2. TypeInv
  BY <1>1 DEF Init, TypeInv, Status, State, Caller, Place
<1> QED BY <1>1, <1>2
        DEF Init, Inv, SoundInv, HandInv, FileInv, EncoderInv, StatusInv

LEMMA NextInv == Inv /\ [Next]_vars => Inv'
<1> SUFFICES ASSUME Inv, [Next]_vars PROVE Inv'
  OBVIOUS
<1>1. CASE UNCHANGED vars
  BY <1>1 DEF vars, Inv, TypeInv, SoundInv, HandInv, FileInv, EncoderInv, StatusInv, Ids, s
<1>2. CASE Discard("idle") \/ Start \/ Close \/ Write \/ Detach
  <2>1. (\E then \in {"idle", "reset", "closed"} : Discard(then)) \/ Write \/ Detach
    BY <1>2 DEF Start, Close
  <2> QED BY <2>1, CallerStepInv
<1>3. CASE CallerStep
  <2>1. CASE Launch \/ DetachSession
    BY <2>1, LaunchInv, DetachInv
  <2>2. CASE \/ Abort \/ AbortReport \/ Reset \/ Configure \/ LaunchFails
             \/ WriteFrame \/ WriteReport
    BY <2>2, CallerStepInv
  <2> QED BY <1>3, <2>1, <2>2 DEF CallerStep
<1>4. ASSUME NEW id \in Ids, SessionStep(id) \/ Publish(id)
      PROVE  Inv'
  BY <1>4, SessionStepInv
<1> QED BY <1>1, <1>2, <1>3, <1>4 DEF Next, SessionStep

LEMMA AlwaysInv == Spec => []Inv
  BY InitInv, NextInv, PTL DEF Spec

----------------------------------------------------------------------------
\* The theorems.

\* Every variable always has its type; a session's queue never exceeds its capacity,
\* though Write looks its session up and fills its queue under different locks
\* (live_transcode.go:72-98, 181-196).
THEOREM TypeCorrect == Spec => []TypeOK
<1>1. Inv => TypeOK
  BY DEF Inv, TypeInv, TypeOK, Status, State, Caller, s
<1> QED BY AlwaysInv, <1>1, PTL

\* Write never sends on a closed channel, whoever stops or detaches the session between
\* its two locks (live_transcode.go:181-196, 302-327, 539-551).
THEOREM AcceptingStaysOpen == Spec => []AcceptingIsOpen
<1>1. Inv => AcceptingIsOpen
  BY DEF Inv, SoundInv, Sound, AcceptingIsOpen
<1> QED BY AlwaysInv, <1>1, PTL

\* An encoding is reported as good only if ffmpeg was given every frame, and nobody has
\* stopped the session, before its report or after it (live_transcode.go:189-195, 519-532).
THEOREM GoodStaysComplete == Spec => []GoodIsComplete
<1>1. Inv => GoodIsComplete
  <2> SUFFICES ASSUME Inv, NEW id \in Ids, sessions[id].result = "ok"
               PROVE  sessions[id].queued = 0 /\ ~sessions[id].missed /\ ~sessions[id].aborted
    BY DEF GoodIsComplete
  <2> QED BY DEF Inv, SoundInv, Sound
<1> QED BY AlwaysInv, <1>1, PTL

\* What has been handed to the exporter keeps its file until the exporter has used it
\* (live_transcode.go:203-224, 534-536; export.go:293).
THEOREM DetachedFileIsKept == Spec => []DetachedFileStays
<1>1. Inv => DetachedFileStays
  BY DEF Inv, FileInv, DetachedFileStays
<1> QED BY AlwaysInv, <1>1, PTL

\* Every ffmpeg that runs is in somebody's hands or has been told to stop
\* (live_transcode.go:109-172, 226-238).
THEOREM EncodersAreWatched == Spec => []NoForgottenEncoder
<1>1. Inv => NoForgottenEncoder
  BY DEF Inv, EncoderInv, Unstopped, NoForgottenEncoder
<1> QED BY AlwaysInv, <1>1, PTL

\* The status is never that of a session which reports late, and it shows a session
\* that was forgotten only between the two sections in which Start forgets it and
\* sets the status anew (live_transcode.go:111-119, 161-170, 264-289).
THEOREM StatusStaysNamed == Spec => []StatusNamesTheSession
<1>1. Inv => StatusNamesTheSession
  BY DEF Inv, StatusInv, StatusNamesTheSession
<1> QED BY AlwaysInv, <1>1, PTL
=============================================================================

-------------------------- MODULE RecordingSession --------------------------
(***************************************************************************)
(* service.RecordingSession (internal/service/recording.go) with the       *)
(* capture buffer it fills, the live transcoder it feeds and the exporter  *)
(* it hands segments to.                                                   *)
(*                                                                         *)
(* Every method holds s.mu from its first to its last statement, so each   *)
(* is one action.  What is not under s.mu is an action of its own: the     *)
(* clock, a time.AfterFunc timer that goes off (its callback then waits    *)
(* for s.mu and may find another recording), the live encoder dying, and   *)
(* CaptureBuffer.SetMemoryDuration, called by the HTTP configuration       *)
(* handler.                                                                *)
(***************************************************************************)
EXTENDS Naturals, Sequences

CONSTANTS
    Duration,       \* the values maxDuration may be configured to
    Metadata,       \* the values a client may supply as metadata
    NoMetadata,     \* the empty string
    NoTimer,        \* s.timer: no runtime timer is armed
    NoLive,         \* the transcoder has no session that accepts frames
    MaxTime,        \* bound: the clock stops there
    MaxFrames,      \* bound: the camera delivers no more frames
    MaxGeneration   \* bound: no further recording is started there

ASSUME DurationAssumption == Duration \subseteq Nat \ {0}
ASSUME BoundAssumption == MaxTime \in Nat /\ MaxFrames \in Nat /\ MaxGeneration \in Nat
ASSUME NoTimerAssumption == NoTimer \notin [gen : Nat, at : Nat]
ASSUME NoLiveAssumption == NoLive \notin Seq(Nat)

VARIABLES
    state, metadata, startedAt, deadline, timedOutAt, maxDuration, lastError,
    timer,          \* the armed runtime timer: its generation and its due time
    generation,
    closed,
    fired,          \* callbacks that were started and wait for s.mu
    content, file, leftover,    \* the capture buffer, see FrameBuffer
    live,           \* frames the live encoder was given, or NoLive
    jobs,           \* what was handed to the exporter, in order
    now,
    captured        \* the number of frames the camera has delivered

\* The application closes the buffer when it has closed the session.
Buffer == INSTANCE FrameBuffer WITH Frame <- Nat, closed <- FALSE

sessionVars == <<state, metadata, startedAt, deadline, timedOutAt, lastError>>
timerVars == <<timer, generation>>
bufferVars == <<content, file, leftover>>
vars == <<sessionVars, maxDuration, closed, timerVars, fired, bufferVars, live,
          jobs, now, captured>>

RecordingState == {"previewing", "recording", "timedOut"}
Error == {"none", "append", "clear"}

\* time.Time{}; the clock never shows it.
ZeroTime == 0

Init ==
    /\ state = "previewing" /\ metadata = NoMetadata /\ lastError = "none"
    /\ startedAt = ZeroTime /\ deadline = ZeroTime /\ timedOutAt = ZeroTime
    /\ maxDuration \in Duration
    /\ closed = FALSE
    /\ timer = NoTimer /\ generation = 0 /\ fired = {}
    /\ Buffer!Init
    /\ live = NoLive
    /\ jobs = <<>>
    /\ now = 1
    /\ captured = 0

----------------------------------------------------------------------------
\* The helpers that run under s.mu.

\* Slips this code could have: a callback remembers the generation before its
\* own bump, is told the generation it would have had with one bump more, or is
\* scheduled without any bump.
rescheduleStaleGeneration(at) ==
    generation' = generation + 2 /\ timer' = [gen |-> generation + 1, at |-> at]
rescheduleAheadOfGeneration(at) ==
    generation' = generation + 1 /\ timer' = [gen |-> generation + 2, at |-> at]
rescheduleNoBump(at) ==
    generation' = generation /\ timer' = [gen |-> generation, at |-> at]

\* timer.Stop() does not stop a callback that has been started.
stopTimerLocked == generation' = generation + 1 /\ timer' = NoTimer

\* stopTimerLocked followed by scheduleTimeoutLocked: both bump the generation.
rescheduleLocked(at) ==
    /\ generation' = generation + 2
    /\ timer' = [gen |-> generation + 2, at |-> at]

timeoutLocked ==
    /\ stopTimerLocked
    /\ live' = NoLive
    /\ \/ Buffer!ClearOk /\ lastError' = "none"
       \/ Buffer!ClearFails /\ lastError' = "clear"
    /\ state' = "timedOut"
    /\ startedAt' = ZeroTime /\ deadline' = ZeroTime /\ timedOutAt' = now
    /\ UNCHANGED metadata

\* A recording begins now; the caller has emptied the buffer.
beginLocked ==
    /\ live' \in {NoLive, <<>>}     \* transcoder.Start: the encoder may be off or fail
    /\ state' = "recording" /\ lastError' = "none"
    /\ startedAt' = now /\ deadline' = now + maxDuration /\ timedOutAt' = ZeroTime
    /\ rescheduleLocked(now + maxDuration)

----------------------------------------------------------------------------
\* The methods of RecordingSession.

\* When Clear reports an error it has dropped the frames, but Start returns
\* early: state, timer and live encoder go on as they were.
Start(m) ==
    /\ ~closed
    /\ generation < MaxGeneration
    /\ \/ /\ Buffer!ClearOk
          /\ beginLocked
          /\ metadata' = m
       \/ /\ Buffer!ClearFails
          /\ UNCHANGED <<sessionVars, timerVars, live>>
    /\ UNCHANGED <<maxDuration, closed, fired, jobs, now, captured>>

\* Slips: the deadline is not looked at when a frame arrives; a full queue drops
\* the frame instead of stopping the encoder; a frame that cannot be stored is
\* skipped and the recording goes on, or ends with its frames still in place.
recordAppendedLate ==
    /\ ~closed /\ state = "recording"
    /\ Buffer!AppendOk(captured')
    /\ live' = NoLive
    /\ UNCHANGED <<sessionVars, timerVars>>
recordAppendedSkipsLive ==
    /\ ~closed /\ state = "recording"
    /\ now < deadline
    /\ Buffer!AppendOk(captured')
    /\ live' \in {live} \cup (IF live = NoLive THEN {} ELSE {Append(live, captured')})
    /\ UNCHANGED <<sessionVars, timerVars>>
recordFailedGoesOn ==
    /\ ~closed /\ state = "recording"
    /\ now < deadline
    /\ UNCHANGED <<sessionVars, timerVars, bufferVars, live>>
recordFailedKeepsBuffer ==
    /\ ~closed /\ state = "recording"
    /\ now < deadline
    /\ stopTimerLocked
    /\ live' = NoLive
    /\ state' = "previewing" /\ lastError' = "append"
    /\ startedAt' = ZeroTime /\ deadline' = ZeroTime
    /\ UNCHANGED <<metadata, timedOutAt, bufferVars>>

\* The frame is for the preview only.
recordIgnored ==
    /\ closed \/ state # "recording"
    /\ UNCHANGED <<sessionVars, timerVars, bufferVars, live>>

recordOverdue ==
    /\ ~closed /\ state = "recording"
    /\ now >= deadline
    /\ timeoutLocked

\* The live encoder gets its copy, unless its queue is full: then it is stopped.
recordAppended ==
    /\ ~closed /\ state = "recording"
    /\ now < deadline
    /\ Buffer!AppendOk(captured')
    /\ live' \in {NoLive} \cup (IF live = NoLive THEN {} ELSE {Append(live, captured')})
    /\ UNCHANGED <<sessionVars, timerVars>>

\* Append fails, and the recording is given up: Clear follows at once, with the
\* file as it was or a new one that is still empty.
recordFailed ==
    /\ ~closed /\ state = "recording"
    /\ now < deadline
    /\ stopTimerLocked
    /\ live' = NoLive
    /\ state' = "previewing" /\ lastError' = "append"
    /\ startedAt' = ZeroTime /\ deadline' = ZeroTime
    /\ Buffer!ClearOk \/ Buffer!ClearFails
    /\ UNCHANGED <<metadata, timedOutAt>>

Record ==
    /\ captured < MaxFrames
    /\ captured' = captured + 1
    /\ recordIgnored \/ recordOverdue \/ recordAppended \/ recordFailed
    /\ UNCHANGED <<maxDuration, closed, fired, jobs, now>>

\* exporter.enqueue: Detach of the buffer, then of the live encoder.
enqueued ==
    /\ Buffer!DetachOk
    /\ jobs' = Append(jobs, [frames |-> content, live |-> live])

Save ==
    /\ ~closed /\ state = "recording"
    /\ enqueued
    /\ stopTimerLocked
    /\ live' = NoLive
    /\ state' = "previewing" /\ metadata' = NoMetadata /\ lastError' = "none"
    /\ startedAt' = ZeroTime /\ deadline' = ZeroTime /\ timedOutAt' = ZeroTime
    /\ UNCHANGED <<maxDuration, closed, fired, now, captured>>

\* nextMetadata is nil (metadata stays) or the next segment's metadata.
SaveAndContinue(next) ==
    /\ ~closed /\ state = "recording"
    /\ generation < MaxGeneration
    /\ enqueued
    /\ beginLocked
    /\ metadata' = next
    /\ UNCHANGED <<maxDuration, closed, fired, now, captured>>

\* enqueue returns an error: before it detached anything (bad name, storage
\* directory, closed exporter, full queue), or because Detach did.
SaveFails ==
    /\ ~closed /\ state = "recording"
    /\ Buffer!DetachFails \/ UNCHANGED bufferVars
    /\ UNCHANGED <<sessionVars, maxDuration, closed, timerVars, fired, live, jobs,
                   now, captured>>

SetMaxDuration(d) ==
    /\ ~closed
    /\ maxDuration' = d
    /\ IF state # "recording"
       THEN UNCHANGED <<sessionVars, timerVars, bufferVars, live>>
       ELSE IF now >= startedAt + d
            THEN timeoutLocked
            ELSE /\ generation < MaxGeneration
                 /\ deadline' = startedAt + d
                 /\ rescheduleLocked(startedAt + d)
                 /\ UNCHANGED <<state, metadata, startedAt, timedOutAt, lastError,
                                bufferVars, live>>
    /\ UNCHANGED <<closed, fired, jobs, now, captured>>

Close ==
    /\ ~closed
    /\ closed' = TRUE
    /\ stopTimerLocked
    /\ live' = NoLive
    /\ UNCHANGED <<sessionVars, maxDuration, fired, bufferVars, jobs, now, captured>>

----------------------------------------------------------------------------
\* What happens outside s.mu.

Tick ==
    /\ now < MaxTime
    /\ now' = now + 1
    /\ UNCHANGED <<sessionVars, maxDuration, closed, timerVars, fired, bufferVars,
                   live, jobs, captured>>

\* The runtime starts the callback's goroutine, at the due time or later.
TimerFires ==
    /\ timer # NoTimer
    /\ now >= timer.at
    /\ fired' = fired \cup {timer}
    /\ timer' = NoTimer
    /\ UNCHANGED <<sessionVars, maxDuration, closed, generation, bufferVars, live,
                   jobs, now, captured>>

\* Slip: the generation is not compared.
callbackIgnoresGeneration(c) == ~closed /\ state = "recording"

\* The callback gets s.mu.  It looks at closed, state and generation only, and
\* does not compare the clock with the deadline.
callbackIsCurrent(c) == ~closed /\ state = "recording" /\ c.gen = generation

Callback(c) ==
    /\ c \in fired
    /\ fired' = fired \ {c}
    /\ IF callbackIsCurrent(c)
       THEN timeoutLocked
       ELSE UNCHANGED <<sessionVars, timerVars, bufferVars, live>>
    /\ UNCHANGED <<maxDuration, closed, jobs, now, captured>>

\* The live encoder's process ends or falls behind; its session is dropped.
LiveFails ==
    /\ live # NoLive
    /\ live' = NoLive
    /\ UNCHANGED <<sessionVars, maxDuration, closed, timerVars, fired, bufferVars,
                   jobs, now, captured>>

SetMemoryDuration ==
    /\ Buffer!WriteOut
    /\ UNCHANGED <<sessionVars, maxDuration, closed, timerVars, fired, live, jobs,
                   now, captured>>

Next ==
    \/ \E m \in Metadata \cup {NoMetadata} : Start(m)
    \/ Record
    \/ Save
    \/ \E next \in Metadata \cup {metadata, NoMetadata} : SaveAndContinue(next)
    \/ SaveFails
    \/ \E d \in Duration : SetMaxDuration(d)
    \/ Close
    \/ Tick
    \/ TimerFires
    \/ \E c \in fired : Callback(c)
    \/ LiveFails
    \/ SetMemoryDuration

Spec == Init /\ [][Next]_vars

\* Go's runtime starts due timers and its mutex hands over to starved waiters;
\* nothing is assumed of the camera, of the clients or of the encoder.
Fairness ==
    /\ WF_vars(TimerFires)
    /\ \A g \in 1..MaxGeneration + 2 : WF_vars(\E c \in fired : c.gen = g /\ Callback(c))

FairSpec == Spec /\ Fairness

----------------------------------------------------------------------------
\* Properties.

\* Every variable has its type; a timer or a started callback carries a
\* generation number that has been given out (recording.go:216-228).
TypeOK ==
    /\ state \in RecordingState /\ lastError \in Error
    /\ metadata \in Metadata \cup {NoMetadata}
    /\ startedAt \in Nat /\ deadline \in Nat /\ timedOutAt \in Nat
    /\ maxDuration \in Duration
    /\ closed \in BOOLEAN
    /\ generation \in Nat
    /\ timer \in {NoTimer} \cup [gen : 0..generation, at : Nat]
    /\ fired \subseteq [gen : 0..generation, at : Nat]
    /\ content \in Seq(Nat) /\ file \in Buffer!FileState /\ leftover \subseteq Nat
    /\ live \in {NoLive} \cup Seq(Nat)
    /\ jobs \in Seq([frames : Seq(Nat), live : {NoLive} \cup Seq(Nat)])
    /\ now \in Nat /\ captured \in Nat

\* The callbacks that may still run: armed in the runtime, or waiting for s.mu.
callbacks == fired \cup ({timer} \ {NoTimer})

\* A callback that would pass the generation check was scheduled for the
\* deadline the recording has now, although the check compares no times
\* (recording.go:223): the deadline moves only together with the generation.
CallbackMatchesDeadline ==
    /\ \A c \in fired : now >= c.at
    /\ state = "recording" =>
          /\ deadline = startedAt + maxDuration
          /\ \A c \in callbacks : c.gen = generation => c.at = deadline

\* A recording is never left without a callback that will end it: the timer is
\* replaced or kept on every path, the failing ones included
\* (recording.go:66-68, 132-135, 178-179).
RecordingIsGuarded ==
    state = "recording" /\ ~closed => \E c \in callbacks : c.gen = generation

\* Only a recording that has lasted its maximum duration is timed out and
\* discarded, whatever callbacks of earlier recordings or earlier settings are
\* still waiting for the lock (recording.go:216-254).
OnlyOverdueTimesOut ==
    [][state = "recording" /\ state' = "timedOut" => now >= startedAt + maxDuration']_vars

\* Outside a recording nothing is retained: the buffer has no frames and refers to
\* no spool file, and the live encoder takes no more.  A spool file that Clear could
\* not remove is no longer the buffer's: it is counted in leftover
\* (recording.go:93-103, 136-158, 238-254).
NothingHeldOutsideRecording ==
    state # "recording" => content = <<>> /\ file = "none" /\ live = NoLive

IsRun(s) == \A k \in 1..Len(s) : s[k] = s[1] + k - 1

\* Every saved segment is a gapless run of the frames the camera delivered, and
\* no frame is in two segments, or in a segment and still in the buffer.  What a
\* failed removal leaves on disk was discarded: it is in no segment, and in none to
\* come (recording.go:84-109, 119-159; buffer.go:131-146).
SegmentsAreRuns ==
    /\ IsRun(content)
    /\ content # <<>> /\ ~closed => content[Len(content)] = captured
    /\ \A i \in 1..Len(jobs) : jobs[i].frames # <<>> /\ IsRun(jobs[i].frames)
    /\ \A i \in 1..Len(jobs), f \in 1..captured :
            (\E k \in 1..Len(jobs[i].frames) : jobs[i].frames[k] = f) =>
                /\ \A k \in 1..Len(content) : f < content[k]
                /\ \A j \in i+1..Len(jobs) : \A k \in 1..Len(jobs[j].frames) :
                        f < jobs[j].frames[k]
    /\ \A f \in leftover :
            /\ \A k \in 1..Len(content) : content[k] # f
            /\ \A i \in 1..Len(jobs) : \A k \in 1..Len(jobs[i].frames) : jobs[i].frames[k] # f

EndsWith(s, t) ==
    /\ Len(t) <= Len(s)
    /\ \A k \in 1..Len(t) : s[Len(s) - Len(t) + k] = t[k]

\* A live encoding that is handed over with a segment misses no frame of it: its
\* input ends with exactly the segment's frames (recording.go:93-107, 128-132).
LiveCoversSegment ==
    /\ live # NoLive => EndsWith(live, content)
    /\ \A i \in 1..Len(jobs) :
            jobs[i].live # NoLive => EndsWith(jobs[i].live, jobs[i].frames)

\* README, "Control a Recording": a reset discards the unsaved recording, so a
\* saved video shows the frames of its segment and no others.
LiveIsSegment ==
    \A i \in 1..Len(jobs) : jobs[i].live # NoLive => jobs[i].live = jobs[i].frames

\* The promises of RecordingLifecycle: no timers, generations, files, encoders.
Lifecycle == INSTANCE RecordingLifecycle WITH
    Limit <- Duration, phase <- state, begun <- startedAt, limit <- maxDuration,
    kept <- content, delivered <- [i \in 1..Len(jobs) |-> jobs[i].frames]

\* Every step of the session is one of the lifecycle's, or invisible there.
LifecycleSpec == Lifecycle!Spec

\* An overdue recording does not last: its callback ends it, if nothing else
\* does (recording.go:216-228).
Overdue == state = "recording" /\ ~closed /\ now >= deadline
OverdueEnds == Overdue ~> ~Overdue
=============================================================================

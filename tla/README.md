# A TLA+ model of Video Recorder

This directory holds the formal model of the recorder: TLA+ modules translated
from the Go source, TLC configurations that check them on small instances, and
theorems proved with TLAPS. `PROJECT.json` lists the runs, the theorems, which
lines each definition models, and the hazards the properties are aimed at.

Run a check with `tlc -config MCExporter.cfg MCExporter`, and the proofs with
`tlapm` on each of the eight modules `RecordingSessionProofs.tla`,
`CaptureBufferProofs.tla`, `ExporterProofs.tla`, `LiveTranscoderProofs.tla`,
`CapturePipelineProofs.tla`, `ApplicationProofs.tla`, `MJPEGReaderProofs.tla` and
`CameraDetectorProofs.tla`.

## 1. The system

The recorder keeps one FFmpeg capture process running, cuts its MJPEG output
into frames, shows them to preview clients and, while a recording is active,
retains them. A save turns what is retained into an H.264 file in the
background. Everything is one Go process.

    ffmpeg --> CaptureService --> FrameHub --> preview clients
                    |
                    v  Record(frame)
              RecordingSession ----> CaptureBuffer (memory batch + spool file)
                ^   |    |  \------> LiveTranscoder --> ffmpeg (live encoding)
       HTTP API |   |timer|               |
                    v                     v  detached encoding
                 Exporter (queue, one worker) --> ffmpeg, published files

| Component | State it keeps | Operations | What makes it correct |
|---|---|---|---|
| RecordingSession (`internal/service/recording.go`) | state, metadata, deadline, timer and its generation, under `s.mu` | Start, Record, Save, SaveAndContinue, SetMaxDuration, Close, the timer's callback | a recording is timed out exactly when it is overdue; segments are gapless; outside a recording the buffer and the live encoder hold nothing; a failed call leaves things as they were |
| CaptureBuffer (`buffer.go`) | batch in memory, spool file, counters, under `b.mu` | Append, SetMemoryDuration, Detach, Clear, Close | each frame is in the file once and whole, even after failed writes; counters agree with the file; the batch is bounded |
| LiveTranscoder (`live_transcode.go`) | active and finalizing session, status, probe cache; per session a queue, flags, ffmpeg and two goroutines | Start, Write, Detach, Discard, Close, progress, process end | never a send on a closed channel; an incomplete encoding is not reported as good; no file or process is lost |
| Exporter (`export.go`) | job table, reserved names, counter, bounded channel, under `e.mu`; one worker | enqueue, run, export, publishLive, finish, Close | nothing is overwritten; status tells the truth; every accepted job ends; no deadlock at the queue's limit |
| FrameHub (`hub.go`) | subscribers, each a one-place channel | Subscribe, Publish | the newest frame wins; no send after unsubscription |
| CaptureService (`capture.go`) | run context, status, drawtext cache | Start, Reconfigure, Stop, retry loop | at most one capture process; retries until stopped; status is not stale |
| MJPEGReader (`mjpeg.go`) | position in the stream | ReadFrame | frames are cut at their markers whatever the read boundaries |
| Capture notifications (`cmd/recorder/capture_notifications.go`) | since when failing, last report | observe, every second | one alert per persistent failure, one recovery |
| Configuration (`internal/config`, `api/server.go`) | current configuration and its file | Update, Load, updateConfig, resetConfig | file, memory and components agree; a crash leaves a whole file |
| Start and shutdown (`cmd/recorder/main.go`) | stage, contexts | run | components are closed in an order in which nothing is removed while in use; a shutdown ends |
| Camera detection (`cameras.go`) | none beyond a call | Capabilities, List | the recommended mode is the best of those reported, on every platform |
| Single-instance lock | a file lock | acquire, release | one exclusive instance |
| Managed processes | one supervisor per FFmpeg | Start, kill on exit | no orphan keeps the camera |
| Directory picker, tray, desktop notifications, logger, web page | none or trivial | | pure I/O |

Hard behaviour, by component: stale timer callbacks and moved deadlines
(session); partial failure of file operations and their retries (buffer); a send
under a lock at a full queue, names that collide in case, results that come
late, other processes taking a name (exporter); three kinds of goroutine and a
process that may crash, hang or be slow, meeting on one session (transcoder);
restarts, a signal and Stop meeting the end of the last capture (capture
service); a channel that is emptied by two sides at once (hub); requests that
store and apply in separate critical sections, and a crash while saving
(configuration).
The full list, with lines, is in `PROJECT.json` under `hazards`.

Locks nest as `s.mu` > `e.mu` > (`b.mu` | `t.mu` | `session.mu`); no path takes
them in another order, so the models give each component its own locks only.

## 2. The modules

| Module | Models | Role |
|---|---|---|
| `RecordingLifecycle` | what a user is promised about a recording | abstract specification |
| `FrameBuffer` | what the session relies on from the buffer | abstract specification, used as a component |
| `RecordingSession` | `recording.go`, with buffer, encoder and exporter as it sees them | core module |
| `CaptureBuffer` | `buffer.go` | detailed component |
| `Exporter` | `export.go` and the end of the shutdown in `main.go` | detailed component |
| `LiveTranscoder` | `live_transcode.go`, and what the exporter does with its result | detailed component |
| `FrameHub` | `hub.go` and the preview handler of `server.go` | detailed component |
| `CaptureService` | `capture.go` | detailed component |
| `CaptureNotifications` | `capture_notifications.go` | detailed component |
| `CapturePipeline` | the three at work together | composition |
| `Configuration` | `internal/config`: validation, repair, load and save | detailed component |
| `Application` | `main.go`'s `run`, `updateConfig` and `resetConfig`, over `Configuration` | composition |
| `MJPEGReader` | `mjpeg.go` | sequential algorithm |
| `CameraDetector` | `cameras.go`: probes and recommendation | sequential algorithm |
| `RecordingSessionProofs`, `CaptureBufferProofs`, `ExporterProofs`, `LiveTranscoderProofs`, `CapturePipelineProofs`, `ApplicationProofs`, `MJPEGReaderProofs`, `CameraDetectorProofs` | | theorems |
| `MC...` | | instances for TLC |

They fit together by refinement and by composition. `CaptureBuffer` implements
`FrameBuffer` (checked and proved, `BufferContract`), and `RecordingSession` is
composed with `FrameBuffer` instead of the detailed buffer. `RecordingSession` in
turn implements `RecordingLifecycle` (checked and proved, `LifecycleSpec`).
`Exporter` and `LiveTranscoder` each contain the part of the other that they can
notice. `CapturePipeline` joins the actions of the capture service, the hub and
the monitor; `Application` those of the store with the handlers and the life of
the process. What each of these two needs of the rest is one outcome among
several: a frame may fail to be recorded, a component may report an error.

### RecordingSession
One action per method; `s.mu` is held from the first to the last statement, so
each is atomic. `Record` is four cases (`recordIgnored`, `recordOverdue`,
`recordAppended`, `recordFailed`). `time.AfterFunc` is `timer` (armed, with
generation and due time) and `fired` (callbacks whose goroutine has started and
waits for `s.mu`): `Stop` clears `timer` and leaves `fired` alone, as in Go.
Frames are numbered as the camera delivers them. `live` is the sequence of
frames the active live encoder was given, and `jobs` is what was handed to the
exporter. `content`, `file` and `leftover` are the buffer's, whose operations are
those of `FrameBuffer`. `stopTimerLocked` followed by `scheduleTimeoutLocked` advances the
generation twice, as in the code (`rescheduleLocked`).

### CaptureBuffer
Each frame has size one, so lengths stand for bytes and for frames. `disk` is
what the file really holds and `diskBytes` what the buffer believes. A failing
write leaves any proper prefix of the batch, and possibly a torn frame, before
the truncation. `file = "shut"` is a descriptor that was closed while `b.file`
still refers to it. `Clear` forgets the path of its file even when `os.Remove` fails
(`buffer.go:137-145`): the frames of such files are in `leftover`, and go only when
`Close` removes the whole directory. `FrameBuffer` has the same variable: discarding
a segment leaves nothing of it, or any first part of it in a file that nobody refers
to any more. So "holds nothing" is about what the buffer retains (`content`, `file`),
and `SegmentsAreRuns` says that no frame of a leftover file comes back in a segment.
`Fault` names what may fail. A truncation that fails as well
(`"truncate"`) is part of the model but not of the run: its error is ignored
(`buffer.go:214`), so the file then holds a torn batch before the retried one,
and `SegmentsAreIntact` cannot hold.

### Exporter
The worker is a small automaton (`worker.at`), one step between two acquisitions
of `e.mu` or two external effects. `enqueue` is one action up to the channel
send, which is its own action (`Send`) during which `e.mu` stays held
(`sending`): that is where it could block. `link` is `os.Link`, which fails when
the name exists; other processes may create files (`ForeignFile`). `Fold` and
`CaseSensitive` give names their case.

### LiveTranscoder
`caller` is the thread that holds `s.mu`; sessions are records with their flags,
queue length and the positions of `writeFrames` and `consumeProgress`. Actions
are critical sections of `t.mu` and of `session.mu`, so that what is read in one
and used in another may have changed. `Start` is `Discard`, then `Reset`, which forgets
the finalizing session, then `Configure`, which sets the status, then `Launch`:
between `Reset` and `Configure` the status may still show the session just forgotten.
`Launch` starts ffmpeg and makes the session active in one step, because nobody can
reach the session in between, but for a report of being slow, which a session cannot
make in its first ten seconds. `cancelled` processes end (`Killed`).
Discard's wait of three seconds restricts nothing: what follows may come before
or after the session's end.

### CaptureService, FrameHub, CaptureNotifications, CapturePipeline
Callers of `Start`, `Reconfigure` and `Stop` are in `calls`; `restartMu` is the
set of those that hold it. `stopCurrent` cancels the current run under it, the
caller then waits for the run's `done`, and starts the next one or finds the root
context cancelled. Each started capture is a record of `runs` with the position
of its goroutine (`captureOnce` from connect to wait, then the retry loop), its
context and its ffmpeg. What is read in one critical section of `s.mu` and used in
another is two actions: `Check` looks at the context, `Ended` and `Failed` write
the status. The drawtext probe runs under the run's context and remembers "no"
when it was killed.

In `FrameHub` each select statement of `Publish` is an action (`Offer`, `Drain`,
`OfferAgain`), because a client may receive between two of them; subscribing and
unsubscribing need the write lock, that is, no publication under way. `shown` is
what the client's connection was given last.

The monitor's `Observe` is one sample. Instants are kept as ages up to the limit
they are compared with, so the model has no clock of its own. `alerted` and
`unhealthyFor` are history: what the user has been told, and for how long no
sample was healthy. `resumed` records whether a frame came after an alert.

`CapturePipeline` publishes a frame between `ReadFrame` and `FrameDone` of the
capture that read it, as `captureOnce` does.

### Configuration, Application
A configuration is a record of what the code tells apart: the camera's input, one
Boolean for all other checks, one value for what a reset restores, and the three
parts that are applied separately. A save is `BeginSave` (lock, temporary file),
`WriteTemporary` (write, sync, close) and `Replace` (rename, and the value in
memory), or fails before the renaming. The process may die between any two, and
the file is what is found at the next start. `Edited` is what users may have
written to the file, `normalized` the repair of earlier versions' files.

A handler (`calls`) reads the previous configuration, updates the store, reads it
back (`updateConfig`) or goes on with its own copy (`resetConfig`), and applies
buffer, duration and capture one after the other, giving up at the first error.
`stage` is where `run` is; `http` to `buffer` name the component that is closed
next, and handlers may go on during all of them, because the HTTP shutdown gives
up after ten seconds.

### MJPEGReader, CameraDetector
`ReadFrame` byte by byte over an alphabet of the three marker bytes and one other;
a frame is its first and last position in the stream. `FramesAreCut` defines the
frames of a stream without a state machine: each goes from the first start marker
after the last frame to the first end marker after that.

`Capabilities` is the sequence of its probes. A report is a list of lines already
taken apart; what the code does with them (lists without duplicates, the order of
probing, the fall-backs, the score) is modelled as it is. `RecommendationIsBest`
says which mode must come out, over all reported ones.

## 3. The runs

| Run | Checks | Bounds and size |
|---|---|---|
| `recording_session` | `TypeOK`, `CallbackMatchesDeadline`, `RecordingIsGuarded`, `NothingHeldOutsideRecording`, `SegmentsAreRuns`, `LiveCoversSegment`, `OnlyOverdueTimesOut`, `LifecycleSpec`, `OverdueEnds` | durations 1 and 2, four clock values, three frames, generation below 5 when a recording starts; 364 000 states |
| `recording_reset` | `LiveIsSegment` (violated) | three frames, no metadata |
| `capture_buffer` | `TypeOK`, `BooksBalance`, `SegmentsAreIntact`, `BufferContract` | five frames, gaps 0 and 1, durations 1 and 2, every fault but truncation; 12 800 states |
| `capture_buffer_retry` | `StillSaveable` (violated) | three frames |
| `exporter` | `TypeOK`, `SendNeverBlocks`, `JobsAreBooked`, `StatusTellsTheTruth`, `NothingLeftBehind`, `SpoolOutlivesJobs`, `NeverOverwritten`, `EveryJobEnds` | three jobs, queue of 1 or 2 in a channel of 2, two kept jobs, one foreign file, a case-insensitive file system; 674 000 states |
| `live_transcoder` | `TypeOK`, `AcceptingIsOpen`, `GoodIsComplete`, `DetachedFileStays`, `NoForgottenEncoder`, `StatusNamesTheSession`, `EverySessionEnds` | two sessions, a queue of one frame; 389 000 states |
| `live_files` | `NoLiveFileLeft` (violated) | as above |
| `live_status` | `RunningIsActive` (violated) | as above |
| `capture_service` | `TypeOK`, `CaptureIsExclusive`, `StatusIsTrue`, `NewestFrameWins`, `NoticesAreEarned`, `KeepsCapturing` | one handler beside main, two captures, two frames, one client, a delay of 1 and a cooldown of 2 seconds; 364 000 states |
| `capture_recovery` | `RecoveryIsReal` (violated) | as above |
| `application` | `TypeOK`, `StoredIsApplied`, `FileIsWhole`, `ShutdownEnds` | two handlers with one request each in every life of the process, three requested configurations, five files; 153 000 states |
| `camera_input` | `FramesAreCut`, `RecommendationIsBest` | streams of nine bytes with frames of at most five; reports of two lines, three sizes, three lists of formats, six requests, all three platforms; 638 000 states |

Why the bounds are enough. A stale callback needs one recording to schedule it
and another to meet it: `MaxGeneration` allows two starts and a change of
duration, with time for the second recording to become overdue while the first
one's callback still waits. Three frames make a segment with a gap, or one that
begins too early, distinguishable. The buffer needs a batch of two frames, a
failed and a repeated write, and a second segment: five frames. The exporter
needs one job running, one queued and one refused or pruned; the constants keep
the relations of the real ones (queue size <= channel capacity, queue size <=
jobs kept), which is all the code relies on. The transcoder needs the current
session and an older one that is still ending.

The capture service needs a capture that is ending and one that replaces it, a
caller that restarts and main that stops; the same run retries without limit. The
hub needs a frame that is thrown away and the one that replaces it; clients do not
see each other. The delay and the cooldown only have to differ. Of the
application two overlapping requests are what a handler can notice of others, and
crashes repeat without a bound: the state after one is that of a first start with
the file as it was left. Nine bytes hold noise, two frames and the beginning of a
third, or a frame that is too large. Two lines make duplicates, ties and a better
mode after a worse one. What the proofs below cover, they cover without the bounds.

Deadlock checking is off where the system legitimately stops (clock and frames
used up, everything closed, the stream at its end) and on for `CaptureBuffer`.

Each property of a passing run is broken by a plausible slip in the code it is
about; the slips are defined in the modules, just before the definition they
would replace, and marked as such.

### Fairness
- `RecordingSession`: weak fairness of `TimerFires` and, per generation, of
  `Callback`. Go's runtime runs due timers, and `sync.Mutex` hands over to a
  starved waiter, so a callback gets the lock. Nothing is assumed of the camera
  or the clients. With it `OverdueEnds` says that an overdue recording is ended
  even if no frame ever arrives.
- `Exporter`: weak fairness of the worker's steps and of the blocked send. Each
  external wait of the worker is bounded by a timeout in the code (30 s for the
  live result, at least 45 s for ffmpeg, and the process is killed). No result,
  no client and no other process is assumed to act.
- `LiveTranscoder`: weak fairness of the caller's pending steps, of a session's
  writer when it is not blocked in a write to a running ffmpeg, of the kill of a
  cancelled process (`WaitDelay`) and of the exporter's use of a detached
  encoding. ffmpeg itself may stop reading or never end.
- `CapturePipeline`: weak fairness of each capture's goroutine where it does not
  wait for ffmpeg (`Unblocked`: a probe, a read and the wait for the process are
  not assumed to end by themselves), of the kill of a cancelled process, and of a
  publication's steps, none of which blocks. Strong fairness of a caller's steps:
  `restartMu` is free again and again, and a waiting `Lock` of a `sync.Mutex` is
  not overtaken for ever. Nothing is assumed of ffmpeg, clients and desktop.
- `Application`: weak fairness of main's steps after a cancellation, and of a
  save under way. The exporter closes only while the store can be read, since its
  last job may need the configuration. No other handler is assumed to answer.

### What the violations show
- `recording_reset`: `Start` returns early when `Clear` reports an error
  (`recording.go:66`) although the buffer is already empty. The live encoder is
  not restarted, and the next save publishes a video that starts with discarded
  frames.
- `capture_buffer_retry`: after a failing `Close` of the spool file in `Detach`
  (`buffer.go:112`) no later save can succeed; the failed save has changed the
  buffer.
- `live_files`: an encoder that crashes by itself is not `aborted`, so its
  temporary file is not removed (`live_transcode.go:534`), nor does anything else
  know of it any more.
- `live_status`: `Discard` clears `t.active` before the abort
  (`live_transcode.go:229`), so the status keeps saying `running`.
- `capture_recovery`: `captureOnce` reports a running capture without an error as
  soon as ffmpeg has been started (`capture.go:175`). A camera that fails at once
  is announced as recovered without a frame when the monitor samples that moment.

### Defects the models have, without a run of their own
- The drawtext probe runs under the context of its capture. If it is cancelled by
  a restart, "unavailable" is remembered for good (`capture.go:241`; `Probe`):
  later captures have no watermark until the program is restarted.
- After a read error that is not the end of the stream (a frame over 32 MiB)
  nobody reads ffmpeg's output any more and `Wait` may wait until the capture is
  restarted (`capture.go:200`). `KeepsCapturing` therefore speaks of captures
  whose ffmpeg has ended, and of calls that restart one.
- `updateConfig` stores and applies in separate critical sections
  (`server.go:195-217`). Two overlapping updates may be applied in the order
  opposite to their storing, and an update whose application fails half way stays
  stored with its later parts not applied, although README.md:165 says that
  settings "take effect immediately". `StoredIsApplied` names these two cases as
  its exceptions (`crossed`, `failed`) and shows that there is no third.
- A segment is discarded, on a timeout or before a new recording, but its spool file
  cannot be removed: `Clear` returns an error and forgets the path
  (`buffer.go:137-145`; `leftover`). After a timeout `lastError` tells of it. The file
  stays on disk until the buffer's `Close` removes the directory, while README.md:167
  says that "all unsaved memory and temporary-file data is deleted".
- A failing truncation in the buffer (above).

## 4. What is proved

All of it for every value of the constants: any number of frames, jobs, names,
sessions, callers, clients, handlers and configurations, streams of any length and
any reports about a camera. Only the theorems about
`CaptureBuffer` that are marked with a star assume more than their module does:
that a truncation does not fail (`"truncate" \notin Fault`).

| Module | Theorem | Statement |
|---|---|---|
| `RecordingSessionProofs` | `TypeCorrect` | `Spec => []TypeOK` |
| | `CallbacksMatch` | `Spec => []CallbackMatchesDeadline` |
| | `RecordingsAreGuarded` | `Spec => []RecordingIsGuarded` |
| | `NoEarlyTimeout` | `Spec => OnlyOverdueTimesOut` |
| | `NothingIsHeld` | `Spec => []NothingHeldOutsideRecording` |
| | `SegmentsStayRuns` | `Spec => []SegmentsAreRuns` |
| | `LiveStaysComplete` | `Spec => []LiveCoversSegment` |
| | `LifecycleIsKept` | `Spec => LifecycleSpec` (refinement) |
| `CaptureBufferProofs` | `TypeCorrect` | `Spec => []TypeOK` |
| | `BooksStayBalanced` * | `Spec => []BooksBalance` |
| | `SegmentsStayIntact` * | `Spec => []SegmentsAreIntact` |
| | `ContractIsKept` * | `Spec => BufferContract` (refinement) |
| `ExporterProofs` | `TypeCorrect` | `Spec => []TypeOK` |
| | `SendsNeverBlock` | `Spec => []SendNeverBlocks` |
| | `BooksAreRight` | `Spec => []JobsAreBooked` |
| | `StatusIsTrue` | `Spec => []StatusTellsTheTruth` |
| | `NothingStaysBehind` | `Spec => []NothingLeftBehind` |
| | `SpoolOutlives` | `Spec => []SpoolOutlivesJobs` |
| | `NothingIsOverwritten` | `Spec => NeverOverwritten` |
| `LiveTranscoderProofs` | `TypeCorrect` | `Spec => []TypeOK` |
| | `AcceptingStaysOpen` | `Spec => []AcceptingIsOpen` |
| | `GoodStaysComplete` | `Spec => []GoodIsComplete` |
| | `DetachedFileIsKept` | `Spec => []DetachedFileStays` |
| | `EncodersAreWatched` | `Spec => []NoForgottenEncoder` |
| | `StatusStaysNamed` | `Spec => []StatusNamesTheSession` |
| `CapturePipelineProofs` | `TypeCorrect` | `Spec => []TypeOK` |
| | `CaptureStaysExclusive` | `Spec => []CaptureIsExclusive` |
| | `StatusStaysTrue` | `Spec => []StatusIsTrue` |
| | `NewestAlwaysWins` | `Spec => []NewestFrameWins` |
| | `NoticesStayEarned` | `Spec => NoticesAreEarned` |
| `ApplicationProofs` | `TypeCorrect` | `Spec => []TypeOK` |
| | `FileStaysWhole` | `Spec => []FileIsWhole` |
| | `StoredGetsApplied` | `Spec => []StoredIsApplied` |
| `MJPEGReaderProofs` | `FramesAreWhole` | `ReaderSpec => []FramesAreCut` |
| `CameraDetectorProofs` | `BestModeIsRecommended` | `DetectorSpec => []RecommendationIsBest` |

Every safety property of every passing run is among them.

### The arguments
**RecordingSession.** A callback compares generations, never times, so "only an
overdue recording is timed out" is not inductive by itself. `TimerInv` says that in
a recording everything that carries the current generation was scheduled for the
current deadline, that something carries it, and that no callback starts before
its time; `TypeOK` adds that nobody carries a generation that has not been given
out. Stopping the timer makes every callback stale (`StopTimer`), scheduling
makes exactly the new timer current (`Reschedule`), and every other step keeps
timer, deadline and generation together (`NextTimerInv`). From `TimerInv` a
current callback finds the deadline passed (`NextTimesOut`), which is also the
only hard case of the refinement: there the step is the lifecycle's `Expire`,
whose guard is about the clock (`NextLifecycle`). `FramesInv` orders the segments:
each is a run, each begins after the one before, and what is retained comes after
all of them and reaches the frame captured last. A step makes the content grow by
the next frame, empties it, hands it over or leaves it. `LeftoverInv` says that the
frames of files that could not be removed are older than the content and in no
segment: a frame becomes leftover only when the content it is in is thrown away.
`LiveCoversSegment` says that a live encoding ends with its segment, not that it is no
longer; after a failed reset it is (`recording_reset`).

**CaptureBuffer.** What the buffer holds is `Held`, the file followed by the batch;
a flush moves frames inside it, a failed one leaves it after the truncation. Every
call accepts the next frame, keeps `Held`, hands it over or throws it away, and
this one case distinction (`NextBooks`) carries all three theorems: `BooksInv`
says the counters are the lengths, `SegmentsInv` that `Held` is the last frames
appended and each detached segment an older run, and the refinement maps each of the
four cases to steps of `FrameBuffer`: what is thrown away to `ClearOk`, `ClearFails`
or `Close`, where a leftover file holds a first part of `Held` (`HeldStartsWithDisk`).

**Exporter.** `CountInv`: `pending` is the length of the queue plus the job being
sent plus the one worked on; admission compares `pending` with a queue size that is
at most the channel's capacity, so the send has room. `LineInv`: the unfinished jobs
are exactly those being sent, queued (each once) or worked on; so the worker's job
is unfinished, and with `SpoolInv` nothing is left when the directory is removed.
`LeftInv` says what the worker has removed or not made yet at each of its steps,
`EncoderInv` by which encoder its job will be published, and `FilesInv` whether it
has been; together they give the truth of the status. `NameInv` and `NumberInv`
count: an accepted job adds one unfinished job and one name that no other has, a
finished one removes both; pruning takes a finished job or none is finished, and
then there are fewer than the queue admits.

**LiveTranscoder.** Writer, progress reader, ffmpeg and caller share a session's
flags and meet under its lock only, so the invariant says what the flags of one
session mean for each other at any moment (`Sound`): its channel is closed exactly
when it accepts no more, an aborted one has been cancelled, and one that has missed a
frame has failed or been aborted, so it cannot be reported as good. An operation on a
session keeps `Sound` and never reopens, revives or hands over (`Kept`, one lemma for
each of the code's functions). What relates sessions is separate. `HandInv`: only the
caller hands a session over, so the active one, and the one the caller is about to
write to or to stop, has not been. That is what makes the next two inductive: what
the exporter holds has its file and nobody stops it (`FileInv`), and a running encoder
that nobody has stopped is active, the exporter's or the caller's (`EncoderInv`).
`StatusInv` ties the status to the active session or to the finalizing one, of which
there is never both, so that the reports of an older session leave it alone; while
the caller is at `configure` there is neither, and the status is not tied to any.

**CapturePipeline.** `ExclusiveInv`: a capture that is not over is the current one,
or the caller that holds `restartMu` has taken it and waits for it; while somebody
holds `restartMu` there is no current one. So a new capture starts only when the
last is over, and after `Stop` the root is gone (`CallInv` gives the calls their
types). `StatusInv` follows the one goroutine that may write the status. `HubInv`
says that each subscriber has the last frame, in its channel or on its screen, until
`Publish` comes to it, and the new one afterwards; between `Drain` and `OfferAgain`
its channel is empty or has just been emptied. `NoticeInv`: the age of a failure is
below the number of samples without a healthy one.

**Application.** `StoreInv`: who holds the store's lock, that what is being saved is
a configuration the next start would accept unchanged, and that the file is the one
in memory while the program runs; it holds across crashes because only the renaming
touches the file. `ApplyInv`: unless requests have crossed or applying has failed,
at most one handler is between storing and its answer, and what is in force is what
it had read, with the parts it has applied so far replaced (`InStep`).

**MJPEGReader.** `FramesAreCut` speaks of first markers, the reader of one remembered
byte. `ReaderInv` joins them: while it searches, no start marker has passed since the
last frame, and the byte it remembers is the last of the stream unless that one belongs
to a frame; while it collects, the frame reaches the end of the stream, began at the
first start marker and has no end marker yet. One more byte makes at most one more
marker, the one that ends with it, so a step decides the question for one position
only. A limit of two bytes or more (the code has 32 MiB) is needed because `Start` does
not look at the limit.

**CameraDetector.** What `recommendCameraMode` returns is a recursive function over the
modes, and the lists without duplicates are folds. The library's theorems on induction
take an operator that the provers cannot instantiate; `UpTo` says the same of a set of
numbers, and follows from `Least`. With it a loop of any length exists as a function
(`Loop`), so does a fold (`Fold`), and a fold keeps what its operator keeps
(`FoldKeeps`). After `k` rounds the loop holds the first of the best among the first `k`
modes (`LoopFindsBest`); in the last step of `Capabilities` these are all modes, and the
fall-backs answer for the case that none fits (`AnswerIsBest`).

### The assumptions
They are named in the modules and evaluated by TLC for every instance: durations are
positive and gaps are numbers; `NoTimer`, `NoLive`, `Never`, `Main`, `Loader` and
`NoOne` are not values of the sets they are told apart from; a configured queue
size is at least 1, at most the channel's capacity and at most the number of jobs
kept (`config.go` validates 1 to 100; the code has 100 and 200); the delay is
shorter than the cooldown; the default configuration is valid and needs no repair; a
live session's queue holds at least one frame; a frame of two bytes is not too large;
sizes and rates are natural numbers; formats and codecs that ffmpeg reports are
nonempty texts, and `parseAVFoundationPixelFormats` reports none twice
(`cameras.go:237`). The prover does not know that a literal is a string, so
`CameraDetectorProofs` works in `Text`, the strings and the module's literals.

### Only model-checked
- Liveness: `OverdueEnds`, `EveryJobEnds`, `EverySessionEnds`, `KeepsCapturing`,
  `ShutdownEnds`. Liveness under fairness is out of the prover's reach here.
  It would need the ENABLED of every action they rest on. What they take from the
  invariants is proved: an active recording always has a timer or a waiting callback,
  and the exporter's send always finds room.

## 5. Not modelled

- Contents of frames and videos, FFmpeg arguments, logging, HTTP routing, JSON and
  CORS, read-only handlers, the Console page, tray, native notifications' texts.
- File-name normalisation and the day or month directory: names are members of a
  set with a case-folding function.
- The probing of encoders and its cache: starting an encoder succeeds or fails.
- The age limit of ten seconds for a slow encoder: it may be too slow at any
  time while it accepts frames.
- The regular expressions that take ffmpeg's reports apart, and the list of
  cameras: `CameraDetector` starts from lines that were taken apart.
- The websocket protocol of the preview: a client may leave or fail at any time.
- The single-instance lock and the process supervisors: one call to the operating
  system, or a script outside the program; a cancelled process ends in the end.
- The search for a free port, directory picker, browser and desktop integration:
  input and output without state.

## 6. State of the plan

Done: the recording session and its abstract lifecycle; the buffer and its contract;
the exporter; the live transcoder; the capture service with hub and notifications;
configuration, application start and shutdown; the MJPEG reader and the camera
modes; the safety theorems of all of them.

Left, in this order:

1. `EncoderSelection`: the probing of encoders with its cache, and the fall-back
   from one to the next, in place of the one outcome `LiveTranscoder` has.
2. `TargetName`: normalisation and the storage layout as operators over symbols,
   against what `Exporter` assumes of `Candidate` and `Fold`.
3. `RecordingSession` composed with `Exporter`, to show that a refused save, and a
   save at shutdown, leave the session's content where it was.

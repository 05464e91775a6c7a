------------------------------ MODULE Exporter ------------------------------
(***************************************************************************)
(* service.Exporter (internal/service/export.go): a bounded queue of jobs, *)
(* one worker goroutine that publishes each job's segment under the file   *)
(* name reserved for it, from the live encoding if that succeeded, else by *)
(* encoding the segment; and the shutdown that main performs: Close waits  *)
(* for the worker, then the capture buffer removes its spool directory.    *)
(*                                                                         *)
(* e.mu is explicit where it matters: enqueue sends to the queue while it  *)
(* holds it, and the worker needs it between its steps.  enqueue itself is *)
(* called under the recording session's lock, one call at a time.          *)
(***************************************************************************)
EXTENDS Naturals, Sequences, FiniteSets

CONSTANTS
    Base,           \* normalised file names a client may ask for
    Candidate,      \* Candidate[b]: b, b_01, b_02, ... as target paths
    Fold,           \* Fold[t]: the target path in lower case
    CaseSensitive,  \* does the file system tell t from Fold[t]?
    QueueSize,      \* the values export.queueSize may be configured to
    QueueCap,       \* capacity of the queue channel (100)
    MaxKept,        \* finished jobs are forgotten beyond this number (200)
    MaxJobs,        \* bound: jobs accepted in one behaviour
    MaxForeign      \* bound: files other processes create

Target == UNION {{Candidate[b][n] : n \in 1..Len(Candidate[b])} : b \in Base}

ASSUME QueueAssumption ==
    /\ QueueCap \in Nat /\ MaxKept \in Nat /\ MaxJobs \in Nat
    /\ QueueSize \subseteq 1..QueueCap      \* config.validate: 1 to 100
    /\ \A q \in QueueSize : q <= MaxKept    \* 100 and 200

VARIABLES
    jobs,           \* e.jobs: what Status reports, by job id
    target,         \* job.targetPath
    live,           \* job.live's result: "none", "pending", "good", "bad"
    activeNames, pending, sequence, closed, queue,
    sending,        \* the job enqueue is sending, with e.mu held; 0 if none
    worker,         \* what the worker does next, and for which job
    segments, temps, encodings,     \* jobs whose spool, .part and live files exist
    files,          \* published files: the job that made each, or 0
    spoolRemoved    \* buffer.Close has removed the spool directory

vars == <<jobs, target, live, activeNames, pending, sequence, closed, queue,
          sending, worker, segments, temps, encodings, files, spoolRemoved>>

Foreign == [job |-> 0, live |-> FALSE]

Init ==
    /\ jobs = <<>> /\ target = <<>> /\ live = <<>>
    /\ activeNames = {} /\ pending = 0 /\ sequence = 0 /\ closed = FALSE
    /\ queue = <<>> /\ sending = 0
    /\ worker = [at |-> "idle", job |-> 0]
    /\ segments = {} /\ temps = {} /\ encodings = {}
    /\ files = <<>>
    /\ spoolRemoved = FALSE

Same(t, u) == IF CaseSensitive THEN t = u ELSE Fold[t] = Fold[u]
Exists(t) == \E f \in DOMAIN files : Same(f, t)

With(f, k, v) == [x \in DOMAIN f \cup {k} |-> IF x = k THEN v ELSE f[x]]
Without(f, k) == [x \in DOMAIN f \ {k} |-> f[x]]

muFree == sending = 0
Unfinished(id) == jobs[id].state \in {"queued", "running"}

----------------------------------------------------------------------------
\* enqueue

\* Slips: only the names of running jobs, or only existing files, are avoided.
availableIgnoresActive(t) == ~Exists(t)

available(t) == ~Exists(t) /\ Fold[t] \notin activeNames

\* The first candidate that is neither reserved nor on disk.
nextAvailableTargetLocked(b, t) ==
    \E n \in 1..Len(Candidate[b]) :
        /\ t = Candidate[b][n] /\ available(t)
        /\ \A m \in 1..n - 1 : ~available(Candidate[b][m])

\* Slip: one job too many is let in.
queueHasRoomForOneMore(size) == pending <= size

queueHasRoom(size) == pending < size

\* Slip: jobs are forgotten in no order, and unfinished ones are not spared.
pruneAnyLocked(known) ==
    IF Cardinality(DOMAIN known) <= MaxKept
    THEN known
    ELSE Without(known, CHOOSE id \in DOMAIN known : \A o \in DOMAIN known : id >= o)

\* Beyond MaxKept the oldest finished job is forgotten.
pruneJobsLocked(known) ==
    LET finished == {id \in DOMAIN known : known[id].state \in {"completed", "failed"}}
    IN  IF Cardinality(DOMAIN known) <= MaxKept \/ finished = {}
        THEN known
        ELSE Without(known, CHOOSE id \in finished : \A o \in finished : id <= o)

\* enqueue up to the send: the segment and the live encoding are detached, the
\* name is reserved and the job is recorded.  size is the queue size of the
\* configuration as it was before e.mu was taken.  The early returns leave
\* everything as it was.
Enqueue(b, size, encoding) ==
    LET id == sequence + 1 IN
    /\ muFree /\ sequence < MaxJobs
    /\ ~closed
    /\ queueHasRoom(size)
    /\ \E t \in Target :
        /\ nextAvailableTargetLocked(b, t)
        /\ target' = With(target, id, t)
        /\ activeNames' = activeNames \cup {Fold[t]}
    /\ sequence' = id
    /\ live' = With(live, id, encoding)
    /\ encodings' = IF encoding = "none" THEN encodings ELSE encodings \cup {id}
    /\ segments' = segments \cup {id}
    /\ jobs' = pruneJobsLocked(
                   With(jobs, id, [state |-> "queued", live |-> encoding # "none"]))
    /\ pending' = pending + 1
    /\ sending' = id
    /\ UNCHANGED <<closed, queue, worker, temps, files, spoolRemoved>>

\* e.queue <- job blocks while the channel is full.
Send ==
    /\ sending # 0
    /\ Len(queue) < QueueCap
    /\ queue' = Append(queue, sending)
    /\ sending' = 0
    /\ UNCHANGED <<jobs, target, live, activeNames, pending, sequence, closed, worker,
                   segments, temps, encodings, files, spoolRemoved>>

----------------------------------------------------------------------------
\* The worker: run, export, publishLive.

job == worker.job
goto(step) == worker' = [worker EXCEPT !.at = step]

Receive ==
    /\ worker.at = "idle"
    /\ queue # <<>>
    /\ queue' = Tail(queue)
    /\ worker' = [at |-> "received", job |-> Head(queue)]
    /\ UNCHANGED <<jobs, target, live, activeNames, pending, sequence, closed, sending,
                   segments, temps, encodings, files, spoolRemoved>>

setRunning ==
    /\ worker.at = "received" /\ muFree
    /\ jobs' = [jobs EXCEPT ![job].state = "running"]
    /\ goto(IF live[job] = "none" THEN "encode" ELSE "awaitLive")
    /\ UNCHANGED <<target, live, activeNames, pending, sequence, closed, queue, sending,
                   segments, temps, encodings, files, spoolRemoved>>

\* Slip: the worker waits for a result as long as it takes.
AwaitLiveForever ==
    /\ worker.at = "awaitLive"
    /\ \/ live[job] = "good" /\ goto("linkLive") /\ UNCHANGED encodings
       \/ live[job] = "bad" /\ goto("fallback") /\ encodings' = encodings \ {job}
    /\ UNCHANGED <<jobs, target, live, activeNames, pending, sequence, closed, queue,
                   sending, segments, temps, files, spoolRemoved>>

\* publishLive up to the moment it links: a good result is linked next, a bad
\* one, an empty file or 30 s without a result ends in the fallback.
AwaitLive ==
    /\ worker.at = "awaitLive"
    /\ \/ live[job] = "good" /\ goto("linkLive") /\ UNCHANGED encodings
       \/ goto("fallback") /\ encodings' = encodings \ {job}
    /\ UNCHANGED <<jobs, target, live, activeNames, pending, sequence, closed, queue,
                   sending, segments, temps, files, spoolRemoved>>

\* Slip: publishing replaces what is there, as a rename would.
linkReplaces(t, made) == files' = With(files, t, made)

\* os.Link fails when the name exists.
link(t, made) == ~Exists(t) /\ files' = With(files, t, made)

\* os.Link of the live file, or of a synced copy of it on the target's file
\* system.  Either way the live file is removed.
LinkLive ==
    /\ worker.at = "linkLive"
    /\ \/ /\ link(target[job], [job |-> job, live |-> TRUE])
          /\ segments' = segments \ {job}
          /\ goto("completed")
       \/ goto("fallback") /\ UNCHANGED <<segments, files>>
    /\ encodings' = encodings \ {job}
    /\ UNCHANGED <<jobs, target, live, activeNames, pending, sequence, closed, queue,
                   sending, temps, spoolRemoved>>

\* Slip: the state of live transcoding is stored as the state of the job.
FallbackAsState ==
    /\ worker.at = "fallback" /\ muFree
    /\ jobs' = [jobs EXCEPT ![job] = [state |-> "fallback", live |-> FALSE]]
    /\ goto("encode")
    /\ UNCHANGED <<target, live, activeNames, pending, sequence, closed, queue, sending,
                   segments, temps, encodings, files, spoolRemoved>>

\* updateRunningStatus: the segment will be encoded with libx264.
Fallback ==
    /\ worker.at = "fallback" /\ muFree
    /\ jobs' = [jobs EXCEPT ![job].live = FALSE]
    /\ goto("encode")
    /\ UNCHANGED <<target, live, activeNames, pending, sequence, closed, queue, sending,
                   segments, temps, encodings, files, spoolRemoved>>

\* ffmpeg reads the segment; on failure or timeout a partial file may be left,
\* until the deferred removals.
Encode ==
    /\ worker.at = "encode"
    /\ \/ job \in segments /\ ~spoolRemoved /\ temps' = temps \cup {job} /\ goto("link")
       \/ temps' \in {temps, temps \cup {job}} /\ goto("failedCleanup")
    /\ UNCHANGED <<jobs, target, live, activeNames, pending, sequence, closed, queue,
                   sending, segments, encodings, files, spoolRemoved>>

\* Slip: a link that fails is taken for success, since the file is there.
LinkKeepsGoing ==
    /\ worker.at = "link"
    /\ \/ link(target[job], [job |-> job, live |-> FALSE])
       \/ UNCHANGED files
    /\ goto("cleanup")
    /\ UNCHANGED <<jobs, target, live, activeNames, pending, sequence, closed, queue,
                   sending, segments, temps, encodings, spoolRemoved>>

Link ==
    /\ worker.at = "link"
    /\ \/ link(target[job], [job |-> job, live |-> FALSE]) /\ goto("cleanup")
       \/ goto("failedCleanup") /\ UNCHANGED files
    /\ UNCHANGED <<jobs, target, live, activeNames, pending, sequence, closed, queue,
                   sending, segments, temps, encodings, spoolRemoved>>

\* Slip: the temporary file is removed only after a success.
CleanupOnSuccess ==
    /\ worker.at \in {"cleanup", "failedCleanup"}
    /\ temps' = IF worker.at = "cleanup" THEN temps \ {job} ELSE temps
    /\ segments' = segments \ {job}
    /\ goto(IF worker.at = "cleanup" THEN "completed" ELSE "failed")
    /\ UNCHANGED <<jobs, target, live, activeNames, pending, sequence, closed, queue,
                   sending, encodings, files, spoolRemoved>>

\* The deferred removals of export.
Cleanup ==
    /\ worker.at \in {"cleanup", "failedCleanup"}
    /\ temps' = temps \ {job}
    /\ segments' = segments \ {job}
    /\ goto(IF worker.at = "cleanup" THEN "completed" ELSE "failed")
    /\ UNCHANGED <<jobs, target, live, activeNames, pending, sequence, closed, queue,
                   sending, encodings, files, spoolRemoved>>

finish ==
    /\ worker.at \in {"completed", "failed"} /\ muFree
    /\ jobs' = [jobs EXCEPT ![job].state = worker.at]
    /\ activeNames' = activeNames \ {Fold[target[job]]}
    /\ pending' = IF pending > 0 THEN pending - 1 ELSE 0
    /\ worker' = [at |-> "idle", job |-> 0]
    /\ UNCHANGED <<target, live, sequence, closed, queue, sending, segments, temps,
                   encodings, files, spoolRemoved>>

----------------------------------------------------------------------------
\* Shutdown, and what surrounds the exporter.

Close ==
    /\ ~closed /\ muFree
    /\ closed' = TRUE
    /\ UNCHANGED <<jobs, target, live, activeNames, pending, sequence, queue, sending,
                   worker, segments, temps, encodings, files, spoolRemoved>>

\* Slip: Close returns without waiting for the worker.
workerMayStillRun == closed

\* The worker's range over the closed queue has ended, so e.wg.Wait returns.
workerDone == closed /\ queue = <<>> /\ worker.at = "idle"

\* main: exporter.Close() has returned; buffer.Close() removes the directory.
RemoveSpool ==
    /\ workerDone
    /\ ~spoolRemoved
    /\ spoolRemoved' = TRUE
    /\ segments' = {}
    /\ UNCHANGED <<jobs, target, live, activeNames, pending, sequence, closed, queue,
                   sending, worker, temps, encodings, files>>

\* A detached live encoding ends; see LiveTranscoder.  Nobody looks at a result
\* that arrives when the job has finished without it.
LiveResult(id) ==
    /\ live[id] = "pending"
    /\ id \in encodings
    /\ live' \in {[live EXCEPT ![id] = r] : r \in {"good", "bad"}}
    /\ UNCHANGED <<jobs, target, activeNames, pending, sequence, closed, queue, sending,
                   worker, segments, temps, encodings, files, spoolRemoved>>

\* Another process, or another instance, creates a file of that name.
ForeignFile(t) ==
    /\ Cardinality({f \in DOMAIN files : files[f] = Foreign}) < MaxForeign
    /\ link(t, Foreign)
    /\ UNCHANGED <<jobs, target, live, activeNames, pending, sequence, closed, queue,
                   sending, worker, segments, temps, encodings, spoolRemoved>>

WorkerStep ==
    \/ Receive \/ setRunning \/ AwaitLive \/ LinkLive \/ Fallback
    \/ Encode \/ Link \/ Cleanup \/ finish

Next ==
    \/ \E b \in Base, size \in QueueSize, encoding \in {"none", "pending"} :
           Enqueue(b, size, encoding)
    \/ Send
    \/ WorkerStep
    \/ Close
    \/ RemoveSpool
    \/ \E id \in 1..sequence : LiveResult(id)
    \/ \E t \in Target : ForeignFile(t)

\* The scheduler runs the worker and the blocked sender; every external step of
\* the worker has a timeout of its own, so each of its steps ends.
Fairness == WF_vars(WorkerStep) /\ WF_vars(Send)

Spec == Init /\ [][Next]_vars /\ Fairness

----------------------------------------------------------------------------
\* Properties.

JobState == {"queued", "running", "completed", "failed"}
Step == {"idle", "received", "awaitLive", "linkLive", "fallback", "encode", "link",
         "cleanup", "failedCleanup", "completed", "failed"}

\* Every variable has its type, and the worker holds a job except when it waits
\* for one (export.go:59-73).
TypeOK ==
    /\ DOMAIN jobs \subseteq 1..sequence
    /\ \A id \in DOMAIN jobs : jobs[id] \in [state : JobState, live : BOOLEAN]
    /\ target \in [1..sequence -> Target]
    /\ live \in [1..sequence -> {"none", "pending", "good", "bad"}]
    /\ activeNames \subseteq {Fold[t] : t \in Target}
    /\ pending \in Nat /\ sequence \in 0..MaxJobs /\ closed \in BOOLEAN
    /\ queue \in Seq(1..sequence) /\ sending \in 0..sequence
    /\ worker.at \in Step /\ worker.job \in 0..sequence
    /\ worker.at = "idle" <=> worker.job = 0
    /\ segments \subseteq 1..sequence /\ temps \subseteq 1..sequence
    /\ encodings \subseteq 1..sequence
    /\ DOMAIN files \subseteq Target
    /\ spoolRemoved \in BOOLEAN

\* enqueue, which holds e.mu, never waits for room in the channel - the worker
\* could not make any without e.mu - and never sends on the closed channel
\* (export.go:106-162, 210-218).
SendNeverBlocks == sending # 0 => Len(queue) < QueueCap /\ ~closed

ActiveJobs == {id \in 1..sequence : id \in DOMAIN jobs /\ Unfinished(id)}

\* The reserved names are those of the unfinished jobs, no two of which have the
\* same name whatever the case, and pending counts them; a job that is queued or
\* being worked on can be asked for, and the number of jobs remembered is bounded
\* (export.go:115-160, 374-406).
JobsAreBooked ==
    /\ activeNames = {Fold[target[id]] : id \in ActiveJobs}
    /\ Cardinality(activeNames) = Cardinality(ActiveJobs)
    /\ pending = Cardinality(ActiveJobs)
    /\ {queue[k] : k \in DOMAIN queue} \cup ({worker.job} \ {0}) \subseteq ActiveJobs
    /\ Cardinality(DOMAIN jobs) <= MaxKept

\* No published file is ever replaced, whoever made it (README: "Existing files
\* are never overwritten"; export.go:284-288, 317-320, 353).
NeverOverwritten ==
    [][\A t \in DOMAIN files : t \in DOMAIN files' /\ files'[t] = files[t]]_vars

\* A completed job's file is there, made by that job, by the encoder its status
\* names; a failed job has published nothing (export.go:235-290, 374-387).
StatusTellsTheTruth ==
    \A id \in DOMAIN jobs :
        /\ jobs[id].state = "completed" =>
              /\ target[id] \in DOMAIN files
              /\ files[target[id]] = [job |-> id, live |-> jobs[id].live]
        /\ jobs[id].state = "failed" => \A t \in DOMAIN files : files[t].job # id

\* A finished job leaves no spool, partial or live file behind (export.go:238,
\* 253-256, 293, 327).
NothingLeftBehind ==
    \A id \in 1..sequence \ ActiveJobs : id \notin segments \cup temps \cup encodings

\* The spool directory, which holds the detached segments, outlives every job
\* that was accepted (main.go:152-157).
SpoolOutlivesJobs == spoolRemoved => ActiveJobs = {}

\* Every accepted job ends, although the client, the live encoder and other
\* processes do as they like (export.go:220-233).
EveryJobEnds ==
    \A id \in 1..MaxJobs : (id \in ActiveJobs) ~> (id \notin ActiveJobs)
=============================================================================

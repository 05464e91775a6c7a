----------------------------- MODULE Application -----------------------------
(***************************************************************************)
(* The life of the program (run in cmd/recorder/main.go) and the handlers  *)
(* that change its configuration (updateConfig and resetConfig in          *)
(* internal/api/server.go): it is loaded, the components are created with  *)
(* it, handlers store another one and apply what has changed, and at       *)
(* shutdown the components are closed one by one under handlers that may   *)
(* still be running.  It may crash at any time and be started again.       *)
(***************************************************************************)
EXTENDS Configuration, Sequences, Functions

VARIABLES
    stage,      \* of run, see Stages
    cancelled,  \* appCtx: "no", or by "quit" or "signal", which cancels root too
    applied,    \* what buffer, recording session and capture were last told
    calls,      \* where each handler is
    \* history, of this life of the process
    crossed,    \* has an update been stored while another one was between its first
                \* look at the configuration and its end?
    failed      \* has applying one failed?

appVars == <<stage, cancelled, applied, calls, crossed, failed>>
vars == <<storeVars, appVars>>

\* The stages of run.  "http" to "buffer" name the component to be closed next.
Stages == <<"down", "loading", "loaded", "serving", "http", "capture", "session",
            "exporter", "buffer", "closed">>
stageNumber(s) == CHOOSE i \in DOMAIN Stages : Stages[i] = s
closed(component) == stageNumber(stage) > stageNumber(component)
Up == {s \in Range(Stages) : stageNumber(s) >= stageNumber("serving")}

\* captureRequiresRestart compares these.
captureOf(c) == [source |-> c.source, device |-> c.device, pixelFormat |-> c.pixelFormat,
                 videoCodec |-> c.videoCodec, size |-> c.size]
appliedOf(c) == [buffer |-> c.buffer, maxDuration |-> c.maxDuration,
                 capture |-> captureOf(c)]

NoCall == [at |-> "idle", op |-> "none", previous |-> DefaultConfig,
           next |-> DefaultConfig]

Init ==
    /\ StoreInit
    /\ stage = "down" /\ cancelled = "no"
    /\ applied = appliedOf(DefaultConfig)
    /\ calls = [h \in Handler |-> NoCall]
    /\ crossed = FALSE /\ failed = FALSE

----------------------------------------------------------------------------
\* Start

\* A file that cannot be loaded ends the program, with a message to the user.
Load ==
    /\ stage = "down"
    /\ \/ LoadAsIs /\ stage' = "loaded"
       \/ LoadAndSave /\ stage' = "loading"
    /\ UNCHANGED <<cancelled, applied, calls, crossed, failed>>

LoadStep ==
    /\ \/ WriteTemporary(Loader) /\ UNCHANGED stage
       \/ Replace(Loader) /\ stage' = "loaded"
       \/ SaveFails(Loader) /\ stage' = "down"
    /\ UNCHANGED <<cancelled, applied, calls, crossed, failed>>

\* The components, in order, and the listener.
Serve ==
    /\ stage = "loaded" /\ cancelled = "no"
    /\ stage' = "serving" /\ applied' = appliedOf(cfg)
    /\ UNCHANGED <<storeVars, cancelled, calls, crossed, failed>>

----------------------------------------------------------------------------
\* updateConfig ("put") and resetConfig ("reset")

Request(h, op, config) ==
    /\ stage = "serving" /\ calls[h].at = "idle"
    /\ calls' = [calls EXCEPT ![h] = [NoCall EXCEPT !.at = "read", !.op = op,
                                                 !.next = config]]
    /\ UNCHANGED <<storeVars, stage, cancelled, applied, crossed, failed>>

resetOf(c) == [c EXCEPT !.size = "default", !.buffer = DefaultConfig.buffer]

ReadPrevious(h) ==
    /\ calls[h].at = "read" /\ Readable
    /\ calls' = [calls EXCEPT ![h].at = "update", ![h].previous = cfg,
                              ![h].next = IF calls[h].op = "reset" THEN resetOf(cfg) ELSE @]
    /\ UNCHANGED <<storeVars, stage, cancelled, applied, crossed, failed>>

next(h, at) ==
    calls' = [calls EXCEPT ![h] = IF at = "answered" THEN [NoCall EXCEPT !.at = at]
                                                     ELSE [@ EXCEPT !.at = at]]
Answer(h) == next(h, "answered")

Invalid(h) ==
    /\ calls[h].at = "update" /\ ~validate(calls[h].next, TRUE)
    /\ Answer(h)
    /\ UNCHANGED <<storeVars, stage, cancelled, applied, crossed, failed>>

Update(h) ==
    /\ calls[h].at = "update" /\ BeginSave(h, calls[h].next)
    /\ next(h, "saving")
    /\ UNCHANGED <<stage, cancelled, applied, crossed, failed>>

Underway(h) == calls[h].at \notin {"idle", "read", "answered"}

\* updateConfig reads back what is stored, resetConfig goes on with its own copy.
Saving(h) ==
    /\ \/ WriteTemporary(h) /\ UNCHANGED <<calls, crossed>>
       \/ SaveFails(h) /\ Answer(h) /\ UNCHANGED crossed
       \/ /\ Replace(h)
          /\ next(h, IF calls[h].op = "reset" THEN "buffer" ELSE "reread")
          /\ crossed' = (crossed \/ \E g \in Handler \ {h} : Underway(g))
    /\ UNCHANGED <<stage, cancelled, applied, failed>>

\* Slip: the previous configuration is read when it has been replaced.
ReadStoredOnly(h) ==
    /\ calls[h].at = "reread" /\ Readable
    /\ calls' = [calls EXCEPT ![h].at = "buffer", ![h].next = cfg, ![h].previous = cfg]
    /\ UNCHANGED <<storeVars, stage, cancelled, applied, crossed, failed>>

ReadStored(h) ==
    /\ calls[h].at = "reread" /\ Readable
    /\ calls' = [calls EXCEPT ![h].at = "buffer", ![h].next = cfg]
    /\ UNCHANGED <<storeVars, stage, cancelled, applied, crossed, failed>>

refused(component) ==
    closed(component) \/ (component = "capture" /\ cancelled = "signal")

\* One part is applied if it has changed.  A component that reports an error, because
\* it is closed or, with the value set, because it could not flush or clear, makes the
\* handler give up: the parts after it are not applied.
applyPart(h, part, component, at) ==
    LET old == appliedOf(calls[h].previous)[part]
        new == appliedOf(calls[h].next)[part]
        goOn == next(h, at) /\ UNCHANGED failed
        giveUp == Answer(h) /\ failed' = TRUE
    IN  \/ old = new /\ goOn /\ UNCHANGED applied
        \/ /\ old # new /\ ~refused(component)
           /\ applied' = [applied EXCEPT ![part] = new]
           /\ goOn \/ (component # "capture" /\ giveUp)
        \/ old # new /\ refused(component) /\ giveUp /\ UNCHANGED applied

Apply(h) ==
    /\ \/ /\ calls[h].at = "buffer"
          /\ applyPart(h, "buffer", "buffer",
                       IF calls[h].op = "reset" THEN "restart" ELSE "duration")
       \/ calls[h].at = "duration" /\ applyPart(h, "maxDuration", "session", "restart")
       \/ calls[h].at = "restart" /\ applyPart(h, "capture", "capture", "answered")
    /\ UNCHANGED <<storeVars, stage, cancelled, crossed>>

----------------------------------------------------------------------------
\* Shutdown

\* A signal at any time; the tray menu, or a failing listener, once they are there.
Cancel(by) ==
    /\ cancelled = "no" /\ stage \in {"loaded", "serving"}
    /\ by = "quit" => stage = "serving"
    /\ cancelled' = by
    /\ UNCHANGED <<storeVars, stage, applied, calls, crossed, failed>>

goto(s) == stage' = s /\ UNCHANGED <<storeVars, cancelled, applied, calls, crossed, failed>>

Shutdown == stage = "serving" /\ cancelled # "no" /\ goto("http")

\* Slip: the handlers are waited for however long they take.
HttpClosedAtLast ==
    /\ stage = "http" /\ \A h \in Handler : calls[h].at \in {"idle", "answered"}
    /\ goto("capture")

\* All handlers have answered, or ten seconds have passed.
HttpClosed == stage = "http" /\ goto("capture")

CloseComponent ==
    \/ stage = "capture" /\ goto("session")
    \/ stage = "session" /\ goto("exporter")
    \/ stage = "exporter" /\ goto("buffer")
    \/ stage = "buffer" /\ goto("closed")

\* The process is gone, with its handlers, in order or not.
End ==
    /\ stage' = "down" /\ ForgetStore
    /\ calls' = [h \in Handler |-> NoCall]
    /\ applied' = appliedOf(DefaultConfig)
    /\ cancelled' = "no" /\ crossed' = FALSE /\ failed' = FALSE

Exit == stage = "closed" /\ End

\* A spool directory, the capture (after an early signal) or a port is not to be
\* had; what was created is closed again.
ServeFails == stage = "loaded" /\ End

Crash == stage # "down" /\ End

----------------------------------------------------------------------------

HandlerStep(h) ==
    \/ ReadPrevious(h) \/ Invalid(h) \/ Update(h) \/ Saving(h) \/ ReadStored(h)
    \/ Apply(h)

MainStep == Shutdown \/ HttpClosed \/ CloseComponent \/ Exit

Next ==
    \/ Load \/ LoadStep \/ Serve \/ ServeFails
    \/ \E h \in Handler :
        \/ \E c \in Requested : Request(h, "put", c)
        \/ Request(h, "reset", DefaultConfig)
        \/ HandlerStep(h)
    \/ \E by \in {"quit", "signal"} : Cancel(by)
    \/ MainStep \/ Crash

\* Of the handlers only a save is assumed to end: the exporter's last job may need to
\* read the configuration before the exporter closes.
Fairness ==
    /\ WF_vars((stage = "exporter" => Readable) /\ MainStep)
    /\ \A h \in Handler : WF_vars(Saving(h))

Spec == Init /\ [][Next]_vars /\ Fairness

----------------------------------------------------------------------------

\* Every variable has its type; a temporary file exists while the lock is held
\* (config.go:206-210, 296-335; main.go:38-165; server.go:186-248).
TypeOK ==
    /\ StoreTypeOK
    /\ stage \in Range(Stages) /\ cancelled \in {"no", "quit", "signal"}
    /\ applied \in [buffer : Nat, maxDuration : Nat,
                   capture : [source : {"mock", "camera"}, device : BOOLEAN,
                              pixelFormat : BOOLEAN, videoCodec : BOOLEAN,
                              size : {"default", "chosen"}]]
    /\ crossed \in BOOLEAN /\ failed \in BOOLEAN
    /\ calls \in [Handler -> [at : {"idle", "read", "update", "saving", "reread", "buffer",
                                  "duration", "restart", "answered"},
                            op : {"none", "put", "reset"},
                            previous : Config, next : Config]]

Stored(h) == calls[h].at \in {"reread", "buffer", "duration", "restart"}

\* What is stored is in force: when no handler is between storing a configuration and
\* its answer, buffer, session and capture work with the stored one, unless a
\* component reported an error or one update was stored during another
\* (server.go:195-217, 223-241; main.go:59-77).
StoredIsApplied ==
    (stage \in Up /\ ~crossed /\ ~failed /\ \A h \in Handler : ~Stored(h))
        => applied = appliedOf(cfg)

\* Whenever the process may die, the file is the configuration in memory, whole, and
\* the next start takes it as it is (config.go:283-335, 227-235).
FileIsWhole ==
    stage \in Up \cup {"loaded"} =>
        file = cfg /\ loadable(file) /\ normalized(file) = file

\* A shutdown ends, whatever handlers do that have not answered (main.go:144-163).
ShutdownEnds == (stage \in Up /\ cancelled # "no") ~> (stage = "down")
=============================================================================

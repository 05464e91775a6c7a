------------------------- MODULE ApplicationProofs -------------------------
(***************************************************************************)
(* Theorems about Application, for every value of its constants.           *)
(***************************************************************************)
EXTENDS Application, TLAPS

----------------------------------------------------------------------------
\* The order of the stages.

LEMMA StageNumbers ==
  /\ stageNumber("down") = 1 /\ stageNumber("loading") = 2
  /\ stageNumber("loaded") = 3 /\ stageNumber("serving") = 4
<1>1. DOMAIN Stages = 1..10
  BY DEF Stages
<1>2. \A i \in 1..10 : (Stages[i] = "down" <=> i = 1) /\ (Stages[i] = "loading" <=> i = 2)
                   /\ (Stages[i] = "loaded" <=> i = 3) /\ (Stages[i] = "serving" <=> i = 4)
  BY DEF Stages
<1> QED BY <1>1, <1>2 DEF stageNumber

LEMMA StageSet ==
  Range(Stages) = {"down", "loading", "loaded", "serving", "http", "capture", "session",
                   "exporter", "buffer", "closed"}
<1>1. DOMAIN Stages = 1..10
  BY DEF Stages
<1> QED BY <1>1 DEF Range, Stages

LEMMA UpSet == "down" \notin Up /\ "loading" \notin Up /\ "loaded" \notin Up /\ "serving" \in Up
  BY StageNumbers, StageSet DEF Up

----------------------------------------------------------------------------
\* Types.

At == {"idle", "read", "update", "saving", "reread", "buffer", "duration", "restart",
       "answered"}
Call == [at : At, op : {"none", "put", "reset"}, previous : Config, next : Config]
Applied == [buffer : Nat, maxDuration : Nat,
            capture : [source : {"mock", "camera"}, device : BOOLEAN,
                       pixelFormat : BOOLEAN, videoCodec : BOOLEAN,
                       size : {"default", "chosen"}]]

\* A repaired, or reset, configuration is one; so is what is applied of it.
LEMMA ConfigType ==
  ASSUME NEW c \in Config
  PROVE  normalized(c) \in Config /\ resetOf(c) \in Config /\ appliedOf(c) \in Applied
<1>1. normalized(c) \in Config
  BY DEF normalized, Config
<1>2. resetOf(c) \in Config
  BY ConfigAssumption DEF resetOf, Config
<1>3. appliedOf(c) \in Applied
  BY DEF appliedOf, captureOf, Applied, Config
<1> QED BY <1>1, <1>2, <1>3

LEMMA NoCallType == NoCall \in Call /\ NoCall.at = "idle"
  BY ConfigAssumption DEF NoCall, Call, At

LEMMA InitTypeOK == Init => TypeOK
<1> SUFFICES ASSUME Init PROVE TypeOK
  OBVIOUS
<1>1. StoreTypeOK
  BY ConfigAssumption DEF Init, StoreInit, StoreTypeOK
<1>2. applied \in Applied
  BY ConfigType, ConfigAssumption DEF Init
<1>3. calls \in [Handler -> Call]
  BY NoCallType DEF Init
<1> QED BY <1>1, <1>2, <1>3, StageSet DEF Init, TypeOK, Applied, Call, At

\* The bookkeeping of a handler: the next place in the code, or the answer.
LEMMA NextType ==
  ASSUME TypeOK, NEW h \in Handler, NEW at \in At, next(h, at)
  PROVE  calls' \in [Handler -> Call]
  BY NoCallType DEF TypeOK, next, Call, At

\* Every operation on the store keeps its type.
LEMMA StoreTypeStep ==
  ASSUME TypeOK,
         \/ LoadAsIs \/ LoadAndSave \/ ForgetStore \/ UNCHANGED storeVars
         \/ \E who \in Handler \cup {Loader} :
                \/ WriteTemporary(who) \/ SaveFails(who) \/ Replace(who)
                \/ \E c \in Config : BeginSave(who, c)
  PROVE  StoreTypeOK'
<1> USE DEF TypeOK, StoreTypeOK
<1>1. CASE LoadAsIs
  BY <1>1 DEF LoadAsIs, loadable
<1>2. CASE LoadAndSave
  BY <1>2, ConfigType, ConfigAssumption DEF LoadAndSave, loadable, Loader, NoOne
<1>3. CASE ForgetStore
  BY <1>3, ConfigAssumption DEF ForgetStore
<1>4. CASE UNCHANGED storeVars
  BY <1>4 DEF storeVars
<1>5. ASSUME NEW who \in Handler \cup {Loader},
             \/ WriteTemporary(who) \/ SaveFails(who) \/ Replace(who)
             \/ \E c \in Config : BeginSave(who, c)
      PROVE  StoreTypeOK'
  <2>1. who # NoOne
    BY HandlerAssumption DEF Loader, NoOne
  <2> QED BY <1>5, <2>1 DEF WriteTemporary, SaveFails, Replace, BeginSave
<1> QED BY <1>1, <1>2, <1>3, <1>4, <1>5

LEMMA HandlerTypeOK ==
  ASSUME TypeOK, NEW h \in Handler, HandlerStep(h)
  PROVE  TypeOK'
<1>1. CASE ReadPrevious(h)
  <2>1. cfg \in Config /\ resetOf(cfg) \in Config
    BY ConfigType DEF TypeOK, StoreTypeOK
  <2> DEFINE c == IF calls[h].op = "reset" THEN resetOf(cfg) ELSE calls[h].next
             r == [calls[h] EXCEPT !.at = "update", !.previous = cfg, !.next = c]
  <2>2. c \in Config /\ calls[h] \in Call /\ calls \in [Handler -> Call]
    BY <2>1 DEF TypeOK, Call, At
  <2>3. r \in Call
    BY <2>1, <2>2 DEF Call, At
  <2>4. calls' = [calls EXCEPT ![h] = r]
    BY <1>1, <2>2 DEF ReadPrevious
  <2>5. calls' \in [Handler -> Call]
    BY <2>2, <2>3, <2>4
  <2> QED BY <1>1, <2>5, StoreTypeStep DEF ReadPrevious, TypeOK, Call, At
<1>2. CASE Invalid(h)
  <2>1. calls' \in [Handler -> Call]
    BY <1>2, NextType DEF Invalid, Answer, At
  <2> QED BY <1>2, <2>1, StoreTypeStep DEF Invalid, TypeOK, Call, At
<1>3. CASE Update(h)
  <2>1. calls' \in [Handler -> Call]
    BY <1>3, NextType DEF Update, At
  <2>2. calls[h].next \in Config
    BY DEF TypeOK
  <2>3. StoreTypeOK'
    BY <1>3, <2>2, StoreTypeStep DEF Update
  <2> QED BY <1>3, <2>1, <2>3 DEF Update, TypeOK, Call, At
<1>4. CASE Saving(h)
  <2>1. calls' \in [Handler -> Call]
    <3>1. CASE UNCHANGED calls
      BY <3>1 DEF TypeOK, Call, At
    <3>2. CASE \E at \in At : next(h, at)
      BY <3>2, NextType
    <3> QED BY <1>4, <3>1, <3>2 DEF Saving, Answer, At
  <2>2. StoreTypeOK'
    BY <1>4, StoreTypeStep DEF Saving
  <2>3. crossed' \in BOOLEAN
    BY <1>4 DEF Saving, TypeOK
  <2> QED BY <1>4, <2>1, <2>2, <2>3 DEF Saving, TypeOK, Call, At
<1>5. CASE ReadStored(h)
  <2>1. cfg \in Config
    BY DEF TypeOK, StoreTypeOK
  <2> DEFINE r == [calls[h] EXCEPT !.at = "buffer", !.next = cfg]
  <2>2. calls[h] \in Call /\ calls \in [Handler -> Call]
    BY DEF TypeOK, Call, At
  <2>3. r \in Call
    BY <2>1, <2>2 DEF Call, At
  <2>4. calls' = [calls EXCEPT ![h] = r]
    BY <1>5, <2>2 DEF ReadStored
  <2>5. calls' \in [Handler -> Call]
    BY <2>2, <2>3, <2>4
  <2> QED BY <1>5, <2>5, StoreTypeStep DEF ReadStored, TypeOK, Call, At
<1>6. CASE Apply(h)
  <2> USE DEF Apply
  <2>1. ASSUME NEW part \in {"buffer", "maxDuration", "capture"}, NEW component, NEW at \in At,
               applyPart(h, part, component, at)
        PROVE  calls' \in [Handler -> Call] /\ applied' \in Applied /\ failed' \in BOOLEAN
    <3>1. calls[h].next \in Config
      BY DEF TypeOK
    <3>2. appliedOf(calls[h].next) \in Applied
      BY <3>1, ConfigType
    <3>3. calls' \in [Handler -> Call]
      BY <2>1, NextType DEF applyPart, Answer, At
    <3>4. applied' = applied \/ applied' = [applied EXCEPT ![part] = appliedOf(calls[h].next)[part]]
      BY <2>1 DEF applyPart
    <3>5. applied \in Applied
      BY DEF TypeOK, Applied
    <3>6. applied' \in Applied
      BY <2>1, <3>2, <3>4, <3>5 DEF Applied
    <3>7. failed' \in BOOLEAN
      BY <2>1 DEF applyPart, TypeOK
    <3> QED BY <3>3, <3>6, <3>7
  <2>2. calls' \in [Handler -> Call] /\ applied' \in Applied /\ failed' \in BOOLEAN
    BY <1>6, <2>1 DEF At
  <2> QED BY <1>6, <2>2, StoreTypeStep DEF TypeOK, Call, At, Applied
<1> QED BY <1>1, <1>2, <1>3, <1>4, <1>5, <1>6 DEF HandlerStep

\* Every step of the program, its handlers and its end keeps the types.
LEMMA NextTypeOK == TypeOK /\ [Next]_vars => TypeOK'
<1> SUFFICES ASSUME TypeOK, [Next]_vars PROVE TypeOK'
  OBVIOUS
<1>1. CASE Load \/ LoadStep
  BY <1>1, StoreTypeStep, StageSet DEF Load, LoadStep, TypeOK
<1>2. CASE Serve
  <2>1. applied' \in Applied
    BY <1>2, ConfigType DEF Serve, TypeOK, StoreTypeOK
  <2> QED BY <1>2, <2>1, StoreTypeStep, StageSet DEF Serve, TypeOK, Applied
<1>3. ASSUME NEW h \in Handler, NEW op \in {"put", "reset"}, NEW c \in Config,
             Request(h, op, c)
      PROVE  TypeOK'
  <2>1. calls' \in [Handler -> Call]
    BY <1>3, NoCallType DEF Request, TypeOK, Call, At
  <2> QED BY <1>3, <2>1, StoreTypeStep DEF Request, TypeOK, Call, At
<1>4. ASSUME NEW by \in {"quit", "signal"}, Cancel(by)
      PROVE  TypeOK'
  BY <1>4, StoreTypeStep DEF Cancel, TypeOK
<1>5. CASE Shutdown \/ HttpClosed \/ CloseComponent
  BY <1>5, StoreTypeStep, StageSet DEF Shutdown, HttpClosed, CloseComponent, goto, TypeOK
<1>6. CASE End
  <2>1. applied' \in Applied
    BY <1>6, ConfigType, ConfigAssumption DEF End
  <2>2. calls' \in [Handler -> Call]
    BY <1>6, NoCallType DEF End
  <2> QED BY <1>6, <2>1, <2>2, StoreTypeStep, StageSet DEF End, TypeOK, Applied, Call, At
<1>7. CASE UNCHANGED vars
  BY <1>7, StoreTypeStep DEF vars, appVars, TypeOK
<1> QED BY <1>1, <1>2, <1>3, <1>4, <1>5, <1>6, <1>7, HandlerTypeOK, ConfigAssumption
        DEF Next, MainStep, Exit, ServeFails, Crash

\* Every variable always has its type, and a temporary file exists exactly while
\* somebody holds the lock of the store (config.go:296-335; server.go:186-248).
THEOREM TypeCorrect == Spec => []TypeOK
  BY InitTypeOK, NextTypeOK, PTL DEF Spec

----------------------------------------------------------------------------
\* The file.

Whole(f) == loadable(f) /\ normalized(f) = f

\* Nobody saves before the configuration is loaded but the loader, and what is saved
\* has been checked, so the file can be replaced at any time.
StoreInv ==
    /\ stage \in {"down", "loading", "loaded"} => \A h \in Handler : calls[h].at = "idle"
    /\ writer = Loader <=> stage = "loading"
    /\ stage = "down" => writer = NoOne
    /\ \A h \in Handler : writer = h <=> calls[h].at = "saving"
    /\ writer # NoOne => Whole(saving)
    /\ stage \notin {"down", "loading"} => file = cfg /\ Whole(cfg)

\* An update that is accepted needs no repair when it is read again
\* (config.go:155-190, 227-235).
LEMMA ValidIsWhole ==
  ASSUME NEW c \in Config, validate(c, TRUE)
  PROVE  Whole(c)
<1>1. normalized(c) = c
  BY DEF normalized, validate, Config
<1> QED BY <1>1 DEF Whole, loadable, validate

\* An old configuration that has been repaired needs no second repair.
LEMMA RepairedIsWhole ==
  ASSUME NEW c, loadable(c)
  PROVE  Whole(normalized(c))
<1>1. c \in Config
  BY DEF loadable
<1>2. normalized(normalized(c)) = normalized(c) /\ normalized(c) \in Config
  BY <1>1, ConfigType DEF normalized, Config
<1> QED BY <1>2 DEF Whole, loadable

LEMMA InitStoreInv == Init => StoreInv
  BY NoCallType, HandlerAssumption DEF Init, StoreInit, StoreInv, NoOne, Loader

\* The other handlers are left alone, and the request is kept until it is answered.
LEMMA NextMoves ==
  ASSUME TypeOK, NEW h \in Handler, NEW at \in At, next(h, at)
  PROVE  /\ calls'[h].at = at
         /\ at # "answered" => /\ calls'[h].op = calls[h].op
                               /\ calls'[h].previous = calls[h].previous
                               /\ calls'[h].next = calls[h].next
         /\ \A g \in Handler \ {h} : calls'[g] = calls[g]
  BY DEF TypeOK, next, NoCall

LEMMA HandlerStoreInv ==
  ASSUME TypeOK, StoreInv, NEW h \in Handler, HandlerStep(h)
  PROVE  StoreInv'
<1> USE DEF NoOne, Loader
<1>1. stage' = stage /\ stage \notin {"down", "loading", "loaded"} /\ writer # Loader
  <2>1. calls[h].at # "idle" \/ writer = h
    BY DEF HandlerStep, ReadPrevious, Invalid, Update, Saving, ReadStored, Apply,
           WriteTemporary, SaveFails, Replace
  <2>2. stage' = stage
    BY DEF HandlerStep, ReadPrevious, Invalid, Update, Saving, ReadStored, Apply
  <2>3. calls[h].at # "idle"
    BY <2>1 DEF StoreInv
  <2> QED BY <2>2, <2>3 DEF StoreInv
<1>2. ASSUME UNCHANGED storeVars, calls[h].at # "saving", calls'[h].at # "saving",
             \A g \in Handler \ {h} : calls'[g] = calls[g]
      PROVE  StoreInv'
  BY <1>1, <1>2 DEF StoreInv, storeVars, Whole
<1>3. CASE ReadPrevious(h) \/ ReadStored(h)
  <2>1. calls[h].at # "saving" /\ calls'[h].at # "saving"
        /\ \A g \in Handler \ {h} : calls'[g] = calls[g]
    BY <1>3 DEF ReadPrevious, ReadStored, TypeOK
  <2> QED BY <1>2, <1>3, <2>1 DEF ReadPrevious, ReadStored
<1>4. CASE Invalid(h)
  BY <1>2, <1>4, NextMoves DEF Invalid, Answer, At
<1>5. CASE Update(h)
  <2>1. calls[h].next \in Config
    BY DEF TypeOK
  <2>2. validate(calls[h].next, TRUE) /\ saving' = calls[h].next /\ writer' = h
        /\ UNCHANGED <<file, cfg>> /\ calls'[h].at = "saving" /\ writer = NoOne
        /\ \A g \in Handler \ {h} : calls'[g] = calls[g]
    BY <1>5, NextMoves DEF Update, BeginSave, At
  <2> QED BY <1>1, <2>1, <2>2, ValidIsWhole, HandlerAssumption DEF StoreInv
<1>6. CASE Saving(h)
  <2>1. writer = h /\ calls[h].at = "saving"
    BY <1>6 DEF Saving, WriteTemporary, SaveFails, Replace, StoreInv
  <2>2. CASE WriteTemporary(h) /\ UNCHANGED calls
    BY <1>1, <2>1, <2>2 DEF WriteTemporary, StoreInv, Whole
  <2>3. CASE /\ SaveFails(h) \/ Replace(h)
             /\ \E at \in {"answered", "buffer", "reread"} : next(h, at)
    <3>1. calls'[h].at # "saving" /\ \A g \in Handler \ {h} : calls'[g] = calls[g]
      BY <2>3, NextMoves DEF At
    <3>2. writer' = NoOne /\ ((file' = file /\ cfg' = cfg) \/ (file' = saving /\ cfg' = saving))
      BY <2>3 DEF SaveFails, Replace
    <3> QED BY <1>1, <2>1, <3>1, <3>2, HandlerAssumption DEF StoreInv, Whole
  <2> QED BY <1>6, <2>2, <2>3 DEF Saving, Answer
<1>7. CASE Apply(h)
  <2>1. ASSUME NEW part, NEW component, NEW at \in {"restart", "duration", "answered"},
               applyPart(h, part, component, at)
        PROVE  calls'[h].at # "saving" /\ \A g \in Handler \ {h} : calls'[g] = calls[g]
    BY <2>1, NextMoves DEF applyPart, Answer, At
  <2>2. calls'[h].at # "saving" /\ \A g \in Handler \ {h} : calls'[g] = calls[g]
    BY <1>7, <2>1 DEF Apply
  <2> QED BY <1>2, <1>7, <2>2 DEF Apply
<1> QED BY <1>3, <1>4, <1>5, <1>6, <1>7 DEF HandlerStep

\* A start, a save, a crash, or anything else leaves the file whole
\* (config.go:283-335; main.go:38-50).
LEMMA NextStoreInv == TypeOK /\ StoreInv /\ [Next]_vars => StoreInv'
<1> SUFFICES ASSUME TypeOK, StoreInv, [Next]_vars PROVE StoreInv'
  OBVIOUS
<1> USE DEF NoOne, Loader
<1>1. CASE Load
  <2>1. CASE LoadAsIs /\ stage' = "loaded"
    BY <1>1, <2>1 DEF Load, LoadAsIs, StoreInv, Whole
  <2>2. CASE LoadAndSave /\ stage' = "loading"
    <3>1. Whole(saving')
      BY <2>2, DefaultAssumption, RepairedIsWhole DEF LoadAndSave, Whole
    <3> QED BY <1>1, <2>2, <3>1, HandlerAssumption DEF Load, LoadAndSave, StoreInv, Whole
  <2> QED BY <1>1, <2>1, <2>2 DEF Load
<1>2. CASE LoadStep
  BY <1>2, HandlerAssumption DEF LoadStep, WriteTemporary, Replace, SaveFails, StoreInv, Whole
<1>3. CASE Serve
  BY <1>3 DEF Serve, StoreInv, storeVars, Whole
<1>4. ASSUME NEW h \in Handler, NEW op, NEW c, Request(h, op, c)
      PROVE  StoreInv'
  <2>1. calls[h].at = "idle" /\ calls'[h].at = "read" /\ \A g \in Handler \ {h} : calls'[g] = calls[g]
    BY <1>4 DEF Request, TypeOK, NoCall
  <2>2. UNCHANGED storeVars /\ stage' = stage /\ stage = "serving"
    BY <1>4 DEF Request
  <2> QED BY <2>1, <2>2 DEF StoreInv, storeVars, Whole
<1>5. ASSUME NEW by, Cancel(by)
      PROVE  StoreInv'
  BY <1>5 DEF Cancel, StoreInv, storeVars, Whole
<1>6. CASE Shutdown \/ HttpClosed \/ CloseComponent
  BY <1>6 DEF Shutdown, HttpClosed, CloseComponent, goto, StoreInv, storeVars, Whole
<1>7. CASE End
  BY <1>7, NoCallType, HandlerAssumption DEF End, ForgetStore, StoreInv
<1>8. CASE UNCHANGED vars
  BY <1>8 DEF vars, appVars, storeVars, StoreInv, Whole
<1> QED BY <1>1, <1>2, <1>3, <1>4, <1>5, <1>6, <1>7, <1>8, HandlerStoreInv
        DEF Next, MainStep, Exit, ServeFails, Crash

LEMMA StoreInvHolds == Spec => [](TypeOK /\ StoreInv)
  BY InitTypeOK, NextTypeOK, InitStoreInv, NextStoreInv, PTL DEF Spec

\* Whenever the process may die, whatever configurations clients have sent or users
\* have written, the file is what is in memory and the next start accepts it as it
\* is (config.go:283-335, 227-235).
THEOREM FileStaysWhole == Spec => []FileIsWhole
<1>1. TypeOK /\ StoreInv => FileIsWhole
  BY UpSet DEF StoreInv, FileIsWhole, Whole
<1> QED BY <1>1, StoreInvHolds, PTL

----------------------------------------------------------------------------
\* What is applied.

\* How far a handler that has stored its configuration has got with applying it.
InStep(h) ==
    LET at  == calls[h].at
        old == appliedOf(calls[h].previous)
        new == appliedOf(cfg)
    IN  /\ at # "reread" => calls[h].next = cfg
        /\ applied.buffer = IF at \in {"reread", "buffer"} THEN old.buffer ELSE new.buffer
        /\ applied.maxDuration = IF at = "restart" THEN new.maxDuration ELSE old.maxDuration
        /\ applied.capture = old.capture

\* The lock holder saves what was asked for, and a reset keeps the maximum duration.
RequestInv ==
    \A h \in Handler :
        /\ calls[h].at = "saving" => saving = calls[h].next
        /\ calls[h].op = "reset" =>
              /\ calls[h].at \notin {"reread", "duration"}
              /\ calls[h].at \in {"update", "saving", "buffer", "restart"} =>
                    calls[h].next.maxDuration = calls[h].previous.maxDuration

Orderly == stage \notin {"down", "loading", "loaded"} /\ ~crossed /\ ~failed

\* As long as no update is stored during another one, the handler that applies has
\* compared with what was in force, and it is alone.
OneApplies ==
    /\ \A h \in Handler : calls[h].at \in {"update", "saving"} => calls[h].previous = cfg
    /\ \A h, g \in Handler : Stored(h) /\ Stored(g) => h = g
    /\ \A h \in Handler : Stored(h) => InStep(h)
    /\ (\A h \in Handler : ~Stored(h)) => applied = appliedOf(cfg)
ApplyInv == Orderly => OneApplies

LEMMA InitApplyInv == Init => RequestInv /\ ApplyInv
  BY NoCallType DEF Init, RequestInv, ApplyInv, Orderly, NoCall

\* A step that leaves store and applied values alone, and one handler that neither
\* has stored nor will have.
LEMMA OthersInStep ==
  ASSUME TypeOK, RequestInv, ApplyInv, NEW h \in Handler, ~Stored(h), ~Stored(h)',
         UNCHANGED <<cfg, applied, stage, crossed, failed>>,
         saving' = saving \/ \A g \in Handler \ {h} : calls[g].at # "saving",
         \A g \in Handler \ {h} : calls'[g] = calls[g],
         calls'[h].at = "saving" => saving' = calls'[h].next,
         calls'[h].at \in {"update", "saving"} =>
            /\ Orderly => calls'[h].previous = cfg
            /\ calls'[h].op = "reset" =>
                  calls'[h].next.maxDuration = calls'[h].previous.maxDuration
  PROVE  RequestInv' /\ ApplyInv'
<1>1. \A g \in Handler : Stored(g)' <=> Stored(g)
  BY DEF Stored
<1>2. \A g \in Handler : Stored(g) => g # h /\ calls'[g] = calls[g]
  OBVIOUS
<1>3. \A g \in Handler : Stored(g) => (InStep(g)' <=> InStep(g))
  BY <1>2 DEF InStep
<1>4. RequestInv'
  BY DEF RequestInv, Stored
<1>5. ApplyInv'
  <2> SUFFICES ASSUME Orderly PROVE OneApplies'
    BY DEF ApplyInv, Orderly
  <2>1. OneApplies
    BY DEF ApplyInv
  <2> QED BY <1>1, <1>2, <1>3, <2>1 DEF OneApplies
<1> QED BY <1>4, <1>5

\* The configuration is replaced: either an update was under way, and crossed says so,
\* or what is in force is what this handler has compared with.
LEMMA ReplaceInStep ==
  ASSUME TypeOK, StoreInv, RequestInv, ApplyInv, NEW h \in Handler, Replace(h),
         next(h, IF calls[h].op = "reset" THEN "buffer" ELSE "reread"),
         crossed' = (crossed \/ \E g \in Handler \ {h} : Underway(g)),
         UNCHANGED <<stage, applied, failed>>
  PROVE  RequestInv' /\ ApplyInv'
<1>1. /\ calls[h].at = "saving" /\ cfg' = calls[h].next /\ saving' = saving
      /\ \A g \in Handler \ {h} : calls[g].at # "saving"
  BY DEF Replace, StoreInv, RequestInv
<1>2. /\ calls'[h].at = IF calls[h].op = "reset" THEN "buffer" ELSE "reread"
      /\ calls'[h].op = calls[h].op /\ calls'[h].previous = calls[h].previous
      /\ calls'[h].next = calls[h].next
      /\ \A g \in Handler \ {h} : calls'[g] = calls[g]
  BY NextMoves DEF At
<1>3. RequestInv'
  BY <1>1, <1>2 DEF RequestInv
<1>4. ASSUME Orderly' PROVE OneApplies'
  <2>1. Orderly /\ \A g \in Handler \ {h} : calls[g].at \in {"idle", "read", "answered"}
    BY <1>4 DEF Orderly, Underway, TypeOK
  <2>2. /\ \A g \in Handler : ~Stored(g)
        /\ \A g \in Handler : Stored(g)' <=> g = h
    BY <1>1, <1>2, <2>1 DEF Stored
  <2>3. calls[h].previous = cfg /\ applied = appliedOf(cfg)
    BY <1>1, <2>1, <2>2 DEF ApplyInv, OneApplies
  <2>4. InStep(h)'
    BY <1>1, <1>2, <2>3 DEF InStep
  <2> QED BY <1>1, <1>2, <2>1, <2>2, <2>4 DEF OneApplies
<1> QED BY <1>3, <1>4 DEF ApplyInv

\* One part after the other comes into force, or the handler gives up and failed says so.
LEMMA ApplyInStep ==
  ASSUME TypeOK, StoreInv, RequestInv, ApplyInv, NEW h \in Handler, Apply(h)
  PROVE  RequestInv' /\ ApplyInv'
<1> DEFINE old == appliedOf(calls[h].previous)
           new == appliedOf(calls[h].next)
           inForce(part) == \/ old[part] = new[part] /\ applied' = applied
                            \/ applied' = [applied EXCEPT ![part] = new[part]]
<1>1. \/ Answer(h) /\ failed' = TRUE
      \/ /\ failed' = failed
         /\ \/ /\ calls[h].at = "buffer" /\ inForce("buffer")
               /\ next(h, IF calls[h].op = "reset" THEN "restart" ELSE "duration")
            \/ calls[h].at = "duration" /\ inForce("maxDuration") /\ next(h, "restart")
            \/ calls[h].at = "restart" /\ inForce("capture") /\ next(h, "answered")
  BY DEF Apply, applyPart
<1>2. /\ UNCHANGED <<storeVars, stage, crossed>>
      /\ \A g \in Handler \ {h} : calls'[g] = calls[g]
  BY <1>1, NextMoves DEF Apply, Answer, At
<1>3. Stored(h) /\ old \in Applied /\ new \in Applied /\ applied \in Applied
  BY <1>1, ConfigType DEF Apply, Stored, TypeOK, Applied
<1>4. RequestInv'
  <2>1. CASE Answer(h) \/ next(h, "answered")
    <3>1. calls'[h] = [NoCall EXCEPT !.at = "answered"]
      BY <2>1 DEF Answer, next, TypeOK
    <3> QED BY <1>2, <3>1 DEF RequestInv, NoCall, storeVars
  <2>2. ASSUME NEW at \in {"duration", "restart"}, next(h, at),
               at = "duration" => calls[h].at = "buffer" /\ calls[h].op # "reset",
               calls[h].at \in {"buffer", "duration"}
        PROVE  RequestInv'
    BY <1>2, <2>2, NextMoves DEF RequestInv, At, storeVars
  <2> QED BY <1>1, <2>1, <2>2
<1>5. ASSUME Orderly' PROVE OneApplies'
  <2>1. Orderly /\ failed' = failed /\ InStep(h) /\ cfg' = cfg
        /\ \A g \in Handler \ {h} : ~Stored(g) /\ ~Stored(g)'
    BY <1>1, <1>2, <1>3, <1>5 DEF Orderly, ApplyInv, OneApplies, Stored, storeVars
  <2>2. \A g \in Handler \ {h} : calls'[g].at \in {"update", "saving"} => calls'[g].previous = cfg'
    BY <1>2, <2>1 DEF ApplyInv, OneApplies
  <2>3. calls[h].next = cfg
    BY <1>1, <1>5, <2>1 DEF InStep, Orderly
  <2>4. CASE calls[h].at # "restart"
    <3>1. PICK at \in {"duration", "restart"} :
            /\ next(h, at)
            /\ \/ at = "duration" /\ calls[h].at = "buffer" /\ inForce("buffer")
               \/ at = "restart" /\ calls[h].at = "buffer" /\ inForce("buffer")
                  /\ calls[h].op = "reset"
               \/ at = "restart" /\ calls[h].at = "duration" /\ inForce("maxDuration")
      BY <1>1, <1>5, <2>4 DEF Orderly
    <3>2. /\ calls'[h].at = at /\ calls'[h].next = cfg
          /\ calls'[h].previous = calls[h].previous
      BY <2>3, <3>1, NextMoves DEF At
    <3>3. calls[h].op = "reset" /\ calls[h].at = "buffer" => old.maxDuration = new.maxDuration
      BY DEF RequestInv, appliedOf
    <3>4. InStep(h)'
      BY <1>3, <2>1, <2>3, <3>1, <3>2, <3>3 DEF InStep, Applied
    <3> QED BY <2>1, <2>2, <3>2, <3>4 DEF OneApplies, Stored
  <2>5. CASE calls[h].at = "restart"
    <3>1. inForce("capture") /\ calls'[h].at = "answered"
      BY <1>1, <1>5, <2>5, NextMoves DEF Orderly, At
    <3>2. applied' = new
      BY <1>3, <2>1, <2>3, <2>5, <3>1 DEF InStep, Applied
    <3> QED BY <2>1, <2>2, <2>3, <3>1, <3>2 DEF OneApplies, Stored
  <2> QED BY <2>4, <2>5
<1> QED BY <1>4, <1>5 DEF ApplyInv

LEMMA HandlerApplyInv ==
  ASSUME TypeOK, StoreInv, RequestInv, ApplyInv, NEW h \in Handler, HandlerStep(h)
  PROVE  RequestInv' /\ ApplyInv'
<1>1. CASE ReadPrevious(h)
  <2> DEFINE c == IF calls[h].op = "reset" THEN resetOf(cfg) ELSE calls[h].next
  <2>1. /\ calls[h].at = "read" /\ UNCHANGED <<storeVars, stage, applied, crossed, failed>>
        /\ calls' = [calls EXCEPT ![h].at = "update", ![h].previous = cfg, ![h].next = c]
    BY <1>1 DEF ReadPrevious, TypeOK
  <2>2. /\ calls'[h].at = "update" /\ calls'[h].previous = cfg /\ calls'[h].next = c
        /\ calls'[h].op = calls[h].op /\ \A g \in Handler \ {h} : calls'[g] = calls[g]
    BY <2>1 DEF TypeOK
  <2>3. calls'[h].op = "reset" => c.maxDuration = cfg.maxDuration
    BY <2>2 DEF resetOf, TypeOK, StoreTypeOK, Config
  <2> QED BY <2>1, <2>2, <2>3, OthersInStep DEF Stored, storeVars
<1>2. CASE Invalid(h)
  <2>1. calls'[h].at = "answered" /\ \A g \in Handler \ {h} : calls'[g] = calls[g]
    BY <1>2, NextMoves DEF Invalid, Answer, At
  <2> QED BY <1>2, <2>1, OthersInStep DEF Invalid, Stored, storeVars
<1>3. CASE Update(h)
  <2>1. /\ calls'[h].at = "saving" /\ calls'[h].op = calls[h].op
        /\ calls'[h].previous = calls[h].previous /\ calls'[h].next = calls[h].next
        /\ \A g \in Handler \ {h} : calls'[g] = calls[g]
    BY <1>3, NextMoves DEF Update, At
  <2>2. saving' = calls[h].next /\ calls[h].at = "update"
        /\ \A g \in Handler : calls[g].at # "saving"
    BY <1>3, HandlerAssumption DEF Update, BeginSave, StoreInv
  <2>3. /\ Orderly => calls[h].previous = cfg
        /\ calls[h].op = "reset" => calls[h].next.maxDuration = calls[h].previous.maxDuration
    BY <2>2 DEF ApplyInv, OneApplies, RequestInv
  <2> QED BY <1>3, <2>1, <2>2, <2>3, OthersInStep DEF Update, BeginSave, Stored
<1>4. CASE Saving(h)
  <2>1. calls[h].at = "saving"
    BY <1>4 DEF Saving, WriteTemporary, SaveFails, Replace, StoreInv
  <2>2. CASE WriteTemporary(h) /\ UNCHANGED <<calls, crossed>>
    <3>1. /\ Orderly => calls[h].previous = cfg
          /\ calls[h].op = "reset" => calls[h].next.maxDuration = calls[h].previous.maxDuration
          /\ saving = calls[h].next
      BY <2>1 DEF ApplyInv, OneApplies, RequestInv
    <3> QED BY <1>4, <2>1, <2>2, <3>1, OthersInStep DEF WriteTemporary, Saving, Stored
  <2>3. CASE SaveFails(h) /\ Answer(h) /\ UNCHANGED crossed
    <3>1. calls'[h].at = "answered" /\ \A g \in Handler \ {h} : calls'[g] = calls[g]
      BY <2>3, NextMoves DEF Answer, At
    <3> QED BY <1>4, <2>1, <2>3, <3>1, OthersInStep DEF SaveFails, Saving, Stored
  <2> QED BY <1>4, <2>2, <2>3, ReplaceInStep DEF Saving
<1>5. CASE ReadStored(h)
  <2>1. /\ calls[h].at = "reread" /\ UNCHANGED <<storeVars, stage, applied, crossed, failed>>
        /\ calls'[h].at = "buffer" /\ calls'[h].previous = calls[h].previous
        /\ calls'[h].next = cfg /\ calls'[h].op = calls[h].op
        /\ \A g \in Handler \ {h} : calls'[g] = calls[g]
    BY <1>5 DEF ReadStored, TypeOK
  <2>2. RequestInv'
    BY <2>1 DEF RequestInv, storeVars
  <2>3. ASSUME Orderly' PROVE OneApplies'
    <3>1. OneApplies /\ Stored(h)
      BY <2>1, <2>3 DEF Orderly, ApplyInv, Stored
    <3>2. InStep(h)'
      BY <2>1, <3>1 DEF OneApplies, InStep, storeVars
    <3>3. \A g \in Handler \ {h} : ~Stored(g) /\ ~Stored(g)'
      BY <2>1, <3>1 DEF OneApplies, Stored
    <3> QED BY <2>1, <3>1, <3>2, <3>3 DEF OneApplies, Stored, storeVars
  <2> QED BY <2>2, <2>3 DEF ApplyInv
<1> QED BY <1>1, <1>2, <1>3, <1>4, <1>5, ApplyInStep DEF HandlerStep

\* Starting, ending and shutting down compare and apply nothing but the configuration
\* that was loaded (main.go:59-77, 144-163).
LEMMA NextApplyInv ==
  TypeOK /\ StoreInv /\ RequestInv /\ ApplyInv /\ [Next]_vars => RequestInv' /\ ApplyInv'
<1> SUFFICES ASSUME TypeOK, StoreInv, RequestInv, ApplyInv, [Next]_vars
             PROVE  RequestInv' /\ ApplyInv'
  OBVIOUS
<1>1. CASE Load \/ LoadStep \/ Serve \/ End
  <2>1. \A h \in Handler : calls'[h].at = "idle" /\ (calls'[h] = calls[h] \/ calls'[h] = NoCall)
    BY <1>1, NoCallType, HandlerAssumption
    DEF Load, LoadStep, WriteTemporary, Replace, SaveFails, Serve, End, StoreInv, Loader
  <2>2. stage' \notin {"down", "loading", "loaded"} => applied' = appliedOf(cfg)' /\ cfg' = cfg
    BY <1>1 DEF Load, LoadStep, WriteTemporary, Serve, End, StoreInv, storeVars, Loader,
                LoadAsIs, LoadAndSave, Replace, SaveFails
  <2> QED BY <2>1, <2>2 DEF RequestInv, ApplyInv, OneApplies, Orderly, Stored
<1>2. ASSUME NEW h \in Handler, NEW op, NEW c, Request(h, op, c)
      PROVE  RequestInv' /\ ApplyInv'
  <2>1. calls[h].at = "idle" /\ calls'[h].at = "read"
        /\ \A g \in Handler \ {h} : calls'[g] = calls[g]
    BY <1>2 DEF Request, TypeOK, NoCall
  <2> QED BY <1>2, <2>1, OthersInStep DEF Request, Stored, storeVars
<1>3. CASE Shutdown \/ HttpClosed \/ CloseComponent \/ UNCHANGED vars
           \/ \E by \in {"quit", "signal"} : Cancel(by)
  <2>1. /\ UNCHANGED <<storeVars, applied, calls, crossed, failed>>
        /\ Orderly' => Orderly
    BY <1>3 DEF Shutdown, HttpClosed, CloseComponent, goto, Cancel, vars, appVars, Orderly
  <2>2. \A h \in Handler : (Stored(h)' <=> Stored(h)) /\ (InStep(h)' <=> InStep(h))
    BY <2>1 DEF Stored, InStep, storeVars
  <2> QED BY <2>1, <2>2 DEF RequestInv, ApplyInv, OneApplies, storeVars
<1> QED BY <1>1, <1>2, <1>3, HandlerApplyInv DEF Next, MainStep, Exit, ServeFails, Crash

\* However many handlers change the configuration: when none is between storing and
\* its answer, no component has reported an error and no update was stored during
\* another one, buffer, session and capture work with what is stored
\* (server.go:195-217, 223-241).
THEOREM StoredGetsApplied == Spec => []StoredIsApplied
<1>1. ApplyInv => StoredIsApplied
  BY UpSet DEF ApplyInv, OneApplies, Orderly, StoredIsApplied
<1>2. Spec => [](RequestInv /\ ApplyInv)
  BY StoreInvHolds, InitApplyInv, NextApplyInv, PTL DEF Spec
<1> QED BY <1>1, <1>2, PTL
=============================================================================

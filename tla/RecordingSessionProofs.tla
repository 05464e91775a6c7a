----------------------- MODULE RecordingSessionProofs -----------------------
(***************************************************************************)
(* Theorems about RecordingSession, for every value of its constants.      *)
(*                                                                         *)
(* A timer's callback compares generations, never times.  That it can only *)
(* end a recording that is overdue rests on TimerInv: whatever carries the *)
(* current generation was scheduled for the current deadline.              *)
(***************************************************************************)
EXTENDS RecordingSession, TLAPS

----------------------------------------------------------------------------
\* Types.

\* The empty sequence is a sequence over every set.
LEMMA EmptyIsSeq == \A S : <<>> \in Seq(S)
  OBVIOUS

LEMMA InitTypeOK == Init => TypeOK
<1> SUFFICES ASSUME Init PROVE TypeOK
  OBVIOUS
<1>1. content \in Seq(Nat) /\ file \in Buffer!FileState /\ leftover \subseteq Nat
  BY EmptyIsSeq DEF Init, Buffer!Init, Buffer!FileState
<1>2. jobs \in Seq([frames : Seq(Nat), live : {NoLive} \cup Seq(Nat)])
  BY EmptyIsSeq DEF Init
<1>3. timer \in {NoTimer} \cup [gen : 0..generation, at : Nat]
      /\ fired \subseteq [gen : 0..generation, at : Nat]
  BY DEF Init
<1> QED
  BY <1>1, <1>2, <1>3, DurationAssumption
  DEF Init, TypeOK, RecordingState, Error, ZeroTime

\* Clear empties the buffer, whether it fails or not, and leaves behind at most what
\* the buffer held (buffer.go:127-146).
ContentSet == {content[k] : k \in 1..Len(content)}

LEMMA Cleared ==
  ASSUME content \in Seq(Nat), Buffer!ClearOk \/ Buffer!ClearFails
  PROVE  content' = <<>> /\ file' = "none" /\ leftover' \subseteq leftover \cup ContentSet
<1>1. content' = <<>> /\ file' = "none"
  BY DEF Buffer!ClearOk, Buffer!ClearFails, Buffer!Emptied
<1>2. CASE Buffer!ClearOk
  BY <1>1, <1>2 DEF Buffer!ClearOk
<1>3. CASE Buffer!ClearFails
  <2>1. PICK n \in 0..Len(content) : leftover' = leftover \cup {content[k] : k \in 1..n}
    BY <1>3 DEF Buffer!ClearFails
  <2>2. 1..n \subseteq 1..Len(content)
    OBVIOUS
  <2> QED BY <1>1, <2>1, <2>2 DEF ContentSet
<1> QED BY <1>2, <1>3

\* What the session does to the buffer keeps the buffer's type.
LEMMA BufferType ==
  ASSUME TypeOK,
         \/ Buffer!ClearOk \/ Buffer!ClearFails
         \/ Buffer!DetachOk \/ Buffer!DetachFails \/ Buffer!WriteOut
         \/ \E f \in Nat : Buffer!AppendOk(f)
         \/ UNCHANGED bufferVars
  PROVE  content' \in Seq(Nat) /\ file' \in Buffer!FileState /\ leftover' \subseteq Nat
<1>1. content \in Seq(Nat) /\ file \in Buffer!FileState /\ leftover \subseteq Nat
  BY DEF TypeOK
<1>2. CASE Buffer!ClearOk \/ Buffer!ClearFails
  <2>1. content' = <<>> /\ file' = "none" /\ leftover' \subseteq leftover \cup ContentSet
    BY <1>1, <1>2, Cleared
  <2>2. ContentSet \subseteq Nat
    BY <1>1 DEF ContentSet
  <2> QED BY <1>1, <2>1, <2>2, EmptyIsSeq DEF Buffer!FileState
<1>3. CASE Buffer!DetachOk
  BY <1>1, <1>3, EmptyIsSeq DEF Buffer!DetachOk, Buffer!Emptied, Buffer!FileState
<1>4. CASE Buffer!DetachFails \/ Buffer!WriteOut
  BY <1>1, <1>4 DEF Buffer!DetachFails, Buffer!WriteOut, Buffer!MayCreateFile,
                    Buffer!FileState
<1>5. CASE \E f \in Nat : Buffer!AppendOk(f)
  BY <1>1, <1>5 DEF Buffer!AppendOk, Buffer!MayCreateFile, Buffer!FileState
<1>6. CASE UNCHANGED bufferVars
  BY <1>1, <1>6 DEF bufferVars
<1> QED BY <1>2, <1>3, <1>4, <1>5, <1>6

\* timeoutLocked preserves the types of what it assigns.
LEMMA TimeoutType ==
  ASSUME TypeOK, timeoutLocked
  PROVE  /\ state' \in RecordingState /\ lastError' \in Error
         /\ metadata' \in Metadata \cup {NoMetadata}
         /\ startedAt' \in Nat /\ deadline' \in Nat /\ timedOutAt' \in Nat
         /\ generation' = generation + 1 /\ timer' = NoTimer
         /\ content' \in Seq(Nat) /\ file' \in Buffer!FileState /\ leftover' \subseteq Nat
         /\ live' \in {NoLive} \cup Seq(Nat)
<1>1. content' \in Seq(Nat) /\ file' \in Buffer!FileState /\ leftover' \subseteq Nat
  BY BufferType DEF timeoutLocked
<1> QED
  BY <1>1 DEF TypeOK, timeoutLocked, stopTimerLocked, RecordingState, Error, ZeroTime

\* beginLocked preserves the types of what it assigns.
LEMMA BeginType ==
  ASSUME TypeOK, beginLocked
  PROVE  /\ state' \in RecordingState /\ lastError' \in Error
         /\ startedAt' \in Nat /\ deadline' \in Nat /\ timedOutAt' \in Nat
         /\ generation' = generation + 2
         /\ timer' \in [gen : 0..generation', at : Nat]
         /\ live' \in {NoLive} \cup Seq(Nat)
<1>1. maxDuration \in Nat /\ now \in Nat /\ generation \in Nat
  BY DurationAssumption DEF TypeOK
<1>2. live' \in {NoLive} \cup Seq(Nat)
  <2>1. live' = NoLive \/ live' = <<>>
    BY DEF beginLocked
  <2> QED BY <2>1, EmptyIsSeq
<1>3. generation' = generation + 2 /\ timer' = [gen |-> generation + 2, at |-> now + maxDuration]
  BY DEF beginLocked, rescheduleLocked
<1>4. timer' \in [gen : 0..generation', at : Nat]
  BY <1>1, <1>3
<1> QED
  BY <1>1, <1>2, <1>3, <1>4 DEF beginLocked, RecordingState, Error, ZeroTime

\* Every operation of the session and everything around it preserves the types
\* (recording.go:60-254).
LEMMA NextTypeOK == TypeOK /\ [Next]_vars => TypeOK'
<1> SUFFICES ASSUME TypeOK, [Next]_vars PROVE TypeOK'
  OBVIOUS
<1> USE DEF sessionVars, timerVars, bufferVars
<1>1. \A m \in Metadata \cup {NoMetadata} : Start(m) => TypeOK'
  <2> SUFFICES ASSUME NEW m \in Metadata \cup {NoMetadata}, Start(m) PROVE TypeOK'
    OBVIOUS
  <2>1. content' \in Seq(Nat) /\ file' \in Buffer!FileState /\ leftover' \subseteq Nat
    BY BufferType DEF Start
  <2>2. CASE beginLocked /\ metadata' = m
    BY <2>1, <2>2, BeginType DEF Start, TypeOK
  <2>3. CASE UNCHANGED <<sessionVars, timerVars, live>>
    BY <2>1, <2>3 DEF Start, TypeOK
  <2> QED BY <2>2, <2>3 DEF Start
<1>2. Record => TypeOK'
  <2> SUFFICES ASSUME Record PROVE TypeOK'
    OBVIOUS
  <2>1. captured' \in Nat
    BY DEF Record, TypeOK
  <2>2. CASE recordIgnored
    BY <2>1, <2>2 DEF Record, recordIgnored, TypeOK
  <2>3. CASE recordOverdue
    BY <2>1, <2>3, TimeoutType DEF Record, recordOverdue, TypeOK
  <2>4. CASE recordAppended
    <3>1. content' \in Seq(Nat) /\ file' \in Buffer!FileState /\ leftover' \subseteq Nat
      BY <2>1, <2>4, BufferType DEF recordAppended
    <3>2. live' \in {NoLive} \cup Seq(Nat)
      <4>1. live' = NoLive \/ (live # NoLive /\ live' = Append(live, captured'))
        BY <2>4 DEF recordAppended
      <4>2. live # NoLive => live \in Seq(Nat)
        BY DEF TypeOK
      <4>3. live # NoLive => Append(live, captured') \in Seq(Nat)
        BY <2>1, <4>2
      <4> QED BY <4>1, <4>3
    <3> QED BY <2>1, <2>4, <3>1, <3>2 DEF Record, recordAppended, TypeOK
  <2>5. CASE recordFailed
    <3>1. content' \in Seq(Nat) /\ file' \in Buffer!FileState /\ leftover' \subseteq Nat
      BY <2>5, BufferType DEF recordFailed
    <3> QED BY <2>1, <2>5, <3>1
            DEF Record, recordFailed, stopTimerLocked, TypeOK, RecordingState, Error,
                ZeroTime
  <2> QED BY <2>2, <2>3, <2>4, <2>5 DEF Record
<1>3. enqueued => /\ content' \in Seq(Nat) /\ file' \in Buffer!FileState /\ leftover' \subseteq Nat
                  /\ jobs' \in Seq([frames : Seq(Nat), live : {NoLive} \cup Seq(Nat)])
  BY BufferType DEF enqueued, TypeOK
<1>4. Save => TypeOK'
  BY <1>3 DEF Save, stopTimerLocked, TypeOK, RecordingState, Error, ZeroTime
<1>5. \A m \in Metadata \cup {metadata, NoMetadata} : SaveAndContinue(m) => TypeOK'
  BY <1>3, BeginType DEF SaveAndContinue, TypeOK
<1>6. SaveFails => TypeOK'
  <2> SUFFICES ASSUME SaveFails PROVE TypeOK'
    OBVIOUS
  <2>1. content' \in Seq(Nat) /\ file' \in Buffer!FileState /\ leftover' \subseteq Nat
    BY BufferType DEF SaveFails
  <2> QED BY <2>1 DEF SaveFails, TypeOK
<1>7. \A d \in Duration : SetMaxDuration(d) => TypeOK'
  <2> SUFFICES ASSUME NEW d \in Duration, SetMaxDuration(d) PROVE TypeOK'
    OBVIOUS
  <2>1. CASE state # "recording"
    BY <2>1 DEF SetMaxDuration, TypeOK
  <2>2. CASE timeoutLocked
    BY <2>2, TimeoutType DEF SetMaxDuration, TypeOK
  <2>3. CASE rescheduleLocked(startedAt + d) /\ state = "recording" /\ now < startedAt + d
    <3>1. startedAt + d \in Nat /\ generation \in Nat /\ now \in Nat
      BY DurationAssumption DEF TypeOK
    <3>2. /\ generation' = generation + 2 /\ timer' = [gen |-> generation + 2, at |-> startedAt + d]
          /\ deadline' = startedAt + d /\ maxDuration' = d
          /\ UNCHANGED <<state, metadata, startedAt, timedOutAt, lastError, bufferVars, live>>
          /\ UNCHANGED <<closed, fired, jobs, now, captured>>
      BY <2>3, <3>1 DEF SetMaxDuration, rescheduleLocked
    <3>3. timer' \in [gen : 0..generation', at : Nat] /\ generation' \in Nat
          /\ fired' \subseteq [gen : 0..generation', at : Nat]
      BY <3>1, <3>2 DEF TypeOK
    <3> QED BY <3>1, <3>2, <3>3 DEF TypeOK
  <2>4. startedAt + d \in Nat /\ now \in Nat
    BY DurationAssumption DEF TypeOK
  <2> QED BY <2>1, <2>2, <2>3, <2>4 DEF SetMaxDuration
<1>8. Close => TypeOK'
  BY DEF Close, stopTimerLocked, TypeOK
<1>9. Tick => TypeOK'
  BY DEF Tick, TypeOK
<1>10. TimerFires => TypeOK'
  BY DEF TimerFires, TypeOK
<1>11. \A c \in fired : Callback(c) => TypeOK'
  <2> SUFFICES ASSUME NEW c \in fired, Callback(c) PROVE TypeOK'
    OBVIOUS
  <2>1. CASE timeoutLocked
    BY <2>1, TimeoutType DEF Callback, TypeOK
  <2>2. CASE UNCHANGED <<sessionVars, timerVars, bufferVars, live>>
    BY <2>2 DEF Callback, TypeOK
  <2> QED BY <2>1, <2>2 DEF Callback
<1>12. LiveFails => TypeOK'
  BY DEF LiveFails, TypeOK
<1>13. SetMemoryDuration => TypeOK'
  <2> SUFFICES ASSUME SetMemoryDuration PROVE TypeOK'
    OBVIOUS
  <2>1. content' \in Seq(Nat) /\ file' \in Buffer!FileState /\ leftover' \subseteq Nat
    BY BufferType DEF SetMemoryDuration
  <2> QED BY <2>1 DEF SetMemoryDuration, TypeOK
<1>14. CASE UNCHANGED vars
  BY <1>14 DEF vars, TypeOK
<1> QED
  BY <1>1, <1>2, <1>4, <1>5, <1>6, <1>7, <1>8, <1>9, <1>10, <1>11, <1>12, <1>13, <1>14
  DEF Next

\* The types of the session's state, for every set of durations and metadata and
\* every bound (recording.go:31-45).
THEOREM TypeCorrect == Spec => []TypeOK
  BY InitTypeOK, NextTypeOK, PTL DEF Spec

----------------------------------------------------------------------------
\* Timers.

\* A deadline belongs to every current callback, and there is one.
TimerInv == CallbackMatchesDeadline /\ RecordingIsGuarded

\* Once the timer is stopped, no callback is current: generations only grow.
LEMMA StopTimer ==
  ASSUME TypeOK, stopTimerLocked, fired' \subseteq fired
  PROVE  \A c \in callbacks' : c.gen # generation'
  BY NoTimerAssumption DEF TypeOK, stopTimerLocked, callbacks

\* Once a timeout is scheduled, it alone is current.
LEMMA Reschedule ==
  ASSUME TypeOK, NEW at \in Nat, rescheduleLocked(at), fired' = fired
  PROVE  /\ \A c \in callbacks' : c.gen = generation' => c.at = at
         /\ \E c \in callbacks' : c.gen = generation'
<1>1. generation \in Nat /\ timer' = [gen |-> generation + 2, at |-> at]
      /\ generation' = generation + 2
  BY DEF TypeOK, rescheduleLocked
<1>2. timer' # NoTimer
  BY <1>1, NoTimerAssumption
<1>3. timer' \in callbacks'
  BY <1>2 DEF callbacks
<1>4. \A c \in fired : c.gen # generation'
  BY <1>1 DEF TypeOK
<1> QED
  BY <1>1, <1>3, <1>4 DEF callbacks

\* The two ways a recording gets a new deadline.
LEMMA NewDeadline ==
  ASSUME TypeOK, TimerInv, fired' = fired, now' = now,
         state' = "recording",
         deadline' = startedAt' + maxDuration', deadline' \in Nat,
         rescheduleLocked(deadline')
  PROVE  TimerInv'
<1>1. /\ \A c \in callbacks' : c.gen = generation' => c.at = deadline'
      /\ \E c \in callbacks' : c.gen = generation'
  BY Reschedule
<1> QED
  BY <1>1 DEF TimerInv, CallbackMatchesDeadline, RecordingIsGuarded

\* A session that is not recording any more needs no timer.
LEMMA NotRecording ==
  ASSUME TimerInv, fired' \subseteq fired, now' = now, state' # "recording"
  PROVE  TimerInv'
  BY DEF TimerInv, CallbackMatchesDeadline, RecordingIsGuarded

\* What concerns neither the timer, the deadline nor the clock.
LEMMA SameTimer ==
  ASSUME TimerInv, UNCHANGED <<sessionVars, maxDuration, closed, timerVars, fired, now>>
  PROVE  TimerInv'
  BY DEF TimerInv, CallbackMatchesDeadline, RecordingIsGuarded, callbacks,
         sessionVars, timerVars

LEMMA InitTimerInv == Init => TimerInv
  BY DEF Init, TimerInv, CallbackMatchesDeadline, RecordingIsGuarded

\* Every step keeps the deadline, the generation and the callbacks together.
LEMMA NextTimerInv == TypeOK /\ TimerInv /\ [Next]_vars => TimerInv'
<1> SUFFICES ASSUME TypeOK, TimerInv, [Next]_vars PROVE TimerInv'
  OBVIOUS
<1>t. now \in Nat /\ startedAt \in Nat /\ maxDuration \in Nat /\ generation \in Nat
  BY DurationAssumption DEF TypeOK
<1>b. beginLocked /\ UNCHANGED <<maxDuration, fired, now>> => TimerInv'
  <2> SUFFICES ASSUME beginLocked, UNCHANGED <<maxDuration, fired, now>> PROVE TimerInv'
    OBVIOUS
  <2>1. /\ deadline' = now + maxDuration /\ startedAt' = now /\ state' = "recording"
        /\ rescheduleLocked(now + maxDuration)
    BY DEF beginLocked
  <2>2. rescheduleLocked(deadline') /\ deadline' \in Nat
    BY <1>t, <2>1
  <2> QED BY <2>1, <2>2, NewDeadline
<1>1. \A m \in Metadata \cup {NoMetadata} : Start(m) => TimerInv'
  <2> SUFFICES ASSUME NEW m \in Metadata \cup {NoMetadata}, Start(m) PROVE TimerInv'
    OBVIOUS
  <2>1. CASE beginLocked
    BY <2>1, <1>b DEF Start
  <2>2. CASE UNCHANGED <<sessionVars, timerVars, live>>
    BY <2>2, SameTimer DEF Start
  <2> QED BY <2>1, <2>2 DEF Start
<1>2. Record => TimerInv'
  <2> SUFFICES ASSUME Record PROVE TimerInv'
    OBVIOUS
  <2>1. CASE recordIgnored \/ recordAppended
    BY <2>1, SameTimer DEF Record, recordIgnored, recordAppended
  <2>2. CASE recordOverdue \/ recordFailed
    BY <2>2, NotRecording DEF Record, recordOverdue, recordFailed, timeoutLocked
  <2> QED BY <2>1, <2>2 DEF Record
<1>3. Save => TimerInv'
  BY NotRecording DEF Save
<1>4. \A m \in Metadata \cup {metadata, NoMetadata} : SaveAndContinue(m) => TimerInv'
  BY <1>b DEF SaveAndContinue
<1>5. SaveFails \/ LiveFails \/ SetMemoryDuration => TimerInv'
  BY SameTimer DEF SaveFails, LiveFails, SetMemoryDuration
<1>6. \A d \in Duration : SetMaxDuration(d) => TimerInv'
  <2> SUFFICES ASSUME NEW d \in Duration, SetMaxDuration(d) PROVE TimerInv'
    OBVIOUS
  <2>1. CASE state # "recording"
    BY <2>1, NotRecording DEF SetMaxDuration, sessionVars
  <2>2. CASE timeoutLocked
    BY <2>2, NotRecording DEF SetMaxDuration, timeoutLocked
  <2>3. CASE rescheduleLocked(startedAt + d) /\ state = "recording" /\ ~(now >= startedAt + d)
    <3>1. /\ fired' = fired /\ now' = now /\ state' = "recording"
          /\ startedAt' = startedAt /\ maxDuration' = d /\ deadline' = startedAt + d
      BY <2>3 DEF SetMaxDuration
    <3>2. rescheduleLocked(deadline') /\ deadline' \in Nat
      BY <1>t, <2>3, <3>1, DurationAssumption
    <3> QED BY <3>1, <3>2, NewDeadline
  <2> QED BY <2>1, <2>2, <2>3 DEF SetMaxDuration
<1>7. Close => TimerInv'
  <2> SUFFICES ASSUME Close PROVE TimerInv'
    OBVIOUS
  <2>1. \A c \in callbacks' : c.gen # generation'
    BY StopTimer DEF Close
  <2> QED
    BY <2>1 DEF Close, TimerInv, CallbackMatchesDeadline, RecordingIsGuarded, sessionVars
<1>8. Tick => TimerInv'
  <2> SUFFICES ASSUME Tick PROVE TimerInv'
    OBVIOUS
  <2>1. \A c \in fired : c.at \in Nat
    BY DEF TypeOK
  <2>2. \A c \in fired' : now' >= c.at
    BY <1>t, <2>1 DEF Tick, TimerInv, CallbackMatchesDeadline
  <2> QED
    BY <2>2 DEF Tick, TimerInv, CallbackMatchesDeadline, RecordingIsGuarded, callbacks,
                sessionVars, timerVars
<1>9. TimerFires => TimerInv'
  <2> SUFFICES ASSUME TimerFires PROVE TimerInv'
    OBVIOUS
  <2>1. callbacks' = callbacks
    BY DEF TimerFires, callbacks
  <2>2. \A c \in fired' : now' >= c.at
    BY DEF TimerFires, TimerInv, CallbackMatchesDeadline
  <2> QED
    BY <2>1, <2>2 DEF TimerFires, TimerInv, CallbackMatchesDeadline, RecordingIsGuarded,
                      sessionVars
<1>10. \A c \in fired : Callback(c) => TimerInv'
  <2> SUFFICES ASSUME NEW c \in fired, Callback(c) PROVE TimerInv'
    OBVIOUS
  <2>1. CASE callbackIsCurrent(c)
    BY <2>1, NotRecording DEF Callback, timeoutLocked
  <2>2. CASE ~callbackIsCurrent(c)
    <3>1. UNCHANGED <<sessionVars, timerVars, maxDuration, closed, now>> /\ fired' = fired \ {c}
      BY <2>2 DEF Callback
    <3>2. callbacks' \subseteq callbacks
      BY <3>1 DEF callbacks, timerVars
    <3>3. state = "recording" /\ ~closed => c.gen # generation
      BY <2>2 DEF callbackIsCurrent
    <3>4. \A x \in callbacks : x # c => x \in callbacks'
      BY <3>1 DEF callbacks, timerVars
    <3> QED
      BY <3>1, <3>2, <3>3, <3>4
      DEF TimerInv, CallbackMatchesDeadline, RecordingIsGuarded, sessionVars, timerVars
  <2> QED BY <2>1, <2>2
<1>11. CASE UNCHANGED vars
  BY <1>11, SameTimer DEF vars
<1> QED
  BY <1>1, <1>2, <1>3, <1>4, <1>5, <1>6, <1>7, <1>8, <1>9, <1>10, <1>11 DEF Next

\* A callback that passes the generation check was scheduled for the deadline
\* the recording has now (recording.go:216-228).
THEOREM CallbacksMatch == Spec => []CallbackMatchesDeadline
<1>1. Spec => [](TypeOK /\ TimerInv)
  BY InitTypeOK, NextTypeOK, InitTimerInv, NextTimerInv, PTL DEF Spec
<1>2. TimerInv => CallbackMatchesDeadline
  BY DEF TimerInv
<1> QED BY <1>1, <1>2, PTL

\* On every path, the failing ones included, a recording keeps a callback that
\* will end it (recording.go:60-82, 119-181).
THEOREM RecordingsAreGuarded == Spec => []RecordingIsGuarded
<1>1. Spec => [](TypeOK /\ TimerInv)
  BY InitTypeOK, NextTypeOK, InitTimerInv, NextTimerInv, PTL DEF Spec
<1>2. TimerInv => RecordingIsGuarded
  BY DEF TimerInv
<1> QED BY <1>1, <1>2, PTL

----------------------------------------------------------------------------
\* Timeouts.

\* Only three actions can time a recording out, and each has found it overdue:
\* two by the clock, the callback by its generation.
LEMMA NextTimesOut ==
  ASSUME TypeOK, TimerInv, [Next]_vars, state = "recording", state' = "timedOut"
  PROVE  now >= startedAt + maxDuration'
<1>t. deadline = startedAt + maxDuration
  BY DEF TimerInv, CallbackMatchesDeadline
<1>1. CASE Record
  <2>1. recordOverdue
    BY <1>1 DEF Record, recordIgnored, recordAppended, recordFailed, sessionVars
  <2> QED BY <1>t, <1>1, <2>1 DEF Record, recordOverdue
<1>2. CASE \E d \in Duration : SetMaxDuration(d)
  BY <1>2 DEF SetMaxDuration
<1>3. CASE \E c \in fired : Callback(c)
  <2>1. PICK c \in fired : Callback(c)
    BY <1>3
  <2>2. callbackIsCurrent(c)
    BY <2>1 DEF Callback, sessionVars
  <2>3. c.at = deadline /\ now >= c.at
    BY <2>2 DEF callbackIsCurrent, TimerInv, CallbackMatchesDeadline, callbacks
  <2> QED BY <1>t, <2>1, <2>3 DEF Callback
<1>4. ~ \E m \in Metadata \cup {NoMetadata} : Start(m)
  BY DEF Start, beginLocked, sessionVars
<1>5. ~ (Save \/ \E m \in Metadata \cup {metadata, NoMetadata} : SaveAndContinue(m))
  BY DEF Save, SaveAndContinue, beginLocked
<1>6. ~ (SaveFails \/ Close \/ Tick \/ TimerFires \/ LiveFails \/ SetMemoryDuration)
  BY DEF SaveFails, Close, Tick, TimerFires, LiveFails, SetMemoryDuration, sessionVars
<1>7. ~ UNCHANGED vars
  BY DEF vars, sessionVars
<1> QED BY <1>1, <1>2, <1>3, <1>4, <1>5, <1>6, <1>7 DEF Next

\* No recording is discarded before it has lasted its maximum duration, whatever
\* callbacks of earlier recordings wait for the lock (recording.go:216-254).
THEOREM NoEarlyTimeout == Spec => OnlyOverdueTimesOut
<1>1. Spec => [](TypeOK /\ TimerInv)
  BY InitTypeOK, NextTypeOK, InitTimerInv, NextTimerInv, PTL DEF Spec
<1>2. TypeOK /\ TimerInv /\ [Next]_vars
        => [state = "recording" /\ state' = "timedOut" => now >= startedAt + maxDuration']_vars
  BY NextTimesOut
<1> QED BY <1>1, <1>2, PTL DEF Spec, OnlyOverdueTimesOut

----------------------------------------------------------------------------
\* What is held.

LEMMA InitHeld == Init => NothingHeldOutsideRecording
  BY DEF Init, Buffer!Init, NothingHeldOutsideRecording

\* Whatever ends a recording empties the buffer and takes the live encoder away;
\* whatever fills them needs a recording, or a buffer that is not empty.
LEMMA NextHeld == NothingHeldOutsideRecording /\ [Next]_vars => NothingHeldOutsideRecording'
<1> SUFFICES ASSUME NothingHeldOutsideRecording, [Next]_vars
             PROVE  NothingHeldOutsideRecording'
  OBVIOUS
<1> USE DEF NothingHeldOutsideRecording, sessionVars, bufferVars
<1>1. \A m \in Metadata \cup {NoMetadata} : Start(m) => NothingHeldOutsideRecording'
  BY DEF Start, beginLocked, Buffer!ClearFails, Buffer!Emptied
<1>2. Record => NothingHeldOutsideRecording'
  BY DEF Record, recordIgnored, recordOverdue, recordAppended, recordFailed, timeoutLocked,
         Buffer!ClearOk, Buffer!ClearFails, Buffer!Emptied
<1>3. Save => NothingHeldOutsideRecording'
  BY DEF Save, enqueued, Buffer!DetachOk, Buffer!Emptied
<1>4. \A m \in Metadata \cup {metadata, NoMetadata} :
          SaveAndContinue(m) => NothingHeldOutsideRecording'
  BY DEF SaveAndContinue, beginLocked
<1>5. SaveFails => NothingHeldOutsideRecording'
  BY DEF SaveFails
<1>6. \A d \in Duration : SetMaxDuration(d) => NothingHeldOutsideRecording'
  BY DEF SetMaxDuration, timeoutLocked, Buffer!ClearOk, Buffer!ClearFails, Buffer!Emptied
<1>7. Close \/ Tick \/ TimerFires \/ LiveFails => NothingHeldOutsideRecording'
  BY DEF Close, Tick, TimerFires, LiveFails
<1>8. \A c \in fired : Callback(c) => NothingHeldOutsideRecording'
  BY DEF Callback, timeoutLocked, Buffer!ClearOk, Buffer!ClearFails, Buffer!Emptied
<1>9. SetMemoryDuration => NothingHeldOutsideRecording'
  BY DEF SetMemoryDuration, Buffer!WriteOut
<1>10. CASE UNCHANGED vars
  BY <1>10 DEF vars
<1> QED
  BY <1>1, <1>2, <1>3, <1>4, <1>5, <1>6, <1>7, <1>8, <1>9, <1>10 DEF Next

\* Outside a recording no frame is retained in the buffer, in its spool file or in
\* the live encoder, whichever operation failed before; a file that Clear could not
\* remove is not the buffer's any more (recording.go:93-103, 136-158, 238-254).
THEOREM NothingIsHeld == Spec => []NothingHeldOutsideRecording
  BY InitHeld, NextHeld, PTL DEF Spec

----------------------------------------------------------------------------
\* The lifecycle.

\* A job added to the queue is a segment delivered.
LEMMA Delivery ==
  ASSUME NEW S, NEW q \in Seq(S), NEW j \in S
  PROVE  LET frames(r) == [i \in 1..Len(r) |-> r[i].frames]
         IN  frames(Append(q, j)) = Append(frames(q), j.frames)
<1> DEFINE frames(r) == [i \in 1..Len(r) |-> r[i].frames]
<1>1. Len(Append(q, j)) = Len(q) + 1 /\ Len(q) \in Nat
  OBVIOUS
<1>2. Len(frames(q)) = Len(q)
  OBVIOUS
<1>3. \A i \in 1..Len(q) + 1 :
          frames(Append(q, j))[i] = Append(frames(q), j.frames)[i]
  BY <1>1, <1>2
<1> QED BY <1>1, <1>2, <1>3

LEMMA InitLifecycle == Init => Lifecycle!Init
  BY DEF Init, Lifecycle!Init, Buffer!Init, ZeroTime

\* A timeout of an overdue recording is the lifecycle's Expire.
LEMMA TimeoutExpires ==
  ASSUME ~closed, state = "recording", timeoutLocked,
         maxDuration' \in Duration, now >= startedAt + maxDuration',
         captured' \in {captured, captured + 1}, UNCHANGED <<closed, jobs, now>>
  PROVE  Lifecycle!Expire
<1>1. content' = <<>>
  BY DEF timeoutLocked, Buffer!ClearOk, Buffer!ClearFails, Buffer!Emptied
<1> QED
  BY <1>1 DEF timeoutLocked, Lifecycle!Expire, Lifecycle!Recording, ZeroTime

\* What enqueue hands over is what the lifecycle delivers.
LEMMA EnqueueDelivers ==
  ASSUME TypeOK, enqueued
  PROVE  /\ content # <<>> /\ content' = <<>>
         /\ [i \in 1..Len(jobs') |-> jobs'[i].frames]
              = Append([i \in 1..Len(jobs) |-> jobs[i].frames], content)
<1> DEFINE Job == [frames : Seq(Nat), live : {NoLive} \cup Seq(Nat)]
           handed == [frames |-> content, live |-> live]
<1>1. content # <<>> /\ content' = <<>> /\ jobs' = Append(jobs, handed)
  BY DEF enqueued, Buffer!DetachOk, Buffer!Emptied
<1>2. jobs \in Seq(Job) /\ handed \in Job
  BY DEF TypeOK
<1>3. handed.frames = content
  OBVIOUS
<1> HIDE DEF Job, handed
<1> QED BY <1>1, <1>2, <1>3, Delivery

\* Every step of the session is a step of the lifecycle, or changes nothing there.
LEMMA NextLifecycle ==
  TypeOK /\ TimerInv /\ NothingHeldOutsideRecording /\ [Next]_vars
    => [Lifecycle!Next]_(Lifecycle!lifecycleVars)
<1> SUFFICES ASSUME TypeOK, TimerInv, NothingHeldOutsideRecording, [Next]_vars
             PROVE  Lifecycle!Next \/ UNCHANGED Lifecycle!lifecycleVars
  OBVIOUS
<1> USE DEF sessionVars, bufferVars
<1>t. /\ now \in Nat /\ startedAt \in Nat /\ captured \in Nat /\ maxDuration \in Duration
      /\ state = "recording" => deadline = startedAt + maxDuration
  BY DEF TypeOK, TimerInv, CallbackMatchesDeadline
<1>d. \A d \in Duration : d \in Nat
  BY DurationAssumption
<1>1. ASSUME NEW m \in Metadata \cup {NoMetadata}, Start(m)
      PROVE  Lifecycle!Begin \/ Lifecycle!BeginFails
  <2>1. ~closed /\ content' = <<>> /\ UNCHANGED <<maxDuration, closed, jobs, now, captured>>
    BY <1>1 DEF Start, Buffer!ClearOk, Buffer!ClearFails, Buffer!Emptied
  <2>2. CASE beginLocked
    BY <2>1, <2>2 DEF beginLocked, Lifecycle!Begin
  <2>3. CASE UNCHANGED <<sessionVars, timerVars, live>>
    BY <2>1, <2>3 DEF Lifecycle!BeginFails
  <2> QED BY <1>1, <2>2, <2>3 DEF Start
<1>2. ASSUME Record
      PROVE  Lifecycle!Keep \/ Lifecycle!Expire \/ Lifecycle!Lose
  <2>1. captured' = captured + 1 /\ UNCHANGED <<maxDuration, closed, jobs, now>>
    BY <1>2 DEF Record
  <2>2. CASE recordIgnored
    BY <2>1, <2>2 DEF recordIgnored, Lifecycle!Keep, Lifecycle!Recording
  <2>3. CASE recordOverdue
    <3>1. maxDuration' \in Duration /\ now >= startedAt + maxDuration'
      BY <1>t, <2>1, <2>3 DEF recordOverdue
    <3> QED BY <2>1, <2>3, <3>1, TimeoutExpires DEF recordOverdue
  <2>4. CASE recordAppended
    <3>1. content' = Append(content, captured')
      BY <2>4 DEF recordAppended, Buffer!AppendOk
    <3> QED
      BY <1>t, <2>1, <2>4, <3>1 DEF recordAppended, Lifecycle!Keep, Lifecycle!Recording
  <2>5. CASE recordFailed
    BY <2>1, <2>5
    DEF recordFailed, Buffer!ClearOk, Buffer!ClearFails, Buffer!Emptied,
        Lifecycle!Lose, Lifecycle!Recording, ZeroTime
  <2> QED BY <1>2, <2>2, <2>3, <2>4, <2>5 DEF Record
<1>3. ASSUME Save
      PROVE  Lifecycle!Deliver(FALSE)
  BY <1>3, EnqueueDelivers DEF Save, Lifecycle!Deliver, Lifecycle!Recording, ZeroTime
<1>4. ASSUME NEW m \in Metadata \cup {metadata, NoMetadata}, SaveAndContinue(m)
      PROVE  Lifecycle!Deliver(TRUE)
  BY <1>4, EnqueueDelivers
  DEF SaveAndContinue, beginLocked, Lifecycle!Deliver, Lifecycle!Recording
<1>5. ASSUME NEW d \in Duration, SetMaxDuration(d)
      PROVE  Lifecycle!SetLimit \/ Lifecycle!Expire
  <2>1. ~closed /\ maxDuration' = d /\ UNCHANGED <<closed, jobs, now, captured>>
    BY <1>5 DEF SetMaxDuration
  <2>2. CASE state # "recording"
    BY <1>5, <2>1, <2>2 DEF SetMaxDuration, Lifecycle!SetLimit, Lifecycle!Recording
  <2>3. CASE state = "recording" /\ now >= startedAt + d
    BY <1>5, <2>1, <2>3, TimeoutExpires DEF SetMaxDuration
  <2>4. CASE state = "recording" /\ ~(now >= startedAt + d)
    <3>1. now < startedAt + d
      BY <1>t, <1>d, <2>4
    <3> QED BY <1>5, <2>1, <2>4, <3>1 DEF SetMaxDuration, Lifecycle!SetLimit
  <2> QED BY <2>2, <2>3, <2>4
<1>6. ASSUME Close
      PROVE  Lifecycle!Close
  BY <1>6 DEF Close, Lifecycle!Close
<1>7. ASSUME Tick
      PROVE  Lifecycle!PassTime
  BY <1>7 DEF Tick, Lifecycle!PassTime
<1>8. ASSUME NEW c \in fired, Callback(c)
      PROVE  Lifecycle!Expire \/ UNCHANGED Lifecycle!lifecycleVars
  <2>1. UNCHANGED <<maxDuration, closed, jobs, now, captured>>
    BY <1>8 DEF Callback
  <2>2. CASE callbackIsCurrent(c)
    <3>1. c.at = deadline /\ now >= c.at
      BY <2>2 DEF callbackIsCurrent, TimerInv, CallbackMatchesDeadline, callbacks
    <3>2. maxDuration' \in Duration /\ now >= startedAt + maxDuration'
      BY <1>t, <2>1, <2>2, <3>1 DEF callbackIsCurrent
    <3> QED BY <1>8, <2>1, <2>2, <3>2, TimeoutExpires DEF Callback, callbackIsCurrent
  <2>3. CASE ~callbackIsCurrent(c)
    BY <1>8, <2>1, <2>3 DEF Callback, Lifecycle!lifecycleVars
  <2> QED BY <2>2, <2>3
<1>9. ASSUME SaveFails \/ TimerFires \/ LiveFails \/ SetMemoryDuration \/ UNCHANGED vars
      PROVE  UNCHANGED Lifecycle!lifecycleVars
  BY <1>9
  DEF SaveFails, TimerFires, LiveFails, SetMemoryDuration, vars, Buffer!DetachFails,
      Buffer!WriteOut, Lifecycle!lifecycleVars
<1> QED
  BY <1>1, <1>2, <1>3, <1>4, <1>5, <1>6, <1>7, <1>8, <1>9 DEF Next, Lifecycle!Next

\* The session keeps the promises of RecordingLifecycle: whatever its timers,
\* callbacks, buffer and encoder do, frames are kept from start to save, a segment
\* is everything kept, and only an overdue recording expires (recording.go:60-254).
THEOREM LifecycleIsKept == Spec => LifecycleSpec
<1>1. Spec => [](TypeOK /\ TimerInv /\ NothingHeldOutsideRecording)
  BY InitTypeOK, NextTypeOK, InitTimerInv, NextTimerInv, InitHeld, NextHeld, PTL DEF Spec
<1> QED
  BY <1>1, InitLifecycle, NextLifecycle, PTL DEF Spec, LifecycleSpec, Lifecycle!Spec

----------------------------------------------------------------------------
\* Segments.

\* What a step does to the frames that are kept, in the buffer, in the live encoder
\* and in what was handed over.
Grows ==
    /\ ~closed /\ ~closed'
    /\ captured' = captured + 1 /\ content' = Append(content, captured + 1)
    /\ live' = NoLive \/ (live # NoLive /\ live' = Append(live, captured + 1))
    /\ jobs' = jobs /\ leftover' = leftover

Empties ==
    /\ leftover' \subseteq leftover \cup ContentSet
    /\ content' = <<>> /\ live' \in {live, NoLive, <<>>}
    /\ captured' \in {captured, captured + 1} /\ jobs' = jobs

HandsOver ==
    /\ content # <<>> /\ content' = <<>> /\ captured' = captured
    /\ live' \in {NoLive, <<>>}
    /\ jobs' = Append(jobs, [frames |-> content, live |-> live])
    /\ leftover' = leftover

Rests ==
    /\ leftover' = leftover
    /\ content' = content /\ live' \in {live, NoLive} /\ jobs' = jobs
    /\ captured' \in {captured, captured + 1}
    /\ captured' = captured \/ closed \/ content = <<>>
    /\ closed => closed'

\* Every step is one of these: a frame that is not kept has been lost, or meets a
\* buffer that stays empty.
LEMMA NextFrames ==
  ASSUME TypeOK, NothingHeldOutsideRecording, [Next]_vars
  PROVE  Grows \/ Empties \/ HandsOver \/ Rests
<1> USE DEF sessionVars, bufferVars
<1>c. content \in Seq(Nat)
  BY DEF TypeOK
<1>1. ASSUME NEW m \in Metadata \cup {NoMetadata}, Start(m) PROVE Empties
  BY <1>c, <1>1, Cleared DEF Start, beginLocked, Empties
<1>2. ASSUME Record PROVE Grows \/ Empties \/ Rests
  <2>1. captured' = captured + 1 /\ UNCHANGED <<closed, jobs>>
    BY <1>2 DEF Record
  <2>2. CASE recordIgnored
    <3>1. /\ content' = content /\ live' = live /\ leftover' = leftover
          /\ closed \/ content = <<>>
      BY <2>2 DEF recordIgnored, NothingHeldOutsideRecording
    <3> QED BY <2>1, <3>1, Zenon DEF Rests
  <2>3. CASE recordOverdue \/ recordFailed
    BY <1>c, <2>1, <2>3, Cleared DEF recordOverdue, recordFailed, timeoutLocked, Empties
  <2>4. CASE recordAppended
    <3>1. /\ ~closed /\ content' = Append(content, captured + 1) /\ leftover' = leftover
          /\ live' = NoLive \/ (live # NoLive /\ live' = Append(live, captured + 1))
      BY <2>1, <2>4 DEF recordAppended, Buffer!AppendOk
    <3> QED BY <2>1, <3>1 DEF Grows
  <2> QED BY <1>2, <2>2, <2>3, <2>4 DEF Record
<1>3. ASSUME enqueued, captured' = captured, live' \in {NoLive, <<>>} PROVE HandsOver
  BY <1>3, Zenon DEF enqueued, HandsOver, Buffer!DetachOk, Buffer!Emptied
<1>4. ASSUME NEW d \in Duration, SetMaxDuration(d) PROVE Empties \/ Rests
  <2>1. UNCHANGED <<closed, jobs, captured>>
        /\ (timeoutLocked \/ (content' = content /\ live' = live /\ leftover' = leftover))
    BY <1>4 DEF SetMaxDuration
  <2> QED BY <1>c, <2>1, Cleared DEF timeoutLocked, Empties, Rests
<1>5. ASSUME NEW c \in fired, Callback(c) PROVE Empties \/ Rests
  <2>1. UNCHANGED <<closed, jobs, captured>>
        /\ (timeoutLocked \/ (content' = content /\ live' = live /\ leftover' = leftover))
    BY <1>5 DEF Callback
  <2> QED BY <1>c, <2>1, Cleared DEF timeoutLocked, Empties, Rests
<1>6. ASSUME SaveFails \/ SetMemoryDuration PROVE Rests
  BY <1>6 DEF SaveFails, SetMemoryDuration, Rests, Buffer!DetachFails, Buffer!WriteOut
<1>7. ASSUME Close \/ Tick \/ TimerFires \/ LiveFails \/ UNCHANGED vars PROVE Rests
  BY <1>7 DEF Close, Tick, TimerFires, LiveFails, vars, Rests
<1>8. ASSUME Save \/ \E m \in Metadata \cup {metadata, NoMetadata} : SaveAndContinue(m)
      PROVE  enqueued /\ captured' = captured /\ live' \in {NoLive, <<>>}
  BY <1>8 DEF Save, SaveAndContinue, beginLocked
<1> QED BY <1>1, <1>2, <1>3, <1>4, <1>5, <1>6, <1>7, <1>8 DEF Next

\* A run is its first and its last frame.
Run(s) == s \in Seq(Nat) /\ Len(s) > 0 /\ IsRun(s)
First(s) == s[1]
Last(s) == s[Len(s)]

\* The segments follow each other, the buffer's content comes after them, and the
\* camera has delivered it all.
FramesInv ==
    /\ content # <<>> =>
        /\ Run(content) /\ Last(content) <= captured
        /\ ~closed => Last(content) = captured
        /\ \A i \in 1..Len(jobs) : Last(jobs[i].frames) < First(content)
    /\ \A i \in 1..Len(jobs) :
        /\ Run(jobs[i].frames) /\ Last(jobs[i].frames) <= captured
        /\ \A j \in i + 1..Len(jobs) : Last(jobs[i].frames) < First(jobs[j].frames)

LEMMA RunFacts ==
  ASSUME NEW s, Run(s)
  PROVE  /\ Len(s) \in Nat \ {0} /\ First(s) \in Nat /\ Last(s) \in Nat
         /\ First(s) <= Last(s)
         /\ \A k \in 1..Len(s) : First(s) <= s[k] /\ s[k] <= Last(s)
<1>1. s \in Seq(Nat) /\ Len(s) \in Nat /\ Len(s) > 0
  BY DEF Run
<1>2. 1 \in 1..Len(s) /\ Len(s) \in 1..Len(s)
  BY <1>1
<1>3. s[1] \in Nat
  BY <1>1, <1>2
<1>4. \A k \in 1..Len(s) : s[k] = s[1] + k - 1
  BY DEF Run, IsRun
<1>5. s[Len(s)] = s[1] + Len(s) - 1
  BY <1>2, <1>4
<1>6. s[Len(s)] \in Nat /\ s[1] <= s[Len(s)]
  BY <1>1, <1>3, <1>5
<1>7. ASSUME NEW k \in 1..Len(s) PROVE s[1] <= s[k] /\ s[k] <= s[Len(s)]
  <2>1. s[k] = s[1] + k - 1 /\ k \in Nat /\ 1 <= k /\ k <= Len(s)
    BY <1>1, <1>4
  <2> QED BY <1>1, <1>3, <1>5, <2>1
<1> QED BY <1>1, <1>3, <1>6, <1>7 DEF First, Last

\* A run that grows by the next frame.
LEMMA RunGrows ==
  ASSUME NEW s \in Seq(Nat), NEW n \in Nat, s # <<>> => Run(s) /\ Last(s) = n
  PROVE  /\ Run(Append(s, n + 1)) /\ Last(Append(s, n + 1)) = n + 1
         /\ First(Append(s, n + 1)) = IF s = <<>> THEN n + 1 ELSE First(s)
<1> DEFINE t == Append(s, n + 1)
<1>1. /\ t \in Seq(Nat) /\ Len(t) = Len(s) + 1 /\ t[Len(s) + 1] = n + 1 /\ Len(s) \in Nat
      /\ \A k \in 1..Len(s) : t[k] = s[k]
  OBVIOUS
<1> HIDE DEF t
<1>2. CASE s = <<>>
  <2>1. Len(s) = 0
    BY <1>2
  <2>2. Len(t) = 1 /\ t[1] = n + 1
    BY <1>1, <2>1
  <2>3. IsRun(t)
    BY <2>2 DEF IsRun
  <2> QED BY <1>1, <1>2, <2>2, <2>3 DEF Run, First, Last, t
<1>3. CASE s # <<>>
  <2>1. /\ Run(s) /\ s[Len(s)] = n /\ Len(s) > 0 /\ s[1] \in Nat
        /\ \A k \in 1..Len(s) : s[k] = s[1] + k - 1
    BY <1>3, RunFacts DEF Run, IsRun, First, Last
  <2>2. 1 \in 1..Len(s) /\ Len(s) \in 1..Len(s)
    BY <1>1, <2>1
  <2>3. t[1] = s[1] /\ n = s[1] + Len(s) - 1
    BY <1>1, <2>1, <2>2
  <2>4. ASSUME NEW k \in 1..Len(t) PROVE t[k] = t[1] + k - 1
    <3>1. CASE k \in 1..Len(s)
      BY <1>1, <2>1, <2>3, <3>1
    <3>2. CASE k = Len(s) + 1
      <4>1. t[k] = n + 1
        BY <1>1, <3>2
      <4> QED BY <1>1, <2>1, <2>3, <3>2, <4>1
    <3> QED BY <1>1, <3>1, <3>2
  <2>5. IsRun(t)
    BY <2>4 DEF IsRun
  <2> QED BY <1>1, <1>3, <2>3, <2>5 DEF Run, First, Last, t
<1> QED BY <1>2, <1>3

LEMMA InitFrames == Init => FramesInv
<1> SUFFICES ASSUME Init PROVE FramesInv
  OBVIOUS
<1>1. content = <<>> /\ Len(jobs) = 0 /\ 1..0 = {}
  BY EmptyIsSeq DEF Init, Buffer!Init
<1> QED BY <1>1 DEF FramesInv

LEMMA NextFramesInv ==
  ASSUME TypeOK, FramesInv, Grows \/ Empties \/ HandsOver \/ Rests
  PROVE  FramesInv'
<1>1. /\ content \in Seq(Nat) /\ captured \in Nat /\ Len(jobs) \in Nat /\ closed \in BOOLEAN
      /\ jobs \in Seq([frames : Seq(Nat), live : {NoLive} \cup Seq(Nat)])
  BY DEF TypeOK
<1>2. \A i \in 1..Len(jobs) :
        /\ Run(jobs[i].frames) /\ Last(jobs[i].frames) <= captured
        /\ Last(jobs[i].frames) \in Nat
        /\ \A j \in i + 1..Len(jobs) : Last(jobs[i].frames) < First(jobs[j].frames)
  BY RunFacts DEF FramesInv
<1>3. content # <<>> =>
        /\ Run(content) /\ Last(content) <= captured /\ Last(content) \in Nat
        /\ First(content) \in Nat
        /\ ~closed => Last(content) = captured
        /\ \A i \in 1..Len(jobs) : Last(jobs[i].frames) < First(content)
  BY RunFacts DEF FramesInv
<1>4. captured' \in {captured, captured + 1}
        => \A i \in 1..Len(jobs) : Last(jobs[i].frames) <= captured'
  BY <1>1, <1>2
<1>5. CASE Grows
  <2>1. /\ ~closed /\ captured' = captured + 1 /\ content' = Append(content, captured + 1)
        /\ jobs' = jobs
    BY <1>5 DEF Grows
  <2>2. /\ Run(content') /\ Last(content') = captured'
        /\ First(content') = IF content = <<>> THEN captured + 1 ELSE First(content)
    BY <1>1, <1>3, <2>1, RunGrows
  <2>3. \A i \in 1..Len(jobs) : Last(jobs[i].frames) < First(content')
    BY <1>1, <1>2, <1>3, <2>2
  <2>4. Last(content') <= captured'
    BY <1>1, <2>1, <2>2
  <2> QED BY <1>2, <1>4, <2>1, <2>2, <2>3, <2>4 DEF FramesInv
<1>6. CASE Empties
  <2>1. content' = <<>> /\ captured' \in {captured, captured + 1} /\ jobs' = jobs
    BY <1>6 DEF Empties
  <2> QED BY <1>2, <1>4, <2>1 DEF FramesInv
<1>7. CASE Rests
  <2>1. /\ content' = content /\ jobs' = jobs /\ captured' \in {captured, captured + 1}
        /\ captured' = captured \/ closed \/ content = <<>>
        /\ closed => closed'
    BY <1>7 DEF Rests
  <2>2. content # <<>> => Last(content) <= captured'
    BY <1>1, <1>3, <2>1
  <2> QED BY <1>2, <1>3, <1>4, <2>1, <2>2 DEF FramesInv
<1>8. CASE HandsOver
  <2> DEFINE job == [frames |-> content, live |-> live]
  <2>1. content # <<>> /\ content' = <<>> /\ captured' = captured /\ jobs' = Append(jobs, job)
    BY <1>8 DEF HandsOver
  <2>2. job.frames = content
    OBVIOUS
  <2>3. job \in [frames : Seq(Nat), live : {NoLive} \cup Seq(Nat)]
    BY DEF TypeOK
  <2> HIDE DEF job
  <2>4. /\ Len(jobs') = Len(jobs) + 1 /\ jobs'[Len(jobs) + 1] = job
        /\ \A i \in 1..Len(jobs) : jobs'[i] = jobs[i]
    BY <1>1, <2>1, <2>3
  <2>5. ASSUME NEW i \in 1..Len(jobs')
        PROVE  /\ Run(jobs'[i].frames) /\ Last(jobs'[i].frames) <= captured'
               /\ \A j \in i + 1..Len(jobs') :
                    Last(jobs'[i].frames) < First(jobs'[j].frames)
    <3>1. CASE i \in 1..Len(jobs)
      <4>1. Run(jobs'[i].frames) /\ Last(jobs'[i].frames) <= captured'
        BY <1>2, <2>1, <2>4, <3>1
      <4>2. ASSUME NEW j \in i + 1..Len(jobs')
            PROVE  Last(jobs'[i].frames) < First(jobs'[j].frames)
        <5>1. j \in i + 1..Len(jobs) \/ j = Len(jobs) + 1
          <6>1. Len(jobs') = Len(jobs) + 1 /\ Len(jobs) \in Nat /\ i \in Nat
            BY <1>1, <2>4, <3>1
          <6> QED BY ONLY <6>1, j \in i + 1..Len(jobs')
        <5>2. CASE j \in i + 1..Len(jobs)
          <6>1. j \in 1..Len(jobs)
            BY <1>1, <3>1, <5>2
          <6> QED BY <1>2, <2>4, <3>1, <5>2, <6>1
        <5>3. CASE j = Len(jobs) + 1
          BY <1>3, <2>1, <2>2, <2>4, <3>1, <5>3
        <5> QED BY <5>1, <5>2, <5>3
      <4> QED BY <4>1, <4>2
    <3>2. CASE i = Len(jobs) + 1
      <4>1. jobs'[i].frames = content /\ i + 1..Len(jobs') = {}
        BY <1>1, <2>2, <2>4, <3>2
      <4> QED BY <1>3, <2>1, <4>1
    <3>3. i \in 1..Len(jobs) \/ i = Len(jobs) + 1
      BY <1>1, <2>4
    <3> QED BY <3>1, <3>2, <3>3, Zenon
  <2> QED BY <2>1, <2>5, Zenon DEF FramesInv
<1> QED BY <1>5, <1>6, <1>7, <1>8

\* What a failed removal left on disk is older than what the buffer holds, and is in
\* no segment.
LeftoverInv ==
    \A f \in leftover :
        /\ f <= captured
        /\ content # <<>> => f < First(content)
        /\ \A i \in 1..Len(jobs) : \A k \in 1..Len(jobs[i].frames) : jobs[i].frames[k] # f

LEMMA InitLeftover == Init => LeftoverInv
  BY DEF Init, Buffer!Init, LeftoverInv

LEMMA NextLeftover ==
  ASSUME TypeOK, FramesInv, LeftoverInv, Grows \/ Empties \/ HandsOver \/ Rests
  PROVE  LeftoverInv'
<1>1. /\ content \in Seq(Nat) /\ captured \in Nat /\ Len(jobs) \in Nat
      /\ jobs \in Seq([frames : Seq(Nat), live : {NoLive} \cup Seq(Nat)])
      /\ \A f \in leftover : f \in Nat
  BY DEF TypeOK
<1>2. content # <<>> =>
        /\ Run(content) /\ Last(content) <= captured
        /\ First(content) \in Nat /\ Last(content) \in Nat
        /\ \A k \in 1..Len(content) : First(content) <= content[k] /\ content[k] <= Last(content)
        /\ \A i \in 1..Len(jobs) : Last(jobs[i].frames) < First(content)
  BY RunFacts DEF FramesInv
<1>3. CASE Grows
  <2>1. /\ captured' = captured + 1 /\ content' = Append(content, captured + 1)
        /\ jobs' = jobs /\ leftover' = leftover
    BY <1>3 DEF Grows
  <2>2. First(content') = IF content = <<>> THEN captured + 1 ELSE First(content)
    BY <1>1, <2>1 DEF First
  <2> QED BY <1>1, <1>2, <2>1, <2>2 DEF LeftoverInv
<1>4. CASE Empties
  <2>1. /\ content' = <<>> /\ captured' \in {captured, captured + 1} /\ jobs' = jobs
        /\ leftover' \subseteq leftover \cup ContentSet
    BY <1>4 DEF Empties
  <2>2. ASSUME NEW k \in 1..Len(content)
        PROVE  /\ content[k] <= captured
               /\ \A i \in 1..Len(jobs) : \A x \in 1..Len(jobs[i].frames) :
                        jobs[i].frames[x] # content[k]
    <3>1. content # <<>> /\ content[k] \in Nat
      BY <1>1
    <3>2. content[k] <= captured
      BY <1>1, <1>2, <3>1
    <3>3. ASSUME NEW i \in 1..Len(jobs), NEW x \in 1..Len(jobs[i].frames)
          PROVE  jobs[i].frames[x] # content[k]
      <4>1. Run(jobs[i].frames)
        BY DEF FramesInv
      <4>2. /\ jobs[i].frames[x] <= Last(jobs[i].frames) /\ Last(jobs[i].frames) \in Nat
            /\ jobs[i].frames[x] \in Nat
        BY <4>1, RunFacts DEF Run
      <4> QED BY <1>2, <3>1, <4>2
    <3> QED BY <3>2, <3>3
  <2>3. ASSUME NEW f \in leftover'
        PROVE  /\ f <= captured'
               /\ \A i \in 1..Len(jobs) : \A k \in 1..Len(jobs[i].frames) :
                        jobs[i].frames[k] # f
    <3>1. CASE f \in leftover
      BY <1>1, <2>1, <3>1 DEF LeftoverInv
    <3>2. CASE f \in ContentSet
      <4>1. PICK k \in 1..Len(content) : f = content[k]
        BY <3>2 DEF ContentSet
      <4>2. f \in Nat
        BY <1>1, <4>1
      <4>3. f <= captured
        BY <2>2, <4>1
      <4> QED BY <1>1, <2>1, <2>2, <4>1, <4>2, <4>3
    <3> QED BY <2>1, <3>1, <3>2, Zenon
  <2> QED BY <2>1, <2>3 DEF LeftoverInv
<1>5. CASE Rests
  <2>1. /\ content' = content /\ jobs' = jobs /\ captured' \in {captured, captured + 1}
        /\ leftover' = leftover
    BY <1>5 DEF Rests
  <2> QED BY <1>1, <2>1 DEF LeftoverInv
<1>6. CASE HandsOver
  <2> DEFINE job == [frames |-> content, live |-> live]
  <2>1. /\ content # <<>> /\ content' = <<>> /\ captured' = captured
        /\ jobs' = Append(jobs, job) /\ leftover' = leftover
    BY <1>6 DEF HandsOver
  <2>2. job.frames = content
    OBVIOUS
  <2>3. job \in [frames : Seq(Nat), live : {NoLive} \cup Seq(Nat)]
    BY DEF TypeOK
  <2> HIDE DEF job
  <2>4. /\ Len(jobs') = Len(jobs) + 1 /\ jobs'[Len(jobs) + 1] = job
        /\ \A i \in 1..Len(jobs) : jobs'[i] = jobs[i]
    BY <1>1, <2>1, <2>3
  <2>5. ASSUME NEW f \in leftover, NEW i \in 1..Len(jobs'), NEW k \in 1..Len(jobs'[i].frames)
        PROVE  jobs'[i].frames[k] # f
    <3>1. CASE i \in 1..Len(jobs)
      BY <2>4, <3>1 DEF LeftoverInv
    <3>2. CASE i = Len(jobs) + 1
      <4>1. jobs'[i].frames = content
        BY <2>2, <2>4, <3>2
      <4>2. f < First(content) /\ First(content) <= content[k] /\ f \in Nat
        BY <1>1, <1>2, <2>1, <4>1 DEF LeftoverInv
      <4>3. First(content) \in Nat /\ content[k] \in Nat
        BY <1>1, <1>2, <2>1, <4>1
      <4> QED BY <4>1, <4>2, <4>3
    <3> QED BY <1>1, <2>4, <3>1, <3>2
  <2> QED BY <2>1, <2>5 DEF LeftoverInv
<1> QED BY <1>3, <1>4, <1>5, <1>6

\* Whatever fails and whatever is reset, a saved segment is a gapless run, no frame
\* is in two places, and nothing that was discarded but stayed on disk is in a
\* segment (recording.go:84-109, 119-159; buffer.go:131-146).
THEOREM SegmentsStayRuns == Spec => []SegmentsAreRuns
<1>1. Spec => [](TypeOK /\ NothingHeldOutsideRecording /\ FramesInv /\ LeftoverInv)
  <2>1. TypeOK /\ NothingHeldOutsideRecording /\ FramesInv /\ LeftoverInv /\ [Next]_vars
            => FramesInv' /\ LeftoverInv'
    BY NextFrames, NextFramesInv, NextLeftover
  <2> QED
    BY <2>1, InitTypeOK, NextTypeOK, InitHeld, NextHeld, InitFrames, InitLeftover, PTL DEF Spec
<1>2. TypeOK /\ FramesInv /\ LeftoverInv => SegmentsAreRuns
  <2> SUFFICES ASSUME TypeOK, FramesInv, LeftoverInv PROVE SegmentsAreRuns
    OBVIOUS
  <2>1. IsRun(content)
    <3>1. content = <<>> => IsRun(content)
      BY DEF IsRun
    <3> QED BY <3>1 DEF FramesInv, Run
  <2>2. content # <<>> /\ ~closed => content[Len(content)] = captured
    BY DEF FramesInv, Last
  <2>3. \A i \in 1..Len(jobs) : jobs[i].frames # <<>> /\ IsRun(jobs[i].frames)
    <3>1. \A i \in 1..Len(jobs) : Len(jobs[i].frames) > 0
      BY DEF FramesInv, Run
    <3> QED BY <3>1 DEF FramesInv, Run
  <2>4. ASSUME NEW i \in 1..Len(jobs), NEW k \in 1..Len(jobs[i].frames)
        PROVE  /\ \A x \in 1..Len(content) : jobs[i].frames[k] < content[x]
               /\ \A j \in i + 1..Len(jobs) : \A x \in 1..Len(jobs[j].frames) :
                        jobs[i].frames[k] < jobs[j].frames[x]
    <3>1. /\ Run(jobs[i].frames) /\ jobs[i].frames[k] <= Last(jobs[i].frames)
          /\ Last(jobs[i].frames) \in Nat /\ jobs[i].frames[k] \in Nat
      <4>1. Run(jobs[i].frames)
        BY DEF FramesInv
      <4> QED BY <4>1, RunFacts DEF Run
    <3>2. ASSUME NEW x \in 1..Len(content) PROVE jobs[i].frames[k] < content[x]
      <4>1. content # <<>> /\ content \in Seq(Nat)
        BY DEF TypeOK
      <4>2. Run(content) /\ Last(jobs[i].frames) < First(content)
        BY <4>1 DEF FramesInv
      <4>3. First(content) <= content[x] /\ First(content) \in Nat /\ content[x] \in Nat
        BY <4>1, <4>2, RunFacts
      <4> QED BY <3>1, <4>2, <4>3
    <3>3. ASSUME NEW j \in i + 1..Len(jobs), NEW x \in 1..Len(jobs[j].frames)
          PROVE  jobs[i].frames[k] < jobs[j].frames[x]
      <4>1. j \in 1..Len(jobs)
        BY DEF TypeOK
      <4>2. Run(jobs[j].frames) /\ Last(jobs[i].frames) < First(jobs[j].frames)
        BY <4>1 DEF FramesInv
      <4>3. /\ First(jobs[j].frames) <= jobs[j].frames[x]
            /\ First(jobs[j].frames) \in Nat /\ jobs[j].frames[x] \in Nat
        BY <4>2, RunFacts DEF Run
      <4> QED BY <3>1, <4>2, <4>3
    <3> QED BY <3>2, <3>3
  <2>5. ASSUME NEW f \in leftover, NEW k \in 1..Len(content) PROVE content[k] # f
    <3>1. content # <<>> /\ content[k] \in Nat /\ f \in Nat
      BY DEF TypeOK
    <3>2. Run(content) /\ f < First(content)
      BY <3>1 DEF FramesInv, LeftoverInv
    <3>3. First(content) <= content[k] /\ First(content) \in Nat
      BY <3>2, RunFacts
    <3> QED BY <3>1, <3>2, <3>3
  <2>6. \A f \in leftover : \A i \in 1..Len(jobs) : \A k \in 1..Len(jobs[i].frames) :
            jobs[i].frames[k] # f
    BY DEF LeftoverInv
  <2> QED BY <2>1, <2>2, <2>3, <2>4, <2>5, <2>6 DEF SegmentsAreRuns
<1> QED BY <1>1, <1>2, PTL

----------------------------------------------------------------------------
\* The live encoding.

\* EndsWith, of an encoder that has received a sequence.
LEMMA EndsWithEmpty ==
  ASSUME NEW s \in Seq(Nat)
  PROVE  EndsWith(s, <<>>)
<1>1. Len(<<>>) = 0 /\ 1..0 = {} /\ Len(s) \in Nat
  OBVIOUS
<1> QED BY <1>1 DEF EndsWith

\* Encoder and buffer receive the same frame.
LEMMA EndsWithGrows ==
  ASSUME NEW s \in Seq(Nat), NEW t \in Seq(Nat), NEW n \in Nat, EndsWith(s, t)
  PROVE  EndsWith(Append(s, n), Append(t, n))
<1>1. /\ Len(s) \in Nat /\ Len(t) \in Nat /\ Len(t) <= Len(s)
      /\ \A k \in 1..Len(t) : s[Len(s) - Len(t) + k] = t[k]
  BY DEF EndsWith
<1> DEFINE u == Append(s, n)
           v == Append(t, n)
<1>2. /\ Len(u) = Len(s) + 1 /\ u[Len(s) + 1] = n
      /\ \A k \in 1..Len(s) : u[k] = s[k]
      /\ Len(v) = Len(t) + 1 /\ v[Len(t) + 1] = n
      /\ \A k \in 1..Len(t) : v[k] = t[k]
  OBVIOUS
<1> HIDE DEF u, v
<1>3. ASSUME NEW k \in 1..Len(v) PROVE u[Len(u) - Len(v) + k] = v[k]
  <2>1. Len(u) - Len(v) + k = Len(s) - Len(t) + k /\ k \in Nat
    BY <1>1, <1>2
  <2>2. CASE k \in 1..Len(t)
    <3>1. Len(s) - Len(t) + k \in 1..Len(s)
      BY <1>1, <2>2
    <3> QED BY <1>1, <1>2, <2>1, <2>2, <3>1
  <2>3. CASE k = Len(t) + 1
    <3>1. Len(s) - Len(t) + k = Len(s) + 1
      BY <1>1, <2>3
    <3> QED BY <1>2, <2>1, <2>3, <3>1
  <2> QED BY <1>1, <1>2, <2>2, <2>3
<1>4. Len(v) <= Len(u)
  BY <1>1, <1>2
<1> QED BY <1>3, <1>4 DEF EndsWith, u, v

LEMMA InitCovers == Init => LiveCoversSegment
<1> SUFFICES ASSUME Init PROVE LiveCoversSegment
  OBVIOUS
<1>1. live = NoLive /\ Len(jobs) = 0 /\ 1..0 = {}
  BY EmptyIsSeq DEF Init
<1> QED BY <1>1 DEF LiveCoversSegment

LEMMA NextCovers ==
  ASSUME TypeOK, TypeOK', LiveCoversSegment, Grows \/ Empties \/ HandsOver \/ Rests
  PROVE  LiveCoversSegment'
<1>1. /\ content \in Seq(Nat) /\ captured + 1 \in Nat /\ Len(jobs) \in Nat
      /\ jobs \in Seq([frames : Seq(Nat), live : {NoLive} \cup Seq(Nat)])
      /\ live \in {NoLive} \cup Seq(Nat) /\ live' \in {NoLive} \cup Seq(Nat)
  BY DEF TypeOK
<1>2. live # NoLive => EndsWith(live, content)
  BY DEF LiveCoversSegment
<1>3. \A i \in 1..Len(jobs) :
            jobs[i].live # NoLive => EndsWith(jobs[i].live, jobs[i].frames)
  BY DEF LiveCoversSegment
<1>4. content' = <<>> => (live' # NoLive => EndsWith(live', content'))
  BY <1>1, EndsWithEmpty
<1>5. CASE Grows
  <2>1. /\ content' = Append(content, captured + 1) /\ jobs' = jobs
        /\ live' = NoLive \/ (live # NoLive /\ live' = Append(live, captured + 1))
    BY <1>5 DEF Grows
  <2>2. live' # NoLive => EndsWith(live', content')
    BY <1>1, <1>2, <2>1, EndsWithGrows
  <2> QED BY <1>3, <2>1, <2>2 DEF LiveCoversSegment
<1>6. CASE Empties
  BY <1>3, <1>4, <1>6 DEF Empties, LiveCoversSegment
<1>7. CASE Rests
  BY <1>2, <1>3, <1>7 DEF Rests, LiveCoversSegment
<1>8. CASE HandsOver
  <2> DEFINE job == [frames |-> content, live |-> live]
  <2>1. content' = <<>> /\ jobs' = Append(jobs, job)
    BY <1>8 DEF HandsOver
  <2>2. job.frames = content /\ job.live = live
    OBVIOUS
  <2>3. job \in [frames : Seq(Nat), live : {NoLive} \cup Seq(Nat)]
    BY DEF TypeOK
  <2> HIDE DEF job
  <2>4. /\ Len(jobs') = Len(jobs) + 1 /\ jobs'[Len(jobs) + 1] = job
        /\ \A i \in 1..Len(jobs) : jobs'[i] = jobs[i]
    BY <1>1, <2>1, <2>3
  <2>5. ASSUME NEW i \in 1..Len(jobs'), jobs'[i].live # NoLive
        PROVE  EndsWith(jobs'[i].live, jobs'[i].frames)
    <3>1. i \in 1..Len(jobs) \/ i = Len(jobs) + 1
      BY <1>1, <2>4
    <3> QED BY <1>2, <1>3, <2>2, <2>4, <2>5, <3>1
  <2> QED BY <1>4, <2>1, <2>5 DEF LiveCoversSegment
<1> QED BY <1>5, <1>6, <1>7, <1>8

\* Wherever the encoder is dropped, restarted or kept, an encoding that is handed
\* over has received every frame of its segment (recording.go:93-107, 128-132).
THEOREM LiveStaysComplete == Spec => []LiveCoversSegment
<1>1. TypeOK /\ NothingHeldOutsideRecording /\ LiveCoversSegment /\ [Next]_vars
        => LiveCoversSegment'
  BY NextTypeOK, NextFrames, NextCovers
<1> QED
  BY <1>1, InitTypeOK, NextTypeOK, InitHeld, NextHeld, InitCovers, PTL DEF Spec
=============================================================================

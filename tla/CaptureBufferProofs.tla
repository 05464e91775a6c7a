------------------------ MODULE CaptureBufferProofs ------------------------
(***************************************************************************)
(* Theorems about CaptureBuffer, for every set of durations, every gap and *)
(* any number of frames.  All but the types need that a truncation does    *)
(* not fail.                                                               *)
(***************************************************************************)
EXTENDS CaptureBuffer, TLAPS

USE MemoryDurationAssumption, FaultAssumption, BufferBoundAssumption

----------------------------------------------------------------------------
\* What the operations on sequences return.

LEMMA ConcatFacts ==
  ASSUME NEW S, NEW s \in Seq(S), NEW t \in Seq(S)
  PROVE  /\ s \o t \in Seq(S)
         /\ Len(s \o t) = Len(s) + Len(t)
         /\ \A k \in 1..Len(s) : (s \o t)[k] = s[k]
         /\ \A k \in 1..Len(t) : (s \o t)[Len(s) + k] = t[k]
  OBVIOUS

LEMMA EmptySeq == \A S : <<>> \in Seq(S) /\ Len(<<>>) = 0
  OBVIOUS

LEMMA EmptyOrNot ==
  ASSUME NEW S, NEW s \in Seq(S)
  PROVE  s = <<>> <=> Len(s) = 0
  OBVIOUS

\* Cutting at the length of the first part removes the second.
LEMMA CutBack ==
  ASSUME NEW S, NEW s \in Seq(S), NEW t \in Seq(S)
  PROVE  SubSeq(s \o t, 1, Len(s)) = s
  OBVIOUS

LEMMA PrefixType ==
  ASSUME NEW S, NEW s \in Seq(S), NEW n \in Nat, n <= Len(s)
  PROVE  SubSeq(s, 1, n) \in Seq(S) /\ Len(SubSeq(s, 1, n)) = n
  OBVIOUS

LEMMA WholePrefix ==
  ASSUME NEW S, NEW s \in Seq(S)
  PROVE  SubSeq(s, 1, Len(s)) = s
  OBVIOUS

LEMMA ConcatEmpty ==
  ASSUME NEW S, NEW s \in Seq(S)
  PROVE  s \o <<>> = s /\ <<>> \o s = s
  OBVIOUS

LEMMA ConcatAppend ==
  ASSUME NEW S, NEW s \in Seq(S), NEW t \in Seq(S), NEW x \in S
  PROVE  s \o Append(t, x) = Append(s \o t, x)
  OBVIOUS

\* What a failed write can leave: a part of the batch and of a frame, cut off or not.
LEMMA FailedWrite ==
  ASSUME disk \in Seq(Nat), diskBytes \in Nat, diskBytes <= Len(disk),
         NEW batch \in Seq(Nat), NEW d \in afterFailedWrite(batch)
  PROVE  \E rest \in Seq(Nat) :
            \/ d = SubSeq(disk \o rest, 1, diskBytes)
            \/ "truncate" \in Fault /\ d = disk \o rest
<1> DEFINE whole == {SubSeq(batch, 1, k) : k \in 0..Len(batch) - 1}
           written == whole \cup {Append(w, Torn) : w \in whole}
<1>1. ASSUME NEW w \in whole PROVE w \in Seq(Nat)
  <2>1. PICK k \in 0..Len(batch) - 1 : w = SubSeq(batch, 1, k)
    OBVIOUS
  <2>2. k \in Nat /\ k <= Len(batch)
    OBVIOUS
  <2> QED BY <2>1, <2>2, PrefixType
<1>2. ASSUME NEW w \in whole PROVE Append(w, Torn) \in Seq(Nat)
  BY <1>1 DEF Torn
<1>3. written \subseteq Seq(Nat)
  BY <1>1, <1>2, Zenon
<1>4. d \in {SubSeq(disk \o w, 1, diskBytes) : w \in written}
            \cup {disk \o w : w \in IF "truncate" \in Fault THEN written ELSE {}}
  BY DEF afterFailedWrite
<1> HIDE DEF written
<1> QED BY <1>3, <1>4

LEMMA FailedWriteType ==
  ASSUME disk \in Seq(Nat), diskBytes \in Nat, diskBytes <= Len(disk),
         NEW batch \in Seq(Nat), NEW d \in afterFailedWrite(batch)
  PROVE  d \in Seq(Nat) /\ diskBytes <= Len(d)
<1>1. PICK rest \in Seq(Nat) : d = SubSeq(disk \o rest, 1, diskBytes) \/ d = disk \o rest
  BY FailedWrite
<1>2. disk \o rest \in Seq(Nat) /\ Len(disk \o rest) = Len(disk) + Len(rest)
  BY ConcatFacts
<1>3. SubSeq(disk \o rest, 1, diskBytes) \in Seq(Nat)
      /\ Len(SubSeq(disk \o rest, 1, diskBytes)) = diskBytes
  BY <1>2, PrefixType
<1>4. CASE d = SubSeq(disk \o rest, 1, diskBytes)
  BY <1>3, <1>4
<1>5. CASE d = disk \o rest
  <2>1. d \in Seq(Nat) /\ Len(d) = Len(disk) + Len(rest) /\ Len(rest) \in Nat /\ Len(disk) \in Nat
    BY <1>2, <1>5
  <2> QED BY <2>1
<1> QED BY <1>1, <1>4, <1>5

\* A failed write that is cut back leaves the file as it was.
LEMMA FailedWriteLeavesNothing ==
  ASSUME "truncate" \notin Fault, disk \in Seq(Nat), diskBytes = Len(disk),
         NEW batch \in Seq(Nat), NEW d \in afterFailedWrite(batch)
  PROVE  d = disk
<1>1. diskBytes \in Nat /\ diskBytes <= Len(disk)
  OBVIOUS
<1>2. PICK rest \in Seq(Nat) : d = SubSeq(disk \o rest, 1, diskBytes)
  BY <1>1, FailedWrite
<1> QED BY <1>2, CutBack
----------------------------------------------------------------------------
\* Types.

TypeInv == TypeOK /\ diskBytes <= Len(disk)

LEMMA InitType == Init => TypeInv
<1> SUFFICES ASSUME Init PROVE TypeInv
  OBVIOUS
<1>1. disk \in Seq(Nat) /\ pending \in Seq(Nat) /\ Len(disk) = 0
  BY EmptySeq DEF Init
<1>2. segments \in Seq([disk : Seq(Nat), frames : Nat])
  BY EmptySeq DEF Init
<1>3. diskBytes <= Len(disk)
  BY <1>1 DEF Init
<1>4. /\ memoryDuration \in MemoryDuration /\ file = "none" /\ diskBytes = 0
      /\ pendingAt = 0 /\ newest = 0 /\ frames = 0 /\ closed = FALSE
      /\ appended = 0 /\ leftover = {} /\ outcome = "ok"
  BY DEF Init
<1> HIDE DEF Init
<1> QED BY <1>1, <1>2, <1>3, <1>4 DEF TypeInv, TypeOK

LEMMA FlushOkType ==
  ASSUME TypeInv, NEW batch \in Seq(Nat), flushOk(batch)
  PROVE  /\ file' \in {"none", "open", "shut"} /\ disk' \in Seq(Nat) /\ diskBytes' \in Nat
         /\ pending' \in Seq(Nat) /\ diskBytes' <= Len(disk')
  BY ConcatFacts DEF TypeInv, TypeOK, flushOk

LEMMA FlushFailsType ==
  ASSUME TypeInv, NEW batch \in Seq(Nat), flushFails(batch)
  PROVE  /\ file' \in {"none", "open", "shut"} /\ disk' \in Seq(Nat) /\ diskBytes' \in Nat
         /\ pending' \in Seq(Nat) /\ diskBytes' <= Len(disk')
<1>1. disk \in Seq(Nat) /\ diskBytes \in Nat /\ diskBytes <= Len(disk)
      /\ file \in {"none", "open", "shut"}
  BY DEF TypeInv, TypeOK
<1>2. diskBytes' = diskBytes /\ pending' = batch /\ file' \in {"open", file}
  BY DEF flushFails
<1>3. disk' = disk \/ disk' \in afterFailedWrite(batch)
  BY DEF flushFails
<1>4. disk' \in Seq(Nat) /\ diskBytes <= Len(disk')
  BY <1>1, <1>3, FailedWriteType
<1> QED BY <1>1, <1>2, <1>4

LEMMA SegmentType ==
  ASSUME TypeInv, segments' = Append(segments, [disk |-> disk \o pending, frames |-> frames])
  PROVE  segments' \in Seq([disk : Seq(Nat), frames : Nat])
<1>1. disk \o pending \in Seq(Nat)
  BY ConcatFacts DEF TypeInv, TypeOK
<1> DEFINE s == [disk |-> disk \o pending, frames |-> frames]
<1>2. s \in [disk : Seq(Nat), frames : Nat]
  BY <1>1 DEF TypeInv, TypeOK
<1> HIDE DEF s
<1>3. segments' = Append(segments, s)
  BY DEF s
<1> QED BY <1>2, <1>3 DEF TypeInv, TypeOK

\* What the spool file holds are frames, or a part of one.
LEMMA OnDiskType == TypeInv => onDisk \subseteq Nat
<1> SUFFICES ASSUME TypeInv, NEW k \in DOMAIN disk PROVE disk[k] \in Nat
  BY DEF onDisk
<1> QED BY DEF TypeInv, TypeOK

LEMMA NextType == TypeInv /\ [Next]_vars => TypeInv'
<1> SUFFICES ASSUME TypeInv, [Next]_vars PROVE TypeInv'
  OBVIOUS
<1>1. ASSUME NEW gap \in 0..MaxGap, Append_(gap) PROVE TypeInv'
  <2> DEFINE batch == Append(pending, appended + 1)
             first == IF pending = <<>> THEN newest + gap ELSE pendingAt
  <2>1. batch \in Seq(Nat) /\ first \in Nat /\ gap \in Nat
    BY DEF TypeInv, TypeOK
  <2>2. \/ flushOk(batch) /\ pendingAt' = 0 /\ outcome' = "ok"
        \/ flushFails(batch) /\ pendingAt' = first /\ outcome' = "error"
        \/ pending' = batch /\ pendingAt' = first /\ outcome' = "ok"
           /\ UNCHANGED <<file, disk, diskBytes>>
    BY <1>1 DEF Append_
  <2>3. /\ appended' = appended + 1 /\ frames' = frames + 1 /\ newest' = newest + gap
        /\ ~closed /\ UNCHANGED <<memoryDuration, closed, leftover, segments>>
    BY <1>1 DEF Append_
  <2> HIDE DEF batch, first
  <2>4. /\ file' \in {"none", "open", "shut"} /\ disk' \in Seq(Nat) /\ diskBytes' \in Nat
        /\ pending' \in Seq(Nat) /\ diskBytes' <= Len(disk')
    BY <2>1, <2>2, FlushOkType, FlushFailsType DEF TypeInv, TypeOK
  <2>5. pendingAt' \in Nat /\ outcome' \in {"ok", "error"}
    BY <2>1, <2>2
  <2> QED BY <2>1, <2>3, <2>4, <2>5 DEF TypeInv, TypeOK
<1>2. ASSUME NEW d \in MemoryDuration, SetMemoryDuration(d) PROVE TypeInv'
  <2>1. \/ flushOk(pending) /\ pendingAt' = 0 /\ outcome' = "ok"
        \/ flushFails(pending) /\ pendingAt' = pendingAt /\ outcome' = "error"
        \/ UNCHANGED <<file, disk, diskBytes, pending, pendingAt>> /\ outcome' = "ok"
    BY <1>2 DEF SetMemoryDuration
  <2>2. memoryDuration' = d /\ UNCHANGED <<newest, frames, closed, appended, leftover, segments>>
    BY <1>2 DEF SetMemoryDuration
  <2>3. /\ file' \in {"none", "open", "shut"} /\ disk' \in Seq(Nat) /\ diskBytes' \in Nat
        /\ pending' \in Seq(Nat) /\ diskBytes' <= Len(disk')
    BY <2>1, FlushOkType, FlushFailsType DEF TypeInv, TypeOK
  <2> QED BY <2>1, <2>2, <2>3 DEF TypeInv, TypeOK
<1>3. CASE DetachOk
  <2>1. segments' \in Seq([disk : Seq(Nat), frames : Nat])
    BY <1>3, SegmentType DEF DetachOk
  <2> QED BY <1>3, <2>1 DEF DetachOk, resetLocked, TypeInv, TypeOK
<1>4. CASE DetachFailsToFlush
  <2>1. pending \in Seq(Nat)
    BY DEF TypeInv, TypeOK
  <2>2. flushFails(pending)
    BY <1>4 DEF DetachFailsToFlush
  <2> QED BY <1>4, <2>1, <2>2, FlushFailsType DEF DetachFailsToFlush, TypeInv, TypeOK
<1>5. CASE DetachFailsToClose
  <2>1. disk \in Seq(Nat) /\ pending \in Seq(Nat) /\ diskBytes \in Nat /\ diskBytes <= Len(disk)
    BY DEF TypeInv, TypeOK
  <2> DEFINE all == disk \o pending
  <2>2. /\ \/ disk' = disk /\ diskBytes' = diskBytes
           \/ disk' = all /\ diskBytes' = diskBytes + Len(pending)
        /\ pending' \in {pending, <<>>} /\ pendingAt' \in {pendingAt, 0}
    BY <1>5 DEF DetachFailsToClose
  <2>3. all \in Seq(Nat) /\ Len(all) = Len(disk) + Len(pending)
        /\ Len(pending) \in Nat /\ Len(disk) \in Nat
    BY <2>1, ConcatFacts
  <2> HIDE DEF all
  <2>4. disk' \in Seq(Nat) /\ diskBytes' \in Nat /\ diskBytes' <= Len(disk')
    BY <2>1, <2>2, <2>3
  <2>5. pendingAt \in Nat /\ <<>> \in Seq(Nat)
    BY EmptySeq DEF TypeInv, TypeOK
  <2>6. pending' \in Seq(Nat)
    BY <2>1, <2>2, <2>5, Zenon
  <2>7. pendingAt' \in Nat
    BY <2>2, <2>5
  <2> QED BY <1>5, <2>4, <2>6, <2>7 DEF DetachFailsToClose, TypeInv, TypeOK
<1>6. CASE Clear \/ Close
  <2>1. resetLocked /\ outcome' \in {"ok", "error"} /\ closed' \in BOOLEAN
        /\ UNCHANGED <<memoryDuration, appended, segments>>
    BY <1>6 DEF Clear, Close, TypeInv, TypeOK
  <2>2. leftover' \subseteq Nat
    <3>1. onDisk \subseteq Nat /\ leftover \subseteq Nat
      BY OnDiskType DEF TypeInv, TypeOK
    <3>2. leftover' \subseteq leftover \cup onDisk
      BY <1>6 DEF Clear, Close
    <3> QED BY <3>1, <3>2, Zenon
  <2>3. /\ file' \in {"none", "open", "shut"} /\ disk' \in Seq(Nat) /\ pending' \in Seq(Nat)
        /\ diskBytes' = 0 /\ Len(disk') = 0
        /\ pendingAt' = 0 /\ newest' = 0 /\ frames' = 0
    BY <2>1, EmptySeq DEF resetLocked
  <2> QED BY <2>1, <2>2, <2>3 DEF TypeInv, TypeOK
<1>7. CASE DetachNothing \/ Refused \/ UNCHANGED vars
  <2>1. UNCHANGED <<memoryDuration, file, disk, diskBytes, pending, pendingAt, newest,
                    frames, closed, appended, leftover, segments>>
        /\ outcome' \in {outcome, "error"}
    BY <1>7 DEF DetachNothing, Refused, vars
  <2>2. leftover' \subseteq Nat
    BY <2>1 DEF TypeInv, TypeOK
  <2> QED BY <2>1, <2>2 DEF TypeInv, TypeOK
<1> QED BY <1>1, <1>2, <1>3, <1>4, <1>5, <1>6, <1>7 DEF Next

\* The buffer's state keeps its types whatever fails, and a closed buffer stays
\* empty (buffer.go:33-47, 63-65, 161-178).
THEOREM TypeCorrect == Spec => []TypeOK
<1>1. Spec => []TypeInv
  BY InitType, NextType, PTL DEF Spec
<1>2. TypeInv => TypeOK
  BY DEF TypeInv
<1> QED BY <1>1, <1>2, PTL
----------------------------------------------------------------------------
\* The books.

\* The file holds what the buffer believes, and exists only with a frame.
BooksInv ==
    /\ TypeInv
    /\ diskBytes = Len(disk)
    /\ frames = Len(disk) + Len(pending)
    /\ file = "none" => Len(disk) = 0
    /\ file # "none" => frames # 0
    /\ Len(pending) # 0 => pendingAt <= newest
    /\ Len(pending) # 0 /\ outcome = "ok" => newest - pendingAt < memoryDuration

\* What the buffer holds, wherever it is.
Held == disk \o pending

MayCreate == file' = file \/ (file = "none" /\ file' = "open")

\* The effect of a call on what the buffer holds and has handed over.
Accepts ==
    /\ Held' = Append(Held, appended + 1) /\ appended < MaxFrames
    /\ appended' = appended + 1 /\ frames' = frames + 1
    /\ ~closed /\ UNCHANGED <<segments, leftover, closed>> /\ MayCreate

Keeps ==
    /\ Held' = Held
    /\ frames = 0 => file' = file
    /\ MayCreate \/ file' = "shut"
    /\ UNCHANGED <<appended, frames, segments, leftover, closed>>

HandsOver ==
    /\ frames # 0 /\ Held' = <<>> /\ frames' = 0
    /\ segments' = Append(segments, [disk |-> Held, frames |-> frames])
    /\ file # "shut" /\ file' = "none"
    /\ ~closed /\ UNCHANGED <<appended, leftover, closed>>

\* A file that is given up may stay, if there was one; Close may remove those of
\* earlier calls too.
ThrowsAway ==
    /\ Held' = <<>> /\ frames' = 0 /\ file' = "none" /\ UNCHANGED <<appended, segments>>
    /\ ~closed
    /\ \/ file # "shut" /\ UNCHANGED <<leftover, closed>>
       \/ file # "none" /\ leftover' \in {leftover, leftover \cup onDisk} /\ UNCHANGED closed
       \/ leftover' \subseteq leftover \cup onDisk /\ closed'

LEMMA BooksTypes ==
  ASSUME BooksInv
  PROVE  /\ disk \in Seq(Nat) /\ pending \in Seq(Nat) /\ frames \in Nat /\ appended \in Nat
         /\ Len(disk) \in Nat /\ Len(pending) \in Nat /\ diskBytes = Len(disk)
         /\ frames = Len(disk) + Len(pending)
         /\ newest \in Nat /\ pendingAt \in Nat /\ memoryDuration \in Nat
         /\ file \in {"none", "open", "shut"}
         /\ Held \in Seq(Nat) /\ Len(Held) = frames
<1>1. disk \in Seq(Nat) /\ pending \in Seq(Nat) /\ frames \in Nat /\ appended \in Nat
      /\ newest \in Nat /\ pendingAt \in Nat /\ memoryDuration \in Nat
      /\ file \in {"none", "open", "shut"}
  BY DEF BooksInv, TypeInv, TypeOK
<1>2. Len(disk) \in Nat /\ Len(pending) \in Nat
  BY <1>1
<1>3. Held \in Seq(Nat) /\ Len(Held) = Len(disk) + Len(pending)
  BY <1>1, ConcatFacts DEF Held
<1>4. diskBytes = Len(disk) /\ frames = Len(disk) + Len(pending)
  BY DEF BooksInv
<1> QED BY <1>1, <1>2, <1>3, <1>4

\* A flush that succeeds moves the batch into the file, one that fails leaves it in
\* memory; nothing is held twice and nothing is lost (buffer.go:180-225).
LEMMA FlushBalances ==
  ASSUME "truncate" \notin Fault, BooksInv, NEW batch \in Seq(Nat),
         flushOk(batch) \/ flushFails(batch)
  PROVE  /\ disk' \in Seq(Nat) /\ pending' \in Seq(Nat)
         /\ Held' = disk \o batch
         /\ diskBytes' = Len(disk')
         /\ Len(disk') + Len(pending') = Len(disk) + Len(batch)
         /\ Len(batch) # 0 /\ MayCreate
         /\ file' = "none" => Len(disk') = 0
         /\ flushOk(batch) => Len(pending') = 0
<1>1. disk \in Seq(Nat) /\ diskBytes = Len(disk) /\ (file = "none" => Len(disk) = 0)
      /\ file \in {"none", "open", "shut"} /\ Len(disk) \in Nat /\ Len(batch) \in Nat
  BY BooksTypes DEF BooksInv
<1>2. batch # <<>> => Len(batch) # 0
  BY EmptyOrNot
<1> DEFINE all == disk \o batch
<1>3. all \in Seq(Nat) /\ Len(all) = Len(disk) + Len(batch)
  BY <1>1, ConcatFacts
<1>4. CASE flushOk(batch)
  <2>1. /\ batch # <<>> /\ file # "shut" /\ file' = "open" /\ disk' = all
        /\ diskBytes' = diskBytes + Len(batch) /\ pending' = <<>>
    BY <1>4 DEF flushOk
  <2>2. all \o <<>> = all
    BY <1>3, ConcatEmpty
  <2> HIDE DEF all
  <2>3. Held' = all
    BY <2>1, <2>2 DEF Held
  <2>4. Len(pending') = 0 /\ pending' \in Seq(Nat)
    BY <2>1, EmptySeq
  <2>5. MayCreate
    BY <1>1, <2>1 DEF MayCreate
  <2> QED BY <1>1, <1>2, <1>3, <2>1, <2>3, <2>4, <2>5 DEF all
<1>5. CASE flushFails(batch) /\ ~flushOk(batch)
  <2>1. /\ batch # <<>> /\ pending' = batch /\ diskBytes' = diskBytes
        /\ MayCreate
        /\ disk' = disk \/ disk' \in afterFailedWrite(batch)
    BY <1>1, <1>5 DEF flushFails, MayCreate
  <2>2. disk' = disk
    BY <1>1, <2>1, FailedWriteLeavesNothing
  <2>3. Held' = all
    BY <2>1, <2>2 DEF Held
  <2>4. file' = "none" => Len(disk') = 0
    BY <1>1, <2>1, <2>2 DEF MayCreate
  <2> QED BY <1>1, <1>2, <1>5, <2>1, <2>2, <2>3, <2>4
<1> QED BY <1>4, <1>5

LEMMA InitBooks == Init => BooksInv
<1> SUFFICES ASSUME Init PROVE BooksInv
  OBVIOUS
<1>1. Len(disk) = 0 /\ Len(pending) = 0
  BY EmptySeq DEF Init
<1>2. diskBytes = 0 /\ frames = 0 /\ file = "none"
  BY DEF Init
<1> QED BY <1>1, <1>2, InitType DEF BooksInv

LEMMA AppendBooks ==
  ASSUME "truncate" \notin Fault, BooksInv, TypeInv', NEW gap \in 0..MaxGap, Append_(gap)
  PROVE  BooksInv' /\ Accepts
<1> DEFINE batch == Append(pending, appended + 1)
           first == IF pending = <<>> THEN newest + gap ELSE pendingAt
<1>1. /\ disk \in Seq(Nat) /\ pending \in Seq(Nat) /\ appended \in Nat /\ frames \in Nat
      /\ Len(disk) \in Nat /\ Len(pending) \in Nat /\ frames = Len(disk) + Len(pending)
      /\ newest \in Nat /\ pendingAt \in Nat /\ diskBytes = Len(disk) /\ gap \in Nat
      /\ memoryDuration \in Nat
  BY BooksTypes
<1>2. batch \in Seq(Nat) /\ Len(batch) = Len(pending) + 1 /\ first \in Nat
  BY <1>1
<1>3. first <= newest + gap
  BY <1>1, EmptyOrNot DEF BooksInv
<1>4. disk \o batch = Append(Held, appended + 1)
  BY <1>1, ConcatAppend DEF Held
<1>5. \/ flushOk(batch) /\ outcome' = "ok"
      \/ flushFails(batch) /\ pendingAt' = first /\ outcome' = "error"
      \/ /\ (newest + gap) - first < memoryDuration
         /\ pending' = batch /\ pendingAt' = first /\ outcome' = "ok"
         /\ file' = file /\ disk' = disk /\ diskBytes' = diskBytes
  <2>1. ~batchIsDue((newest + gap) - first, memoryDuration)
            => (newest + gap) - first < memoryDuration
    BY <1>1, <1>2, <1>3 DEF batchIsDue
  <2> QED BY <2>1 DEF Append_
<1>6. /\ appended < MaxFrames /\ appended' = appended + 1 /\ frames' = frames + 1
      /\ newest' = newest + gap /\ memoryDuration' = memoryDuration /\ segments' = segments
      /\ ~closed /\ leftover' = leftover /\ closed' = closed
  BY DEF Append_
<1> HIDE DEF batch, first
<1>7. CASE \/ flushOk(batch) /\ outcome' = "ok"
           \/ flushFails(batch) /\ pendingAt' = first /\ outcome' = "error"
  <2>1. /\ Held' = disk \o batch /\ diskBytes' = Len(disk') /\ MayCreate
        /\ Len(disk') + Len(pending') = Len(disk) + Len(batch)
        /\ file' = "none" => Len(disk') = 0
        /\ flushOk(batch) => Len(pending') = 0
    BY <1>2, <1>7, FlushBalances
  <2>2. frames' = Len(disk') + Len(pending') /\ frames' # 0
    BY <1>1, <1>2, <1>6, <2>1
  <2>3. Len(pending') # 0 => pendingAt' = first /\ outcome' = "error"
    BY <1>7, <2>1, Zenon
  <2>4. Accepts
    BY <1>4, <1>6, <2>1, Zenon DEF Accepts
  <2>5. Len(pending') # 0 => pendingAt' <= newest'
    BY <1>3, <1>6, <2>3
  <2>6. Len(pending') # 0 /\ outcome' = "ok" => newest' - pendingAt' < memoryDuration'
    BY <2>3
  <2> QED BY <2>1, <2>2, <2>4, <2>5, <2>6 DEF BooksInv
<1>8. CASE /\ (newest + gap) - first < memoryDuration
           /\ pending' = batch /\ pendingAt' = first /\ outcome' = "ok"
           /\ file' = file /\ disk' = disk /\ diskBytes' = diskBytes
  <2>1. Len(disk') \in Nat /\ Len(pending') = Len(pending) + 1
    BY <1>1, <1>2, <1>8
  <2>2. Held' = disk \o batch /\ MayCreate
    BY <1>8 DEF Held, MayCreate
  <2>3. Accepts
    BY <1>4, <1>6, <2>2, Zenon DEF Accepts
  <2>4. frames' = Len(disk') + Len(pending') /\ frames' # 0
    BY <1>1, <1>6, <1>8, <2>1
  <2>5. pendingAt' <= newest' /\ newest' - pendingAt' < memoryDuration'
    BY <1>1, <1>2, <1>3, <1>6, <1>8
  <2> QED BY <1>1, <1>8, <2>1, <2>3, <2>4, <2>5 DEF BooksInv
<1> QED BY <1>5, <1>7, <1>8

LEMMA DurationBooks ==
  ASSUME "truncate" \notin Fault, BooksInv, TypeInv',
         NEW d \in MemoryDuration, SetMemoryDuration(d)
  PROVE  BooksInv' /\ Keeps
<1>1. /\ disk \in Seq(Nat) /\ pending \in Seq(Nat) /\ frames \in Nat
      /\ Len(disk) \in Nat /\ Len(pending) \in Nat /\ frames = Len(disk) + Len(pending)
      /\ newest \in Nat /\ pendingAt \in Nat /\ diskBytes = Len(disk) /\ d \in Nat
  BY BooksTypes
<1>2. /\ memoryDuration' = d /\ newest' = newest /\ frames' = frames
      /\ appended' = appended /\ segments' = segments
      /\ leftover' = leftover /\ closed' = closed
  BY DEF SetMemoryDuration
<1>3. \/ flushOk(pending) /\ outcome' = "ok"
      \/ flushFails(pending) /\ pendingAt' = pendingAt /\ outcome' = "error"
      \/ /\ pending = <<>> \/ newest - pendingAt < d
         /\ pending' = pending /\ pendingAt' = pendingAt /\ outcome' = "ok"
         /\ file' = file /\ disk' = disk /\ diskBytes' = diskBytes
  <2>1. ~batchIsDue(newest - pendingAt, d) => newest - pendingAt < d
    BY <1>1 DEF batchIsDue
  <2> QED BY <2>1 DEF SetMemoryDuration
<1>4. CASE \/ flushOk(pending) /\ outcome' = "ok"
           \/ flushFails(pending) /\ pendingAt' = pendingAt /\ outcome' = "error"
  <2>1. /\ Held' = disk \o pending /\ diskBytes' = Len(disk') /\ MayCreate
        /\ Len(disk') + Len(pending') = Len(disk) + Len(pending)
        /\ Len(pending) # 0
        /\ file' = "none" => Len(disk') = 0
        /\ flushOk(pending) => Len(pending') = 0
    BY <1>1, <1>4, FlushBalances
  <2>2. frames' = Len(disk') + Len(pending') /\ frames' # 0 /\ frames # 0
    BY <1>1, <1>2, <2>1
  <2>3. Len(pending') # 0 => pendingAt' = pendingAt /\ outcome' = "error"
    BY <1>4, <2>1, Zenon
  <2>4. Held' = Held
    BY <2>1 DEF Held
  <2>5. Keeps
    BY <1>2, <2>1, <2>2, <2>4 DEF Keeps
  <2>6. Len(pending') # 0 => pendingAt' <= newest'
    BY <1>2, <2>1, <2>3 DEF BooksInv
  <2>7. Len(pending') # 0 /\ outcome' = "ok" => newest' - pendingAt' < memoryDuration'
    BY <2>3
  <2> QED BY <2>1, <2>2, <2>5, <2>6, <2>7 DEF BooksInv
<1>5. CASE /\ pending = <<>> \/ newest - pendingAt < d
           /\ pending' = pending /\ pendingAt' = pendingAt /\ outcome' = "ok"
           /\ file' = file /\ disk' = disk /\ diskBytes' = diskBytes
  <2>1. Len(disk') = Len(disk) /\ Len(pending') = Len(pending)
    BY <1>5
  <2>2. Held' = Held /\ MayCreate
    BY <1>5 DEF Held, MayCreate
  <2>3. Len(pending) # 0 => newest - pendingAt < d
    BY <1>1, <1>5, EmptyOrNot
  <2> QED BY <1>1, <1>2, <1>5, <2>1, <2>2, <2>3 DEF Keeps, BooksInv
<1> QED BY <1>3, <1>4, <1>5

LEMMA DetachBooks ==
  ASSUME "truncate" \notin Fault, BooksInv, TypeInv',
         DetachOk \/ DetachFailsToFlush \/ DetachFailsToClose \/ DetachNothing
  PROVE  BooksInv' /\ (Keeps \/ HandsOver)
<1>1. /\ disk \in Seq(Nat) /\ pending \in Seq(Nat) /\ frames \in Nat
      /\ Len(disk) \in Nat /\ Len(pending) \in Nat /\ frames = Len(disk) + Len(pending)
      /\ newest \in Nat /\ pendingAt \in Nat /\ diskBytes = Len(disk)
      /\ file \in {"none", "open", "shut"}
  BY BooksTypes
<1>2. CASE DetachOk
  <2>1. /\ frames # 0 /\ file # "shut" /\ appended' = appended
        /\ ~closed /\ leftover' = leftover /\ closed' = closed
        /\ segments' = Append(segments, [disk |-> Held, frames |-> frames])
        /\ file' = "none" /\ frames' = 0 /\ disk' = <<>> /\ pending' = <<>> /\ diskBytes' = 0
    BY <1>2 DEF DetachOk, resetLocked, Held
  <2>2. Held' = <<>> /\ Len(disk') = 0 /\ Len(pending') = 0
    BY <2>1, EmptySeq, ConcatEmpty DEF Held
  <2>3. HandsOver
    BY <2>1, <2>2, Zenon DEF HandsOver
  <2> QED BY <2>1, <2>2, <2>3 DEF BooksInv
<1>3. CASE DetachFailsToFlush
  <2>1. /\ flushFails(pending) /\ outcome' = "error" /\ frames' = frames
        /\ newest' = newest /\ pendingAt' = pendingAt
        /\ appended' = appended /\ segments' = segments
        /\ leftover' = leftover /\ closed' = closed
    BY <1>3 DEF DetachFailsToFlush
  <2>2. /\ Held' = disk \o pending /\ diskBytes' = Len(disk') /\ MayCreate
        /\ Len(disk') + Len(pending') = Len(disk) + Len(pending)
        /\ Len(pending) # 0
        /\ file' = "none" => Len(disk') = 0
    BY <1>1, <2>1, FlushBalances
  <2>3. pending' = pending
    BY <2>1 DEF flushFails
  <2>4. frames' = Len(disk') + Len(pending') /\ frames' # 0 /\ frames # 0
    BY <1>1, <2>1, <2>2
  <2>5. Keeps
    BY <2>1, <2>2, <2>4 DEF Keeps, Held
  <2>6. pendingAt' <= newest'
    BY <2>1, <2>2 DEF BooksInv
  <2> QED BY <2>1, <2>2, <2>4, <2>5, <2>6 DEF BooksInv
<1>4. CASE DetachFailsToClose
  <2>1. /\ frames # 0 /\ file' = "shut" /\ outcome' = "error" /\ frames' = frames
        /\ newest' = newest /\ appended' = appended /\ segments' = segments
        /\ leftover' = leftover /\ closed' = closed
    BY <1>4 DEF DetachFailsToClose
  <2>2. CASE pending = <<>>
    <3>1. disk' = disk /\ diskBytes' = diskBytes /\ pending' = pending
          /\ pendingAt' = pendingAt
      BY <1>4, <2>2 DEF DetachFailsToClose
    <3>2. Len(pending) = 0 /\ Held' = Held
      BY <2>2, <3>1, EmptySeq DEF Held
    <3>3. Keeps
      BY <2>1, <3>2 DEF Keeps
    <3> QED BY <1>1, <2>1, <3>1, <3>2, <3>3 DEF BooksInv
  <2>3. CASE pending # <<>>
    <3> DEFINE all == disk \o pending
    <3>1. disk' = all /\ diskBytes' = diskBytes + Len(pending) /\ pending' = <<>>
      BY <1>4, <2>3 DEF DetachFailsToClose
    <3>2. all \in Seq(Nat) /\ Len(all) = Len(disk) + Len(pending) /\ all \o <<>> = all
      BY <1>1, ConcatFacts, ConcatEmpty
    <3> HIDE DEF all
    <3>3. Held' = all /\ Len(pending') = 0
      BY <3>1, <3>2, EmptySeq DEF Held
    <3>4. Held' = Held
      BY <3>3 DEF Held, all
    <3>5. Keeps
      BY <2>1, <3>4 DEF Keeps
    <3> QED BY <1>1, <2>1, <3>1, <3>2, <3>3, <3>5 DEF BooksInv
  <2> QED BY <2>2, <2>3
<1>5. CASE DetachNothing
  <2>1. UNCHANGED <<memoryDuration, file, disk, diskBytes, pending, pendingAt, newest,
                    frames, closed, appended, leftover, segments>> /\ outcome' = "error"
    BY <1>5 DEF DetachNothing
  <2> QED BY <2>1 DEF BooksInv, Keeps, MayCreate, Held
<1> QED BY <1>2, <1>3, <1>4, <1>5

LEMMA NextBooks ==
  ASSUME "truncate" \notin Fault, BooksInv, [Next]_vars
  PROVE  BooksInv' /\ (Accepts \/ Keeps \/ HandsOver \/ ThrowsAway)
<1>1. TypeInv'
  BY NextType DEF BooksInv
<1>2. CASE Clear \/ Close
  <2>1. /\ file' = "none" /\ frames' = 0 /\ disk' = <<>> /\ pending' = <<>> /\ diskBytes' = 0
        /\ appended' = appended /\ segments' = segments
    BY <1>2 DEF Clear, Close, resetLocked
  <2>2. Held' = <<>> /\ Len(disk') = 0 /\ Len(pending') = 0
    BY <2>1, EmptySeq, ConcatEmpty DEF Held
  <2>3. /\ ~closed
        /\ \/ file # "shut" /\ leftover' = leftover /\ closed' = closed
           \/ file # "none" /\ leftover' \in {leftover, leftover \cup onDisk} /\ closed' = closed
           \/ leftover' \subseteq leftover \cup onDisk /\ closed'
    <3>1. CASE Clear
      BY <3>1, Zenon DEF Clear, MayCloseWell, MayCloseBadly
    <3>2. CASE Close
      BY <3>2 DEF Close
    <3> QED BY <1>2, <3>1, <3>2
  <2>4. ThrowsAway
    BY <2>1, <2>2, <2>3, Zenon DEF ThrowsAway
  <2> QED BY <1>1, <2>1, <2>2, <2>4 DEF BooksInv
<1>3. CASE Refused \/ UNCHANGED vars
  <2>1. UNCHANGED <<memoryDuration, file, disk, diskBytes, pending, pendingAt, newest,
                    frames, closed, appended, leftover, segments>> /\ outcome' \in {outcome, "error"}
    BY <1>3 DEF Refused, vars
  <2> QED BY <1>1, <2>1 DEF BooksInv, Keeps, MayCreate, Held
<1> QED BY <1>1, <1>2, <1>3, AppendBooks, DurationBooks, DetachBooks DEF Next

\* Unless a truncation fails, the statistics add up to what memory and the file hold,
\* and the batch in memory is bounded (buffer.go:60-96, 148-225).
THEOREM BooksStayBalanced ==
  ASSUME "truncate" \notin Fault PROVE Spec => []BooksBalance
<1>1. BooksInv /\ [Next]_vars => BooksInv'
  BY NextBooks
<1>2. BooksInv => BooksBalance
  <2> SUFFICES ASSUME BooksInv PROVE BooksBalance
    OBVIOUS
  <2>1. /\ pending \in Seq(Nat) /\ Len(disk) \in Nat /\ Len(pending) \in Nat
        /\ frames = Len(disk) + Len(pending) /\ diskBytes = Len(disk)
    BY BooksTypes
  <2>2. pending = <<>> <=> Len(pending) = 0
    BY <2>1, EmptyOrNot
  <2> QED BY <2>1, <2>2 DEF BooksInv, BooksBalance
<1> QED BY <1>1, <1>2, InitBooks, PTL DEF Spec
----------------------------------------------------------------------------
\* The segments.

\* A segment is a run of whole frames.
Whole(s) ==
    /\ s \in [disk : Seq(Nat), frames : Nat]
    /\ s.frames > 0 /\ Len(s.disk) = s.frames
    /\ s.disk[1] > 0 /\ IsRun(s.disk)

LastOf(s) == s.disk[s.frames]

\* Frames are numbered, so what is held are the last ones appended, and what has
\* left is older than that.
SegmentsInv ==
    /\ frames <= appended
    /\ \A k \in 1..frames : Held[k] = (appended - frames) + k
    /\ \A i \in 1..Len(segments) :
        /\ Whole(segments[i]) /\ LastOf(segments[i]) <= appended - frames
        /\ \A j \in 1..i - 1 : LastOf(segments[j]) < segments[i].disk[1]

LEMMA HeldIsWhole ==
  ASSUME BooksInv, SegmentsInv, frames # 0
  PROVE  /\ Whole([disk |-> Held, frames |-> frames])
         /\ Held[1] = (appended - frames) + 1
         /\ LastOf([disk |-> Held, frames |-> frames]) = appended
<1>1. Held \in Seq(Nat) /\ Len(Held) = frames /\ frames \in Nat /\ appended \in Nat
      /\ frames <= appended
  BY BooksTypes DEF SegmentsInv
<1>2. \A k \in 1..frames : Held[k] = (appended - frames) + k
  BY DEF SegmentsInv
<1>3. 1 \in 1..frames /\ frames \in 1..frames
  BY <1>1
<1>4. Held[1] = (appended - frames) + 1 /\ Held[frames] = appended
  BY <1>1, <1>2, <1>3
<1>5. IsRun(Held)
  <2>1. SUFFICES ASSUME NEW k \in 1..Len(Held) PROVE Held[k] = Held[1] + k - 1
    BY DEF IsRun
  <2>2. k \in 1..frames /\ k \in Nat
    BY <1>1
  <2> QED BY <1>1, <1>2, <1>4, <2>2
<1>6. Held[1] > 0 /\ frames > 0
  BY <1>1, <1>4
<1> QED BY <1>1, <1>4, <1>5, <1>6 DEF Whole, LastOf

LEMMA NextSegments ==
  ASSUME BooksInv, SegmentsInv, BooksInv', Accepts \/ Keeps \/ HandsOver \/ ThrowsAway
  PROVE  SegmentsInv'
<1>1. /\ Held \in Seq(Nat) /\ Len(Held) = frames /\ frames \in Nat /\ appended \in Nat
      /\ frames <= appended
      /\ \A k \in 1..frames : Held[k] = (appended - frames) + k
  BY BooksTypes DEF SegmentsInv
<1>2. segments \in Seq([disk : Seq(Nat), frames : Nat]) /\ Len(segments) \in Nat
  BY DEF BooksInv, TypeInv, TypeOK
<1>3. \A i \in 1..Len(segments) :
        /\ Whole(segments[i]) /\ LastOf(segments[i]) <= appended - frames
        /\ \A j \in 1..i - 1 : LastOf(segments[j]) < segments[i].disk[1]
  BY DEF SegmentsInv
<1>4. \A i \in 1..Len(segments) : LastOf(segments[i]) \in Nat
  <2>1. SUFFICES ASSUME NEW i \in 1..Len(segments) PROVE LastOf(segments[i]) \in Nat
    OBVIOUS
  <2>2. Whole(segments[i])
    BY <1>3
  <2> QED BY <2>2 DEF Whole, LastOf
<1>5. CASE Accepts
  <2>1. /\ Held' = Append(Held, appended + 1) /\ appended' = appended + 1
        /\ frames' = frames + 1 /\ segments' = segments
    BY <1>5 DEF Accepts
  <2>2. appended' - frames' = appended - frames /\ frames' <= appended'
    BY <1>1, <2>1
  <2>3. ASSUME NEW k \in 1..frames' PROVE Held'[k] = (appended' - frames') + k
    <3>1. CASE k \in 1..frames
      <4>1. Held'[k] = Held[k]
        BY <1>1, <2>1, <3>1
      <4> QED BY <1>1, <2>2, <3>1, <4>1
    <3>2. CASE k = frames + 1
      <4>1. Held'[k] = appended + 1
        BY <1>1, <2>1, <3>2
      <4> QED BY <1>1, <2>2, <3>2, <4>1
    <3> QED BY <1>1, <2>1, <3>1, <3>2
  <2> QED BY <1>3, <2>1, <2>2, <2>3 DEF SegmentsInv
<1>6. CASE Keeps
  BY <1>6, <1>1, <1>3 DEF Keeps, SegmentsInv
<1>7. CASE ThrowsAway
  <2>1. frames' = 0 /\ appended' = appended /\ segments' = segments
    BY <1>7 DEF ThrowsAway
  <2>2. \A i \in 1..Len(segments) : LastOf(segments[i]) <= appended - 0
    BY <1>1, <1>3, <1>4
  <2> QED BY <1>1, <1>3, <2>1, <2>2 DEF SegmentsInv
<1>8. CASE HandsOver
  <2> DEFINE s == [disk |-> Held, frames |-> frames]
  <2>1. /\ frames # 0 /\ frames' = 0 /\ appended' = appended
        /\ segments' = Append(segments, s)
    BY <1>8 DEF HandsOver
  <2>2. Whole(s) /\ s.disk[1] = (appended - frames) + 1 /\ LastOf(s) = appended
    BY <2>1, HeldIsWhole
  <2>3. s \in [disk : Seq(Nat), frames : Nat]
    BY <2>2 DEF Whole
  <2> HIDE DEF s
  <2>4. /\ Len(segments') = Len(segments) + 1
        /\ segments'[Len(segments) + 1] = s
        /\ \A i \in 1..Len(segments) : segments'[i] = segments[i]
    BY <1>2, <2>1, <2>3
  <2>5. ASSUME NEW i \in 1..Len(segments')
        PROVE  /\ Whole(segments'[i]) /\ LastOf(segments'[i]) <= appended
               /\ \A j \in 1..i - 1 : LastOf(segments'[j]) < segments'[i].disk[1]
    <3>1. CASE i \in 1..Len(segments)
      <4>1. segments'[i] = segments[i] /\ \A j \in 1..i - 1 : segments'[j] = segments[j]
        BY <1>2, <2>4, <3>1
      <4>2. LastOf(segments[i]) <= appended
        BY <1>1, <1>3, <1>4, <3>1
      <4> QED BY <1>3, <3>1, <4>1, <4>2
    <3>2. CASE i = Len(segments) + 1
      <4>1. segments'[i] = s /\ \A j \in 1..i - 1 : segments'[j] = segments[j]
        BY <1>2, <2>4, <3>2
      <4>2. \A j \in 1..i - 1 : LastOf(segments[j]) < s.disk[1]
        <5>1. s.disk[1] = (appended - frames) + 1 /\ i - 1 = Len(segments)
          BY <1>2, <2>2, <3>2
        <5>2. ASSUME NEW j \in 1..i - 1 PROVE LastOf(segments[j]) < s.disk[1]
          <6>1. j \in 1..Len(segments)
            BY <5>1
          <6>2. LastOf(segments[j]) <= appended - frames
            BY <1>3, <6>1
          <6>3. LastOf(segments[j]) \in Nat
            BY <1>4, <6>1
          <6> QED BY <1>1, <5>1, <6>2, <6>3
        <5> QED BY <5>2
      <4> QED BY <1>1, <2>2, <4>1, <4>2
    <3>3. i \in 1..Len(segments) \/ i = Len(segments) + 1
      BY <1>2, <2>4
    <3> QED BY <3>1, <3>2, <3>3, Zenon
  <2>6. 0 <= appended /\ appended - 0 = appended /\ 1..0 = {}
    BY <1>1
  <2> QED BY <2>1, <2>5, <2>6 DEF SegmentsInv
<1> QED BY <1>5, <1>6, <1>7, <1>8

\* Unless a truncation fails, a detached segment holds exactly the promised frames,
\* each once and whole, in order (buffer.go:98-125, 205-225).
THEOREM SegmentsStayIntact ==
  ASSUME "truncate" \notin Fault PROVE Spec => []SegmentsAreIntact
<1>1. Init => SegmentsInv
  <2> SUFFICES ASSUME Init PROVE SegmentsInv
    OBVIOUS
  <2>1. frames = 0 /\ appended = 0 /\ Len(segments) = 0 /\ 1..0 = {}
    BY EmptySeq DEF Init
  <2> QED BY <2>1 DEF SegmentsInv
<1>2. BooksInv /\ SegmentsInv /\ [Next]_vars => BooksInv' /\ SegmentsInv'
  BY NextBooks, NextSegments
<1>3. BooksInv /\ SegmentsInv => SegmentsAreIntact
  <2> SUFFICES ASSUME BooksInv, SegmentsInv, NEW i \in 1..Len(segments)
      PROVE  /\ segments[i].frames > 0 /\ Len(segments[i].disk) = segments[i].frames
             /\ segments[i].disk[1] # Torn /\ IsRun(segments[i].disk)
             /\ \A j \in 1..i - 1 :
                    segments[j].disk[segments[j].frames] < segments[i].disk[1]
    BY Zenon DEF SegmentsAreIntact
  <2>1. Whole(segments[i])
        /\ \A j \in 1..i - 1 : LastOf(segments[j]) < segments[i].disk[1]
    BY DEF SegmentsInv
  <2>2. \A j \in 1..i - 1 :
            segments[j].disk[segments[j].frames] < segments[i].disk[1]
    BY <2>1 DEF LastOf
  <2> QED BY <2>1, <2>2 DEF Whole, Torn
<1> QED BY <1>1, <1>2, <1>3, InitBooks, PTL DEF Spec

----------------------------------------------------------------------------
\* The contract.

\* The spool file holds the first part of what the buffer holds.
LEMMA HeldStartsWithDisk ==
  ASSUME BooksInv
  PROVE  /\ Len(disk) \in 0..Len(Held)
         /\ onDisk = {Held[k] : k \in 1..Len(disk)}
         /\ onDisk \subseteq {Held[k] : k \in 1..Len(Held)}
<1>1. disk \in Seq(Nat) /\ pending \in Seq(Nat) /\ Len(disk) \in Nat /\ Len(pending) \in Nat
  BY BooksTypes
<1>2. Len(Held) = Len(disk) + Len(pending) /\ \A k \in 1..Len(disk) : Held[k] = disk[k]
  BY <1>1, ConcatFacts DEF Held
<1>3. DOMAIN disk = 1..Len(disk)
  BY <1>1
<1>4. onDisk = {Held[k] : k \in 1..Len(disk)}
  BY <1>2, <1>3 DEF onDisk
<1>5. Len(disk) \in 0..Len(Held) /\ 1..Len(disk) \subseteq 1..Len(Held)
  BY <1>1, <1>2
<1>6. {Held[k] : k \in 1..Len(disk)} \subseteq {Held[k] : k \in 1..Len(Held)}
  BY <1>5
<1> QED BY <1>4, <1>5, <1>6

\* Unless a truncation fails, every call is, for those who look at what the buffer
\* holds, one of FrameBuffer's (buffer.go:60-225).
THEOREM ContractIsKept ==
  ASSUME "truncate" \notin Fault PROVE Spec => BufferContract
<1> DEFINE content == SubSeq(disk, 1, diskBytes) \o pending
<1>1. BooksInv => content = Held
  <2> SUFFICES ASSUME BooksInv PROVE content = Held
    OBVIOUS
  <2>1. disk \in Seq(Nat) /\ diskBytes = Len(disk)
    BY BooksTypes
  <2> QED BY <2>1, WholePrefix DEF Held
<1>2. Init => Contract!Init
  <2> SUFFICES ASSUME Init PROVE content = <<>> /\ file = "none"
    BY DEF Contract!Init, Init
  <2>1. content = Held /\ disk = <<>> /\ pending = <<>>
    BY <1>1, InitBooks DEF Init
  <2>2. Held = <<>>
    BY <2>1, EmptySeq, ConcatEmpty DEF Held
  <2> QED BY <2>1, <2>2 DEF Init
<1>3. BooksInv /\ [Next]_vars => [Contract!Next]_(Contract!bufferVars)
  <2> SUFFICES ASSUME BooksInv, [Next]_vars PROVE [Contract!Next]_(Contract!bufferVars)
    OBVIOUS
  <2>1. BooksInv' /\ (Accepts \/ Keeps \/ HandsOver \/ ThrowsAway)
    BY NextBooks
  <2>2. content = Held /\ content' = Held'
    <3>1. disk' \in Seq(Nat) /\ diskBytes' = Len(disk')
      BY <2>1 DEF BooksInv, TypeInv, TypeOK
    <3> QED BY <1>1, <3>1, WholePrefix DEF Held
  <2>3. frames \in Nat /\ appended \in Nat /\ file \in {"none", "open", "shut"}
        /\ (Held = <<>> => frames = 0) /\ (closed => frames = 0)
    BY BooksTypes, EmptySeq DEF BooksInv, TypeInv, TypeOK
  <2> HIDE DEF content
  <2>k. ASSUME ~closed, UNCHANGED closed,
               Contract!DetachOk \/ Contract!DetachFails \/ Contract!ClearOk \/ Contract!ClearFails
        PROVE  Contract!Next
    BY <2>k, Zenon DEF Contract!Next
  <2>4. CASE Accepts
    <3>1. appended + 1 \in 1..MaxFrames
      BY <2>3, <2>4 DEF Accepts
    <3>2. /\ content' = Append(content, appended + 1) /\ MayCreate
          /\ ~closed /\ leftover' = leftover /\ closed' = closed
      BY <2>2, <2>4 DEF Accepts
    <3>3. Contract!AppendOk(appended + 1)
      BY <3>2 DEF Contract!AppendOk, Contract!MayCreateFile, MayCreate, content
    <3>4. Contract!AppendOk(appended + 1) \/ Contract!AppendFails(appended + 1)
      BY <3>3
    <3> QED BY <3>1, <3>2, <3>4, Zenon DEF Contract!Next
  <2>5. CASE Keeps
    <3>1. /\ content' = content
          /\ content = <<>> => file' = file
          /\ MayCreate \/ file' = "shut"
          /\ leftover' = leftover /\ closed' = closed
          /\ closed => file' = file
      BY <2>2, <2>3, <2>5 DEF Keeps
    <3>2. Contract!DetachFails
      BY <3>1 DEF Contract!DetachFails, Contract!MayCreateFile, MayCreate, content
    <3>3. CASE closed
      BY <3>1, <3>3 DEF Contract!bufferVars, content
    <3>4. CASE ~closed
      BY <2>k, <3>1, <3>2, <3>4
    <3> QED BY <3>3, <3>4
  <2>6. CASE HandsOver
    <3>1. /\ content' = <<>> /\ file' = "none" /\ content # <<>> /\ file # "shut"
          /\ ~closed /\ leftover' = leftover /\ closed' = closed
      BY <2>2, <2>3, <2>6, BooksTypes, EmptySeq DEF HandsOver
    <3>2. Contract!DetachOk
      BY <3>1 DEF Contract!DetachOk, Contract!Emptied, content
    <3> QED BY <2>k, <3>1, <3>2
  <2>7. CASE ThrowsAway
    <3>1. Contract!Emptied /\ ~closed
      BY <2>2, <2>7 DEF ThrowsAway, Contract!Emptied, content
    <3>2. /\ Len(disk) \in 0..Len(content)
          /\ onDisk = {content[k] : k \in 1..Len(disk)}
          /\ onDisk \subseteq {content[k] : k \in 1..Len(content)}
      BY <2>2, HeldStartsWithDisk
    <3>3. CASE file # "shut" /\ leftover' = leftover /\ closed' = closed
      <4>1. Contract!ClearOk
        BY <3>1, <3>3 DEF Contract!ClearOk
      <4> QED BY <2>k, <3>1, <3>3, <4>1
    <3>4. CASE file # "none" /\ leftover' \in {leftover, leftover \cup onDisk} /\ closed' = closed
      <4>1. \E n \in 0..Len(content) : leftover' = leftover \cup {content[k] : k \in 1..n}
        <5>1. CASE leftover' = leftover
          <6>1. 0 \in 0..Len(content) /\ 1..0 = {}
            BY <3>2
          <6>2. leftover' = leftover \cup {content[k] : k \in 1..0}
            BY <5>1, <6>1
          <6> QED BY <6>1, <6>2
        <5>2. CASE leftover' = leftover \cup onDisk
          BY <3>2, <5>2
        <5> QED BY <3>4, <5>1, <5>2
      <4>2. Contract!ClearFails
        BY <3>1, <3>4, <4>1 DEF Contract!ClearFails, content
      <4> QED BY <2>k, <3>1, <3>4, <4>2
    <3>5. CASE leftover' \subseteq leftover \cup onDisk /\ closed'
      <4>1. leftover' \subseteq leftover \cup {content[k] : k \in 1..Len(content)}
        BY <3>2, <3>5, Zenon
      <4>2. closed' = TRUE
        BY <2>1, <3>5 DEF BooksInv, TypeInv, TypeOK
      <4>3. Contract!Close
        BY <3>1, <4>1, <4>2 DEF Contract!Close, content
      <4> QED BY <3>1, <4>3, Zenon DEF Contract!Next
    <3> QED BY <2>7, <3>3, <3>4, <3>5 DEF ThrowsAway
  <2> QED BY <2>1, <2>4, <2>5, <2>6, <2>7
<1>4. BooksInv /\ [Next]_vars => BooksInv'
  BY NextBooks
<1> QED BY <1>2, <1>3, <1>4, InitBooks, PTL DEF Spec, BufferContract, Contract!Spec
=============================================================================

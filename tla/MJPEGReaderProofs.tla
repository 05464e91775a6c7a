-------------------------- MODULE MJPEGReaderProofs --------------------------
(***************************************************************************)
(* Theorems about MJPEGReader, for every stream and every limit of a       *)
(* frame's size.                                                           *)
(***************************************************************************)
EXTENDS MJPEGReader, TLAPS

\* Where the k-th frame may begin, where the next one may, and what makes the k-th one
\* the right cut.
From(k) == IF k = 1 THEN 1 ELSE frames[k - 1][2] + 1
Rest == From(Len(frames) + 1)

IsCut(k) ==
    /\ startedAt(From(k), frames[k][1]) /\ unended(frames[k])
    /\ marker(frames[k][2] - 1, "D9") /\ frames[k][1] + 2 < frames[k][2]
    /\ size(frames[k]) <= MaxFrame

TypeInv ==
    /\ stream \in Seq(Byte) /\ started \in BOOLEAN /\ previous \in Byte
    /\ frame \in Nat \X Nat /\ frames \in Seq(Nat \X Nat)

\* No frame has begun since the last one; the reader remembers the byte before.
Searching ==
    /\ outcome \in {"none", "end"}
    /\ \A i \in Rest..Len(stream) : ~marker(i, "D8")
    /\ previous = IF Rest <= Len(stream) THEN stream[Len(stream)] ELSE Zero

\* A frame has begun and not ended, and the reader remembers the last byte, unless the
\* frame has just become too large.
Collecting ==
    /\ startedAt(Rest, frame[1]) /\ frame[2] = Len(stream)
    /\ IF outcome = "tooLarge"
       THEN /\ size(frame) > MaxFrame
            /\ \A i \in frame[1] + 2..Len(stream) - 2 : ~marker(i, "D9")
       ELSE /\ outcome \in {"none", "unexpectedEnd"} /\ size(frame) <= MaxFrame
            /\ \A i \in frame[1] + 2..Len(stream) - 1 : ~marker(i, "D9")
            /\ previous = stream[Len(stream)]

ReaderInv ==
    /\ TypeInv
    /\ \A k \in DOMAIN frames : IsCut(k)
    /\ Rest \in 1..Len(stream) + 1
    /\ IF started THEN Collecting ELSE Searching

LEMMA InitReaderInv == ReaderInit => ReaderInv
<1> SUFFICES ASSUME ReaderInit PROVE ReaderInv
  OBVIOUS
<1>1. stream = <<>> /\ Len(stream) = 0 /\ frames = <<>> /\ Len(frames) = 0
      /\ DOMAIN frames = {} /\ started = FALSE /\ outcome = "none" /\ previous = Zero
      /\ frame = <<1, 0>>
  BY DEF ReaderInit
<1>2. frame \in Nat \X Nat /\ stream \in Seq(Byte) /\ frames \in Seq(Nat \X Nat)
  BY <1>1
<1>3. TypeInv
  BY <1>1, <1>2, Zenon DEF TypeInv, Byte, Zero
<1>4. Rest = 1
  BY <1>1 DEF Rest, From
<1> QED BY <1>1, <1>3, <1>4 DEF ReaderInv, Searching

\* One more byte makes at most one more marker: the one that ends with it.
LEMMA Grow ==
  ASSUME TypeInv, NEW b \in Byte, stream' = Append(stream, b)
  PROVE  /\ Len(stream) \in Nat /\ Len(stream') = Len(stream) + 1 /\ stream' \in Seq(Byte)
         /\ stream'[Len(stream) + 1] = b
         /\ \A i \in 1..Len(stream) : stream'[i] = stream[i]
         /\ \A i \in 1..Len(stream) - 1 : \A c \in Byte : marker(i, c)' <=> marker(i, c)
         /\ \A i \in Nat : \A c \in Byte : i = Len(stream) /\ i > 0 =>
                (marker(i, c)' <=> stream[i] = "FF" /\ b = c)
         /\ \A i \in Nat : \A c \in Byte : i > Len(stream) => ~marker(i, c)'
<1>1. /\ Len(stream) \in Nat /\ Len(stream') = Len(stream) + 1 /\ stream' \in Seq(Byte)
      /\ stream'[Len(stream) + 1] = b /\ \A i \in 1..Len(stream) : stream'[i] = stream[i]
  BY DEF TypeInv
<1>2. ASSUME NEW i \in 1..Len(stream) - 1, NEW c \in Byte
      PROVE  marker(i, c)' <=> marker(i, c)
  <2>1. stream'[i] = stream[i] /\ stream'[i + 1] = stream[i + 1]
        /\ i < Len(stream') /\ i < Len(stream)
    BY <1>1
  <2> QED BY <2>1 DEF marker
<1>3. ASSUME NEW i \in Nat, NEW c \in Byte, i = Len(stream), i > 0
      PROVE  marker(i, c)' <=> stream[i] = "FF" /\ b = c
  <2>1. stream'[i] = stream[i] /\ stream'[i + 1] = b /\ i < Len(stream')
    BY <1>1, <1>3
  <2> QED BY <2>1 DEF marker
<1>4. ASSUME NEW i \in Nat, NEW c \in Byte, i > Len(stream) PROVE ~marker(i, c)'
  BY <1>1, <1>4 DEF marker
<1> QED BY <1>1, <1>2, <1>3, <1>4

\* Where frames begin and end.
LEMMA FrameTypes ==
  ASSUME TypeInv
  PROVE  /\ Len(frames) \in Nat /\ DOMAIN frames = 1..Len(frames)
         /\ frame[1] \in Nat /\ frame[2] \in Nat /\ frame = <<frame[1], frame[2]>>
         /\ \A k \in DOMAIN frames : frames[k][1] \in Nat /\ frames[k][2] \in Nat
         /\ \A k \in 1..Len(frames) + 1 : From(k) \in Nat /\ From(k) >= 1
<1>1. /\ Len(frames) \in Nat /\ DOMAIN frames = 1..Len(frames)
      /\ \A k \in DOMAIN frames : frames[k] \in Nat \X Nat
  BY DEF TypeInv
<1>2. frame[1] \in Nat /\ frame[2] \in Nat /\ frame = <<frame[1], frame[2]>>
  BY DEF TypeInv
<1>3. \A k \in DOMAIN frames : frames[k][1] \in Nat /\ frames[k][2] \in Nat
  BY <1>1
<1>4. ASSUME NEW k \in 1..Len(frames) + 1 PROVE From(k) \in Nat /\ From(k) >= 1
  <2>1. CASE k = 1
    BY <2>1 DEF From
  <2>2. CASE k # 1
    <3>1. k - 1 \in DOMAIN frames
      BY <1>1, <2>2
    <3> QED BY <2>2, <3>1, <1>3 DEF From
  <2> QED BY <2>1, <2>2
<1> QED BY <1>1, <1>2, <1>3, <1>4

\* A frame that has begun stays so.
LEMMA StartStays ==
  ASSUME TypeInv, NEW b \in Byte, stream' = Append(stream, b),
         NEW from \in Nat, NEW first \in Nat, from >= 1, startedAt(from, first)
  PROVE  first >= 1 /\ first < Len(stream) /\ startedAt(from, first)'
<1>1. first >= from /\ first < Len(stream) /\ marker(first, "D8")
      /\ \A i \in from..first - 1 : ~marker(i, "D8")
  BY DEF startedAt, marker
<1>2. Len(stream) \in Nat /\ "D8" \in Byte
      /\ \A i \in 1..Len(stream) - 1 : \A c \in Byte : marker(i, c)' <=> marker(i, c)
  BY Grow DEF Byte
<1>3. marker(first, "D8")' /\ \A i \in from..first - 1 : ~marker(i, "D8")'
  BY <1>1, <1>2
<1> QED BY <1>1, <1>3 DEF startedAt

\* What was cut stays cut.
LEMMA CutsStay ==
  ASSUME ReaderInv, NEW b \in Byte, stream' = Append(stream, b), NEW k \in DOMAIN frames,
         frames'[k] = frames[k], From(k)' = From(k)
  PROVE  IsCut(k)'
<1>1. TypeInv /\ IsCut(k) /\ From(k) \in Nat /\ From(k) >= 1
  BY FrameTypes DEF ReaderInv
<1>2. PICK first \in Nat, last \in Nat, from \in Nat :
        first = frames[k][1] /\ last = frames[k][2] /\ from = From(k)
  BY <1>1, FrameTypes
<1>3. /\ startedAt(from, first) /\ marker(last - 1, "D9") /\ first + 2 < last
      /\ size(frames[k]) <= MaxFrame /\ \A i \in first + 2..last - 2 : ~marker(i, "D9")
  BY <1>1, <1>2 DEF IsCut, unended
<1>4. first >= 1 /\ first < Len(stream) /\ startedAt(from, first)'
  BY <1>1, <1>2, <1>3, StartStays
<1>5. last - 1 < Len(stream)
  BY <1>3 DEF marker
<1>6. Len(stream) \in Nat /\ "D9" \in Byte
      /\ \A i \in 1..Len(stream) - 1 : \A c \in Byte : marker(i, c)' <=> marker(i, c)
  BY <1>1, Grow DEF Byte
<1>7. marker(last - 1, "D9")' /\ \A i \in first + 2..last - 2 : ~marker(i, "D9")'
  BY <1>2, <1>3, <1>4, <1>5, <1>6
<1>8. size(frames[k])' <= MaxFrame /\ unended(frames[k])' /\ startedAt(From(k), frames[k][1])'
      /\ marker(frames[k][2] - 1, "D9")' /\ (frames[k][1] + 2 < frames[k][2])'
  BY <1>2, <1>3, <1>4, <1>7 DEF size, unended
<1> QED BY <1>8 DEF IsCut

----------------------------------------------------------------------------
\* The steps.

LEMMA SkipInv ==
  ASSUME ReaderInv, NEW b \in Byte, outcome = "none", Skip(b), stream' = Append(stream, b)
  PROVE  ReaderInv'
<1>1. /\ TypeInv /\ Rest \in 1..Len(stream) + 1 /\ \A k \in DOMAIN frames : IsCut(k)
      /\ started = FALSE /\ started' = FALSE /\ Searching /\ previous' = b
      /\ ~(previous = "FF" /\ b = "D8")
      /\ frame' = frame /\ frames' = frames /\ outcome' = outcome
  BY DEF ReaderInv, Skip, TypeInv
<1>2. \A k : From(k)' = From(k)
  BY <1>1 DEF From
<1>3. Rest' = Rest
  BY <1>1 DEF Rest, From
<1>4. TypeInv'
  BY <1>1, Grow DEF TypeInv
<1>5. \A k \in DOMAIN frames : IsCut(k)'
  BY <1>1, <1>2, CutsStay
<1>6. Rest' \in 1..Len(stream') + 1 /\ stream'[Len(stream')] = b /\ Rest' <= Len(stream')
  BY <1>1, <1>3, Grow
<1>7. ASSUME NEW i \in Rest..Len(stream) + 1 PROVE ~marker(i, "D8")'
  <2>1. i \in Nat /\ i >= 1 /\ "D8" \in Byte /\ Len(stream) \in Nat
    BY <1>1, Grow DEF Byte
  <2>2. CASE i < Len(stream)
    BY <1>1, <2>1, <2>2, Grow DEF Searching
  <2>3. CASE i = Len(stream)
    BY <1>1, <2>1, <2>3, Grow DEF Searching
  <2>4. CASE i > Len(stream)
    BY <1>1, <2>1, <2>4, Grow
  <2> QED BY <2>1, <2>2, <2>3, <2>4
<1>8. Searching'
  BY <1>1, <1>3, <1>6, <1>7, Grow DEF Searching
<1> QED BY <1>1, <1>4, <1>5, <1>6, <1>8 DEF ReaderInv

LEMMA StartInv ==
  ASSUME ReaderInv, NEW b \in Byte, outcome = "none", Start(b), stream' = Append(stream, b)
  PROVE  ReaderInv'
<1>1. /\ TypeInv /\ Rest \in 1..Len(stream) + 1 /\ \A k \in DOMAIN frames : IsCut(k)
      /\ started = FALSE /\ started' = TRUE /\ Searching /\ previous' = b
      /\ previous = "FF" /\ b = "D8"
      /\ frame' = <<here - 1, here>> /\ frames' = frames /\ outcome' = outcome
  BY DEF ReaderInv, Start, TypeInv
<1>2. \A k : From(k)' = From(k)
  BY <1>1 DEF From
<1>3. Rest' = Rest
  BY <1>1 DEF Rest, From
<1>4. PICK n \in Nat : n = Len(stream)
  BY <1>1, Grow
<1>5. Rest <= n /\ n >= 1 /\ stream[n] = "FF" /\ frame' = <<n, n + 1>>
  BY <1>1, <1>4 DEF Searching, Zero, here
<1>6. TypeInv'
  <2>1. frame' \in Nat \X Nat
    BY <1>4, <1>5
  <2> QED BY <1>1, <2>1, Grow DEF TypeInv
<1>7. \A k \in DOMAIN frames : IsCut(k)'
  BY <1>1, <1>2, CutsStay
<1>8. Rest' \in 1..Len(stream') + 1 /\ Len(stream') = n + 1 /\ stream'[n + 1] = b
  BY <1>1, <1>3, <1>4, Grow
<1>9. marker(n, "D8")' /\ \A i \in Rest..n - 1 : ~marker(i, "D8")'
  BY <1>1, <1>4, <1>5, Grow DEF Searching, Byte
<1>10. startedAt(Rest, frame[1])'
  BY <1>3, <1>5, <1>9 DEF startedAt
<1>11. size(frame)' <= MaxFrame
  BY <1>4, <1>5, ReaderAssumption DEF size
<1>12. Collecting'
  BY <1>1, <1>4, <1>5, <1>8, <1>10, <1>11 DEF Collecting
<1> QED BY <1>1, <1>6, <1>7, <1>8, <1>12 DEF ReaderInv

\* While a frame grows.
LEMMA GrowFrame ==
  ASSUME ReaderInv, NEW b \in Byte, outcome = "none", started = TRUE,
         stream' = Append(stream, b)
  PROVE  \E n \in Nat, first \in Nat, from \in Nat :
            /\ n = Len(stream) /\ first = frame[1] /\ from = Rest
            /\ first >= 1 /\ first < n /\ Len(stream') = n + 1 /\ stream'[n + 1] = b
            /\ grown = <<first, n + 1>> /\ grown \in Nat \X Nat
            /\ startedAt(from, first) /\ startedAt(from, first)' /\ from \in 1..n + 1
            /\ previous = stream[n]
            /\ \A i \in first + 2..n - 1 : ~marker(i, "D9")'
            /\ marker(n, "D9")' <=> previous = "FF" /\ b = "D9"
<1>1. TypeInv /\ Rest \in 1..Len(stream) + 1 /\ Collecting
  BY DEF ReaderInv
<1>2. PICK n \in Nat, first \in Nat, from \in Nat :
        n = Len(stream) /\ first = frame[1] /\ from = Rest
  BY <1>1, Grow, FrameTypes
<1>3. startedAt(from, first) /\ previous = stream[n]
      /\ \A i \in first + 2..n - 1 : ~marker(i, "D9")
  BY <1>1, <1>2 DEF Collecting
<1>4. first >= 1 /\ first < n /\ startedAt(from, first)'
  BY <1>1, <1>2, <1>3, StartStays
<1>5. Len(stream') = n + 1 /\ stream'[n + 1] = b
  BY <1>1, <1>2, Grow
<1>6. \A i \in first + 2..n - 1 : ~marker(i, "D9")'
  <2> SUFFICES ASSUME NEW i \in first + 2..n - 1 PROVE ~marker(i, "D9")'
    OBVIOUS
  <2>1. i \in 1..Len(stream) - 1 /\ "D9" \in Byte
    BY <1>2, <1>4 DEF Byte
  <2> QED BY <1>1, <1>3, <2>1, Grow
<1>7. marker(n, "D9")' <=> previous = "FF" /\ b = "D9"
  BY <1>1, <1>2, <1>3, <1>4, Grow DEF Byte
<1>8. grown = <<first, n + 1>> /\ grown \in Nat \X Nat
  BY <1>2 DEF grown, here
<1> QED BY <1>1, <1>2, <1>3, <1>4, <1>5, <1>6, <1>7, <1>8

LEMMA TooLargeInv ==
  ASSUME ReaderInv, NEW b \in Byte, outcome = "none", TooLarge(b), stream' = Append(stream, b)
  PROVE  ReaderInv'
<1>1. /\ TypeInv /\ Rest \in 1..Len(stream) + 1 /\ \A k \in DOMAIN frames : IsCut(k)
      /\ started = TRUE /\ started' = TRUE /\ previous' = previous
      /\ size(grown) > MaxFrame /\ frame' = grown /\ frames' = frames
      /\ outcome' = "tooLarge"
  BY DEF ReaderInv, TooLarge, TypeInv
<1>2. \A k : From(k)' = From(k)
  BY <1>1 DEF From
<1>3. Rest' = Rest
  BY <1>1 DEF Rest, From
<1>4. PICK n \in Nat, first \in Nat, from \in Nat :
            /\ n = Len(stream) /\ first = frame[1] /\ from = Rest
            /\ first >= 1 /\ first < n /\ Len(stream') = n + 1 /\ stream'[n + 1] = b
            /\ grown = <<first, n + 1>> /\ grown \in Nat \X Nat
            /\ startedAt(from, first) /\ startedAt(from, first)' /\ from \in 1..n + 1
            /\ previous = stream[n]
            /\ \A i \in first + 2..n - 1 : ~marker(i, "D9")'
            /\ marker(n, "D9")' <=> previous = "FF" /\ b = "D9"
  BY <1>1, GrowFrame
<1>5. TypeInv'
  BY <1>1, <1>4, Grow DEF TypeInv
<1>6. \A k \in DOMAIN frames : IsCut(k)'
  BY <1>1, <1>2, CutsStay
<1>7. Rest' \in 1..Len(stream') + 1
  BY <1>3, <1>4
<1>8. size(frame)' > MaxFrame
  BY <1>1 DEF size
<1>9. /\ frame'[1] = first /\ frame'[2] = Len(stream') /\ startedAt(Rest, frame[1])'
      /\ \A i \in frame'[1] + 2..Len(stream') - 2 : ~marker(i, "D9")'
  <2>1. frame'[1] = first /\ frame'[2] = n + 1 /\ Rest' = from
    BY <1>1, <1>3, <1>4
  <2> QED BY <1>4, <2>1 DEF startedAt, marker
<1>10. Collecting'
  BY <1>1, <1>8, <1>9 DEF Collecting
<1> QED BY <1>1, <1>5, <1>6, <1>7, <1>10 DEF ReaderInv

LEMMA ContinueInv ==
  ASSUME ReaderInv, NEW b \in Byte, outcome = "none", Continue(b), stream' = Append(stream, b)
  PROVE  ReaderInv'
<1>1. /\ TypeInv /\ Rest \in 1..Len(stream) + 1 /\ \A k \in DOMAIN frames : IsCut(k)
      /\ started = TRUE /\ started' = TRUE /\ previous' = b
      /\ size(grown) <= MaxFrame /\ ~(previous = "FF" /\ b = "D9")
      /\ frame' = grown /\ frames' = frames /\ outcome' = "none"
  BY DEF ReaderInv, Continue, TypeInv
<1>2. \A k : From(k)' = From(k)
  BY <1>1 DEF From
<1>3. Rest' = Rest
  BY <1>1 DEF Rest, From
<1>4. PICK n \in Nat, first \in Nat, from \in Nat :
            /\ n = Len(stream) /\ first = frame[1] /\ from = Rest
            /\ first >= 1 /\ first < n /\ Len(stream') = n + 1 /\ stream'[n + 1] = b
            /\ grown = <<first, n + 1>> /\ grown \in Nat \X Nat
            /\ startedAt(from, first) /\ startedAt(from, first)' /\ from \in 1..n + 1
            /\ previous = stream[n]
            /\ \A i \in first + 2..n - 1 : ~marker(i, "D9")'
            /\ marker(n, "D9")' <=> previous = "FF" /\ b = "D9"
  BY <1>1, GrowFrame
<1>5. TypeInv'
  BY <1>1, <1>4, Grow DEF TypeInv
<1>6. \A k \in DOMAIN frames : IsCut(k)'
  BY <1>1, <1>2, CutsStay
<1>7. Rest' \in 1..Len(stream') + 1
  BY <1>3, <1>4
<1>8. size(frame)' <= MaxFrame
  BY <1>1 DEF size
<1>9. \A i \in first + 2..n : ~marker(i, "D9")'
  BY <1>1, <1>4
<1>10. Collecting'
  BY <1>1, <1>3, <1>4, <1>8, <1>9 DEF Collecting
<1> QED BY <1>1, <1>5, <1>6, <1>7, <1>10 DEF ReaderInv

LEMMA ReturnInv ==
  ASSUME ReaderInv, NEW b \in Byte, outcome = "none", Return(b), stream' = Append(stream, b)
  PROVE  ReaderInv'
<1>1. /\ TypeInv /\ Rest \in 1..Len(stream) + 1 /\ \A k \in DOMAIN frames : IsCut(k)
      /\ started = TRUE /\ started' = FALSE /\ previous' = Zero /\ frame' = <<1, 0>>
      /\ size(grown) <= MaxFrame /\ previous = "FF" /\ b = "D9"
      /\ frames' = Append(frames, grown) /\ outcome' = "none"
  BY DEF ReaderInv, Return, TypeInv
<1>2. PICK n \in Nat, first \in Nat, from \in Nat :
            /\ n = Len(stream) /\ first = frame[1] /\ from = Rest
            /\ first >= 1 /\ first < n /\ Len(stream') = n + 1 /\ stream'[n + 1] = b
            /\ grown = <<first, n + 1>> /\ grown \in Nat \X Nat
            /\ startedAt(from, first) /\ startedAt(from, first)' /\ from \in 1..n + 1
            /\ previous = stream[n]
            /\ \A i \in first + 2..n - 1 : ~marker(i, "D9")'
            /\ marker(n, "D9")' <=> previous = "FF" /\ b = "D9"
  BY <1>1, GrowFrame
<1>3. PICK m \in Nat : m = Len(frames)
  BY <1>1, FrameTypes
<1>4. /\ frames' \in Seq(Nat \X Nat) /\ Len(frames') = m + 1 /\ DOMAIN frames' = 1..m + 1
      /\ frames'[m + 1] = grown /\ DOMAIN frames = 1..m
      /\ \A k \in 1..m : frames'[k] = frames[k]
  BY <1>1, <1>2, <1>3 DEF TypeInv
<1>5. ASSUME NEW k \in 1..m + 1 PROVE From(k)' = From(k)
  <2>1. CASE k = 1
    BY <2>1 DEF From
  <2>2. CASE k # 1
    <3>1. frames'[k - 1] = frames[k - 1]
      BY <1>4, <2>2
    <3> QED BY <2>2, <3>1 DEF From
  <2> QED BY <2>1, <2>2
<1>6. TypeInv'
  <2>1. frame' \in Nat \X Nat /\ Zero \in Byte
    BY <1>1 DEF Byte, Zero
  <2> QED BY <1>1, <1>4, <2>1, Grow DEF TypeInv
<1>7. ASSUME NEW k \in 1..m PROVE IsCut(k)'
  <2>1. k \in DOMAIN frames /\ k \in 1..m + 1
    BY <1>4
  <2> QED BY <1>4, <1>5, <2>1, CutsStay
<1>8. IsCut(m + 1)'
  <2>1. From(m + 1)' = from /\ (frames[m + 1][1])' = first /\ (frames[m + 1][2])' = n + 1
    BY <1>2, <1>3, <1>4, <1>5 DEF Rest
  <2>2. first + 2 < n + 1
    <3>1. marker(first, "D8")
      BY <1>2 DEF startedAt
    <3>2. first + 1 # n
      BY <1>1, <1>2, <3>1 DEF marker
    <3> QED BY <1>2, <3>2
  <2>3. (size(frames[m + 1]) <= MaxFrame)'
    BY <1>1, <1>4 DEF size
  <2>4. unended(frames[m + 1])'
    BY <1>2, <2>1 DEF unended
  <2>5. marker(frames[m + 1][2] - 1, "D9")'
    <3>1. marker(n, "D9")'
      BY <1>1, <1>2
    <3>2. (frames[m + 1][2] - 1)' = n
      BY <2>1
    <3> QED BY <3>1, <3>2 DEF marker
  <2> QED BY <1>2, <2>1, <2>2, <2>3, <2>4, <2>5 DEF IsCut
<1>9. Rest' = n + 2
  BY <1>2, <1>3, <1>4 DEF Rest, From
<1>10. Rest' \in 1..Len(stream') + 1 /\ Searching'
  BY <1>1, <1>2, <1>9 DEF Searching
<1> QED BY <1>1, <1>3, <1>4, <1>6, <1>7, <1>8, <1>10 DEF ReaderInv

LEMMA EndOfStreamInv ==
  ASSUME ReaderInv, EndOfStream
  PROVE  ReaderInv'
<1>1. outcome = "none" /\ outcome' = (IF started THEN "unexpectedEnd" ELSE "end")
      /\ UNCHANGED <<stream, started, previous, frame, frames>> /\ started \in BOOLEAN
  BY DEF EndOfStream, ReaderInv, TypeInv
<1>2. Rest' = Rest /\ TypeInv' = TypeInv /\ startedAt(Rest, frame[1])' = startedAt(Rest, frame[1])
      /\ size(frame)' = size(frame)
  BY <1>1 DEF Rest, From, TypeInv, startedAt, marker, size
<1>3. \A k : IsCut(k)' = IsCut(k)
  BY <1>1 DEF IsCut, From, startedAt, unended, marker, size
<1>4. \A i, c : marker(i, c)' = marker(i, c)
  BY <1>1 DEF marker
<1>5. CASE started
  BY <1>1, <1>2, <1>3, <1>4, <1>5 DEF ReaderInv, Collecting
<1>6. CASE ~started
  BY <1>1, <1>2, <1>3, <1>4, <1>6 DEF ReaderInv, Searching
<1> QED BY <1>5, <1>6

LEMMA NextReaderInv == ReaderInv /\ [ReadStep]_readerVars => ReaderInv'
<1> SUFFICES ASSUME ReaderInv, [ReadStep]_readerVars PROVE ReaderInv'
  OBVIOUS
<1>1. CASE EndOfStream
  BY <1>1, EndOfStreamInv
<1>2. ASSUME NEW b \in Byte, ReadByte(b) PROVE ReaderInv'
  BY <1>2, SkipInv, StartInv, TooLargeInv, ReturnInv, ContinueInv DEF ReadByte
<1>3. CASE UNCHANGED readerVars
  <2>1. UNCHANGED <<stream, started, previous, frame, frames, outcome>>
    BY <1>3 DEF readerVars
  <2>2. Rest' = Rest /\ TypeInv' = TypeInv /\ size(frame)' = size(frame)
        /\ startedAt(Rest, frame[1])' = startedAt(Rest, frame[1])
    BY <2>1 DEF Rest, From, TypeInv, startedAt, marker, size
  <2>3. \A k : IsCut(k)' = IsCut(k)
    BY <2>1 DEF IsCut, From, startedAt, unended, marker, size
  <2>4. \A i, c : marker(i, c)' = marker(i, c)
    BY <2>1 DEF marker
  <2>5. Collecting' = Collecting /\ Searching' = Searching
    BY <2>1, <2>2, <2>4 DEF Collecting, Searching
  <2> QED BY <2>1, <2>2, <2>3, <2>5 DEF ReaderInv
<1> QED BY <1>1, <1>2, <1>3 DEF ReadStep

\* With its parts named, FramesAreCut follows.
LEMMA InvIsEnough == ReaderInv => FramesAreCut
<1> SUFFICES ASSUME ReaderInv PROVE FramesAreCut
  OBVIOUS
<1>0. TypeInv /\ Len(stream) \in Nat /\ \A k \in DOMAIN frames : IsCut(k)
  BY DEF ReaderInv, TypeInv
<1>1. PICK n \in Nat, first \in Nat :
        n = Len(stream) /\ first = frame[1] /\ Rest \in 1..n + 1
  BY <1>0, FrameTypes DEF ReaderInv
<1>2. \A k \in DOMAIN frames :
        /\ startedAt(From(k), frames[k][1]) /\ unended(frames[k])
        /\ marker(frames[k][2] - 1, "D9") /\ frames[k][1] + 2 < frames[k][2]
        /\ size(frames[k]) <= MaxFrame
  BY <1>0 DEF IsCut
<1>3. IF \E i \in Rest..n : marker(i, "D8")
      THEN /\ startedAt(Rest, frame[1]) /\ frame[2] = n
           /\ unended(<<frame[1], n>>)
           /\ outcome \in IF size(frame) > MaxFrame THEN {"tooLarge"}
                                                   ELSE {"none", "unexpectedEnd"}
           /\ marker(n - 1, "D9") /\ frame[1] + 2 < n => outcome = "tooLarge"
      ELSE outcome \in {"none", "end"}
  <2>1. CASE started
    <3>1. Collecting
      BY <2>1 DEF ReaderInv
    <3>2. /\ startedAt(Rest, first) /\ first >= Rest /\ first < n /\ marker(first, "D8")
          /\ frame[1] = first /\ frame[2] = n /\ size(frame) = n + 1 - first
      BY <1>1, <3>1 DEF Collecting, startedAt, marker, size
    <3>3. /\ \A i \in first + 2..n - 2 : ~marker(i, "D9")
          /\ outcome = "tooLarge" => size(frame) > MaxFrame
          /\ outcome # "tooLarge" =>
                /\ outcome \in {"none", "unexpectedEnd"} /\ size(frame) <= MaxFrame
                /\ \A i \in first + 2..n - 1 : ~marker(i, "D9")
      BY <1>1, <3>1 DEF Collecting
    <3>4. unended(<<first, n>>)
      BY <1>1, <3>3 DEF unended
    <3>5. outcome \in (IF size(frame) > MaxFrame THEN {"tooLarge"}
                                                 ELSE {"none", "unexpectedEnd"})
      BY <1>1, <3>2, <3>3, ReaderAssumption
    <3>6. marker(n - 1, "D9") /\ first + 2 < n => outcome = "tooLarge"
      BY <1>1, <3>3
    <3> QED BY <1>1, <3>2, <3>4, <3>5, <3>6
  <2>2. CASE ~started
    BY <1>1, <2>2 DEF ReaderInv, Searching
  <2> QED BY <2>1, <2>2
<1> QED BY <1>1, <1>2, <1>3 DEF FramesAreCut, From, Rest

\* However the bytes come, each frame that ReadFrame returns goes from the first start
\* marker after the last frame to the first end marker after that; none that is complete
\* is passed over; and only an open frame that has outgrown the limit stops the reader
\* (mjpeg.go:20-48).
THEOREM FramesAreWhole == ReaderSpec => []FramesAreCut
<1> QED BY InitReaderInv, NextReaderInv, InvIsEnough, PTL DEF ReaderSpec
=============================================================================
